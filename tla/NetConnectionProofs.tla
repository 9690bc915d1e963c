-------------------------- MODULE NetConnectionProofs --------------------------
(***************************************************************************)
(* Theorems about NetConnection, for every modulus, every buffer that      *)
(* holds fewer chunks than half of the numbers, every size of packets and  *)
(* every network whose packets do not live as long as the numbers.         *)
(***************************************************************************)
EXTENDS NetConnection, SequenceTheorems, WellFoundedInduction, TLAPS

--------------------------------------------------------------------------------
(* The two sides.                                                          *)

LEMMA Sides ==
  ASSUME NEW p \in Peers
  PROVE  /\ Other(p) \in Peers /\ Other(p) # p /\ Other(Other(p)) = p
         /\ \A r \in Peers : r = p \/ r = Other(p)
<1>1. PICK a, b \in Peers : a # b /\ Peers = {a, b}
  BY NetAssumption
<1>2. \A r \in Peers : \E s \in Peers : s # r
  BY <1>1
<1>3. \A r \in Peers : Other(r) \in Peers /\ Other(r) # r
  BY <1>2 DEF Other
<1> QED BY <1>1, <1>3

--------------------------------------------------------------------------------
(* Numbers modulo MaxSequence.                                             *)

LEMMA Modulus == MaxSequence \in Nat /\ MaxSequence > 1 /\ BufferEntries \in Nat
                 /\ 2 * BufferEntries < MaxSequence /\ PacketSize \in Nat /\ PacketSize > 0
BY NetAssumption

LEMMA Division ==
  ASSUME NEW x \in Nat
  PROVE  \E k \in Int : x = MaxSequence * k + (x % MaxSequence)
                        /\ x % MaxSequence \in SeqNumbers
<1>1. x \div MaxSequence \in Int
      /\ x = MaxSequence * (x \div MaxSequence) + (x % MaxSequence)
      /\ x % MaxSequence \in 0 .. MaxSequence - 1
  BY Modulus
<1> QED BY <1>1 DEF SeqNumbers

\* Numbers less than the modulus apart: the distance of their remainders, or the
\* later one has wrapped round.
LEMMA Distance ==
  ASSUME NEW x \in Nat, NEW y \in Nat, x <= y, y - x < MaxSequence
  PROVE  LET r == x % MaxSequence
             s == y % MaxSequence
         IN  /\ r \in SeqNumbers /\ s \in SeqNumbers
             /\ \/ r <= s /\ y - x = s - r
                \/ r > s /\ y - x = (s - r) + MaxSequence
<1> DEFINE r == x % MaxSequence
           s == y % MaxSequence
           M == MaxSequence
<1>1. PICK a \in Int : x = M * a + r /\ r \in SeqNumbers
  BY Division
<1>2. PICK b \in Int : y = M * b + s /\ s \in SeqNumbers
  BY Division
<1>3. M \in Nat /\ M > 1 /\ r \in 0 .. M - 1 /\ s \in 0 .. M - 1
  BY Modulus, <1>1, <1>2 DEF SeqNumbers
<1>4. (M * b) - (M * a) = (y - x) - (s - r)
  BY <1>1, <1>2, <1>3
<1>5. M * (b - a) = (y - x) - (s - r)
  BY <1>3, <1>4
<1> HIDE DEF r, s, M
<1>6. CASE b - a < 0
  <2>1. M * (b - a) <= -M
    BY <1>3, <1>6
  <2> QED BY <1>3, <1>5, <2>1
<1>7. CASE b - a = 0
  <2>1. M * (b - a) = 0
    BY <1>3, <1>7
  <2>2. y - x = s - r
    BY <1>3, <1>5, <2>1
  <2> QED BY <1>1, <1>2, <1>3, <2>2 DEF r, s, M
<1>8. CASE b - a = 1
  <2>1. M * (b - a) = M
    BY <1>3, <1>8
  <2>2. y - x = (s - r) + M
    BY <1>3, <1>5, <2>1
  <2>3. y - x < M
    BY DEF M
  <2> QED BY <1>1, <1>2, <1>3, <2>2, <2>3 DEF r, s, M
<1>9. CASE b - a > 1
  <2>1. M * (b - a) >= 2 * M
    BY <1>3, <1>9
  <2>2. y - x < M
    BY DEF M
  <2> QED BY <1>3, <1>5, <2>1, <2>2
<1> QED BY <1>6, <1>7, <1>8, <1>9

LEMMA SameNumber ==
  ASSUME NEW x \in Nat, NEW y \in Nat, x % MaxSequence = y % MaxSequence,
         x - y < MaxSequence, y - x < MaxSequence
  PROVE  x = y
<1>1. x % MaxSequence \in SeqNumbers
  BY Division
<1>2. CASE x <= y
  <2>1. \/ y - x = (y % MaxSequence) - (x % MaxSequence)
        \/ y % MaxSequence < x % MaxSequence
    BY <1>2, Distance
  <2> QED BY <1>1, <1>2, <2>1, Modulus DEF SeqNumbers
<1>3. CASE y <= x
  <2>1. \/ x - y = (x % MaxSequence) - (y % MaxSequence)
        \/ x % MaxSequence < y % MaxSequence
    BY <1>3, Distance
  <2> QED BY <1>1, <1>3, <2>1, Modulus DEF SeqNumbers
<1> QED BY <1>2, <1>3

\* NextSequence of a number is the number of the next one.
LEMMA NextNumber ==
  ASSUME NEW x \in Nat
  PROVE  NextSequence(x % MaxSequence) = (x + 1) % MaxSequence
<1> DEFINE r == x % MaxSequence
           s == (x + 1) % MaxSequence
<1>1. /\ r \in SeqNumbers /\ s \in SeqNumbers
      /\ \/ r <= s /\ 1 = s - r
         \/ r > s /\ 1 = (s - r) + MaxSequence
  <2>1. x + 1 \in Nat /\ x <= x + 1 /\ (x + 1) - x = 1 /\ 1 < MaxSequence
    BY Modulus
  <2> QED BY <2>1, Distance
<1> HIDE DEF r, s
<1>2. CASE r + 1 < MaxSequence
  <2>1. (r + 1) % MaxSequence = r + 1
    BY <1>1, <1>2, Modulus DEF SeqNumbers
  <2>2. s = r + 1
    BY <1>1, <1>2, Modulus DEF SeqNumbers
  <2> QED BY <2>1, <2>2 DEF NextSequence, r, s
<1>3. CASE r + 1 >= MaxSequence
  <2>1. r + 1 = MaxSequence /\ s = 0
    BY <1>1, <1>3, Modulus DEF SeqNumbers
  <2>2. MaxSequence % MaxSequence = 0
    BY Modulus
  <2> QED BY <2>1, <2>2 DEF NextSequence, r, s
<1> QED BY <1>1, <1>2, <1>3, Modulus DEF SeqNumbers

\* Inside a window smaller than half of the numbers, the backroom of an
\* acknowledgement is what it acknowledges.
LEMMA Backroom ==
  ASSUME NEW n \in Nat, NEW a \in Nat, n - a <= BufferEntries, a - n <= BufferEntries
  PROVE  IsSeqInBackroom(n % MaxSequence, a % MaxSequence) <=> n <= a
<1> DEFINE s == n % MaxSequence
           t == a % MaxSequence
           h == MaxSequence \div 2
<1>1. h \in Nat /\ 2 * h <= MaxSequence /\ MaxSequence <= 2 * h + 1
  BY Modulus
<1>2. BufferEntries <= h /\ BufferEntries < MaxSequence - h /\ BufferEntries < MaxSequence
  BY <1>1, Modulus
<1>3. CASE n <= a
  <2>1. /\ s \in SeqNumbers /\ t \in SeqNumbers
        /\ \/ s <= t /\ a - n = t - s
           \/ s > t /\ a - n = (t - s) + MaxSequence
    <3>1. a - n < MaxSequence
      BY <1>2, Modulus
    <3> QED BY <1>3, <3>1, Distance
  <2> HIDE DEF s, t, h
  <2>2. IsSeqInBackroom(s, t)
    BY <1>1, <1>2, <2>1, Modulus DEF IsSeqInBackroom, SeqNumbers, h
  <2> QED BY <1>3, <2>2 DEF s, t
<1>4. CASE n > a
  <2>1. /\ s \in SeqNumbers /\ t \in SeqNumbers
        /\ \/ t <= s /\ n - a = s - t
           \/ t > s /\ n - a = (s - t) + MaxSequence
    <3>1. n - a < MaxSequence /\ a <= n
      BY <1>2, <1>4, Modulus
    <3> QED BY <3>1, Distance
  <2> HIDE DEF s, t, h
  <2>2. ~IsSeqInBackroom(s, t)
    BY <1>1, <1>2, <1>4, <2>1, Modulus DEF IsSeqInBackroom, SeqNumbers, h
  <2> QED BY <1>4, <2>2 DEF s, t
<1> QED BY <1>3, <1>4

\* Feed accepts exactly the acknowledgements that are not older than the one
\* whose number it remembers.
LEMMA AckWindow ==
  ASSUME NEW p \in Peers, NEW s \in Nat, NEW w \in Nat, NEW a \in Nat,
         seq[p] = s % MaxSequence, peerAck[p] = w % MaxSequence,
         w <= s, s - w < MaxSequence, a <= s, s - a < MaxSequence
  PROVE  IsValidAck(p, a % MaxSequence) <=> w <= a
<1> DEFINE x == s % MaxSequence
           y == w % MaxSequence
           z == a % MaxSequence
           M == MaxSequence
<1>1. /\ x \in SeqNumbers /\ y \in SeqNumbers
      /\ \/ y <= x /\ s - w = x - y
         \/ y > x /\ s - w = (x - y) + M
  BY Distance
<1>2. /\ z \in SeqNumbers
      /\ \/ z <= x /\ s - a = x - z
         \/ z > x /\ s - a = (x - z) + M
  BY Distance
<1>3. IsValidAck(p, z) <=> IF x >= y THEN z >= y /\ z <= x ELSE z >= y \/ z <= x
  BY DEF IsValidAck
<1> HIDE DEF x, y, z
<1>4. x \in 0 .. M - 1 /\ y \in 0 .. M - 1 /\ z \in 0 .. M - 1 /\ M \in Nat
  BY <1>1, <1>2, Modulus DEF SeqNumbers
<1>5. CASE y <= x
  BY <1>1, <1>2, <1>3, <1>4, <1>5 DEF z
<1>6. CASE y > x
  BY <1>1, <1>2, <1>3, <1>4, <1>6 DEF z
<1> QED BY <1>4, <1>5, <1>6

--------------------------------------------------------------------------------
(* The resend buffer.                                                      *)

\* AckChunks stops at the first entry that is not acknowledged, and there always
\* is a place to stop.
LEMMA AckStops ==
  ASSUME NEW b \in Seq(Chunk), NEW a \in SeqNumbers
  PROVE  LET k == AckedEntries(b, a)
         IN  /\ k \in 0 .. Len(b)
             /\ \A i \in 1 .. k : IsSeqInBackroom(b[i].seq, a)
             /\ k < Len(b) => ~IsSeqInBackroom(b[k + 1].seq, a)
<1> DEFINE Stop(k) == k < Len(b) => ~IsSeqInBackroom(b[k + 1].seq, a)
           T == {k \in Nat : k <= Len(b) /\ Stop(k)}
<1>1. Len(b) \in Nat /\ Len(b) \in T
  BY LenProperties
<1>2. PICK k \in T : \A e \in T : ~ (<<e, k>> \in OpToRel(<, Nat))
  <2>1. T \subseteq Nat /\ T # {}
    BY <1>1
  <2> HIDE DEF T
  <2> QED BY <2>1, NatLessThanWellFounded, WFMin, Zenon
<1>3. \A e \in T : ~ (e < k)
  <2>1. T \subseteq Nat
    OBVIOUS
  <2> HIDE DEF T
  <2> QED BY <1>2, <2>1, Zenon DEF OpToRel
<1>k. k \in Nat /\ k <= Len(b) /\ Stop(k)
  OBVIOUS
<1>4. ASSUME NEW i \in 1 .. k PROVE IsSeqInBackroom(b[i].seq, a)
  <2>1. i - 1 \in Nat /\ i - 1 < k /\ i - 1 < Len(b) /\ (i - 1) + 1 = i
    BY <1>1, <1>k
  <2>2. i - 1 \notin T
    BY <1>3, <2>1
  <2>3. ~Stop(i - 1)
    <3> HIDE DEF Stop
    <3> QED BY <2>1, <2>2, <1>1
  <2>4. IsSeqInBackroom(b[(i - 1) + 1].seq, a)
    BY <2>3
  <2> QED BY <2>1, <2>4
<1>5. /\ k \in 0 .. Len(b)
      /\ \A i \in 1 .. k : IsSeqInBackroom(b[i].seq, a)
      /\ k < Len(b) => ~IsSeqInBackroom(b[k + 1].seq, a)
  BY <1>1, <1>k, <1>4
<1> QED BY <1>5 DEF AckedEntries

\* What AckChunks leaves is the end of the buffer.
LEMMA AckLeaves ==
  ASSUME NEW b \in Seq(Chunk), NEW a \in SeqNumbers
  PROVE  LET k == AckedEntries(b, a)
         IN  /\ k \in 0 .. Len(b)
             /\ AckChunks(b, a) \in Seq(Chunk)
             /\ Len(AckChunks(b, a)) = Len(b) - k
             /\ \A i \in 1 .. Len(b) - k : AckChunks(b, a)[i] = b[i + k]
<1> DEFINE k == AckedEntries(b, a)
<1>1. k \in 0 .. Len(b) /\ Len(b) \in Nat
  BY AckStops, LenProperties
<1> HIDE DEF k
<1>2. \A i \in k + 1 .. Len(b) : b[i] \in Chunk
  BY <1>1, ElementOfSeq
<1>3. /\ SubSeq(b, k + 1, Len(b)) \in Seq(Chunk)
      /\ Len(SubSeq(b, k + 1, Len(b))) = IF k + 1 <= Len(b) THEN (Len(b) - (k + 1)) + 1 ELSE 0
      /\ \A i \in 1 .. (Len(b) - (k + 1)) + 1 :
           SubSeq(b, k + 1, Len(b))[i] = b[((k + 1) + i) - 1]
  <2>1. k + 1 \in Int /\ Len(b) \in Int
    BY <1>1
  <2>2. /\ SubSeq(b, k + 1, Len(b)) \in Seq(Chunk)
        /\ Len(SubSeq(b, k + 1, Len(b)))
             = IF k + 1 <= Len(b) THEN (Len(b) - (k + 1)) + 1 ELSE 0
    BY <1>2, <2>1, SubSeqProperties
  <2>3. \A i \in 1 .. (Len(b) - (k + 1)) + 1 :
          SubSeq(b, k + 1, Len(b))[i] = b[((k + 1) + i) - 1]
    BY <1>2, <2>1, SubSeqProperties
  <2> QED BY <2>2, <2>3
<1>4. Len(SubSeq(b, k + 1, Len(b))) = Len(b) - k
  BY <1>1, <1>3
<1>5. ASSUME NEW i \in 1 .. Len(b) - k PROVE SubSeq(b, k + 1, Len(b))[i] = b[i + k]
  <2>1. i \in 1 .. (Len(b) - (k + 1)) + 1 /\ ((k + 1) + i) - 1 = i + k
    BY <1>1
  <2> QED BY <1>3, <2>1
<1> QED BY <1>1, <1>3, <1>4, <1>5 DEF AckChunks, k

\* Of a buffer that holds the chunks from base on without a gap, it leaves those
\* after the acknowledged one.
LEMMA AckExact ==
  ASSUME NEW b \in Seq(Chunk), NEW base \in Nat, NEW a \in Nat,
         Len(b) <= BufferEntries,
         \A i \in 1 .. Len(b) : b[i].n = base + i /\ b[i].seq = (base + i) % MaxSequence,
         base <= a, a <= base + Len(b)
  PROVE  LET r == AckChunks(b, a % MaxSequence)
         IN  /\ Len(r) = (base + Len(b)) - a
             /\ \A i \in 1 .. Len(r) : r[i].n = a + i
<1> DEFINE t == a % MaxSequence
           k == AckedEntries(b, t)
           r == AckChunks(b, t)
<1>1. t \in SeqNumbers
  BY Division
<1>2. Len(b) \in Nat /\ BufferEntries \in Nat
  BY LenProperties, Modulus
<1>3. /\ k \in 0 .. Len(b)
      /\ \A i \in 1 .. k : IsSeqInBackroom(b[i].seq, t)
      /\ k < Len(b) => ~IsSeqInBackroom(b[k + 1].seq, t)
  BY <1>1, AckStops
<1>4. /\ Len(r) = Len(b) - k
      /\ \A i \in 1 .. Len(b) - k : r[i] = b[i + k]
  BY <1>1, AckLeaves
<1> HIDE DEF k, r
<1>5. ASSUME NEW i \in 1 .. Len(b) PROVE IsSeqInBackroom(b[i].seq, t) <=> base + i <= a
  <2>1. base + i \in Nat /\ (base + i) - a <= BufferEntries /\ a - (base + i) <= BufferEntries
    BY <1>2
  <2>2. IsSeqInBackroom((base + i) % MaxSequence, a % MaxSequence) <=> base + i <= a
    BY <2>1, Backroom
  <2> QED BY <2>2
<1> HIDE DEF t
<1>6. base + k <= a
  <2>1. CASE k = 0
    BY <2>1
  <2>2. CASE k # 0
    <3>1. k \in 1 .. Len(b) /\ k \in 1 .. k
      BY <1>2, <1>3, <2>2
    <3> QED BY <1>3, <1>5, <3>1
  <2> QED BY <2>1, <2>2
<1>7. k < Len(b) => base + (k + 1) > a
  <2>1. ASSUME k < Len(b) PROVE base + (k + 1) > a
    <3>1. k + 1 \in 1 .. Len(b)
      BY <1>2, <1>3, <2>1
    <3>2. ~(base + (k + 1) <= a)
      BY <1>3, <1>5, <2>1, <3>1
    <3> QED BY <1>2, <1>3, <3>2
  <2> QED BY <2>1
<1>8. k = a - base
  BY <1>2, <1>3, <1>6, <1>7
<1>9. Len(r) = (base + Len(b)) - a
  BY <1>2, <1>4, <1>8
<1>10. ASSUME NEW i \in 1 .. Len(r) PROVE r[i].n = a + i
  <2>1. i \in 1 .. Len(b) - k /\ i + k \in 1 .. Len(b)
    BY <1>2, <1>3, <1>4
  <2>2. r[i] = b[i + k] /\ b[i + k].n = base + (i + k)
    BY <1>4, <2>1
  <2> QED BY <1>8, <2>1, <2>2
<1> QED BY <1>9, <1>10 DEF r, t

--------------------------------------------------------------------------------
(* Packets.                                                                *)

LEMMA PartOf ==
  ASSUME NEW s \in Seq(Chunk), NEW m \in Nat, NEW n \in Int, m >= 1, n <= Len(s)
  PROVE  /\ SubSeq(s, m, n) \in Seq(Chunk)
         /\ ChunksOf(SubSeq(s, m, n)) \subseteq ChunksOf(s)
<1> DEFINE t == SubSeq(s, m, n)
<1>1. Len(s) \in Nat
  BY LenProperties
<1>2. \A i \in m .. n : i \in 1 .. Len(s) /\ s[i] \in Chunk
  BY <1>1, ElementOfSeq
<1>3. /\ t \in Seq(Chunk)
      /\ Len(t) = IF m <= n THEN (n - m) + 1 ELSE 0
      /\ \A i \in 1 .. (n - m) + 1 : t[i] = s[(m + i) - 1]
  <2>1. m \in Int /\ \A i \in m .. n : s[i] \in Chunk
    BY <1>2
  <2>2. t \in Seq(Chunk) /\ Len(t) = IF m <= n THEN (n - m) + 1 ELSE 0
    BY <2>1, SubSeqProperties
  <2>3. \A i \in 1 .. (n - m) + 1 : t[i] = s[(m + i) - 1]
    BY <2>1, SubSeqProperties
  <2> QED BY <2>2, <2>3
<1> HIDE DEF t
<1>4. ASSUME NEW i \in 1 .. Len(t) PROVE t[i] \in ChunksOf(s)
  <2>1. i \in 1 .. (n - m) + 1 /\ (m + i) - 1 \in 1 .. Len(s)
    BY <1>1, <1>3
  <2>2. t[i] = s[(m + i) - 1]
    BY <1>3, <2>1
  <2> QED BY <2>1, <2>2 DEF ChunksOf
<1>5. ChunksOf(t) \subseteq ChunksOf(s)
  BY <1>4 DEF ChunksOf
<1> QED BY <1>3, <1>5 DEF t

LEMMA Joined ==
  ASSUME NEW s \in Seq(Chunk), NEW t \in Seq(Chunk)
  PROVE  /\ s \o t \in Seq(Chunk)
         /\ ChunksOf(s \o t) \subseteq ChunksOf(s) \cup ChunksOf(t)
<1>1. Len(s) \in Nat /\ Len(t) \in Nat
  BY LenProperties
<1>2. /\ s \o t \in Seq(Chunk)
      /\ Len(s \o t) = Len(s) + Len(t)
      /\ \A i \in 1 .. Len(s) + Len(t) :
           (s \o t)[i] = IF i <= Len(s) THEN s[i] ELSE t[i - Len(s)]
  BY ConcatProperties
<1>3. ASSUME NEW i \in 1 .. Len(s \o t)
      PROVE  (s \o t)[i] \in ChunksOf(s) \cup ChunksOf(t)
  <2>1. CASE i <= Len(s)
    <3>1. i \in 1 .. Len(s) /\ (s \o t)[i] = s[i]
      BY <1>1, <1>2, <2>1
    <3> QED BY <3>1 DEF ChunksOf
  <2>2. CASE i > Len(s)
    <3>1. i - Len(s) \in 1 .. Len(t) /\ (s \o t)[i] = t[i - Len(s)]
      BY <1>1, <1>2, <2>2
    <3> QED BY <3>1 DEF ChunksOf
  <2> QED BY <1>1, <2>1, <2>2
<1>4. ChunksOf(s \o t) \subseteq ChunksOf(s) \cup ChunksOf(t)
  BY <1>3 DEF ChunksOf
<1> QED BY <1>2, <1>4

\* The packets that are full have their chunks among those queued.
LEMMA Fits ==
  ASSUME NEW all \in Seq(Chunk)
  PROVE  /\ FullPackets(all) \in Nat
         /\ \A i \in 0 .. FullPackets(all) :
              i * PacketSize \in Nat /\ i * PacketSize <= Len(all)
         /\ \A i \in 1 .. FullPackets(all) : (i - 1) * PacketSize \in Nat
<1> DEFINE L == Len(all)
           k == FullPackets(all)
<1>1. L \in Nat /\ (all # <<>> => L > 0)
  BY LenProperties, EmptySeq
<1> HIDE DEF L
<1>2. PacketSize \in Nat /\ PacketSize > 0
  BY Modulus
<1>3. k \in Nat /\ k * PacketSize <= L
  <2>1. CASE all = <<>>
    BY <1>1, <1>2, <2>1 DEF FullPackets
  <2>2. CASE all # <<>>
    <3> DEFINE d == (L - 1) \div PacketSize
    <3>1. L - 1 \in Nat
      BY <1>1, <2>2
    <3>2. d \in Int /\ L - 1 = PacketSize * d + ((L - 1) % PacketSize)
          /\ (L - 1) % PacketSize \in 0 .. PacketSize - 1
      <4>1. \A x \in Nat : /\ x \div PacketSize \in Int
                          /\ x = PacketSize * (x \div PacketSize) + (x % PacketSize)
                          /\ x % PacketSize \in 0 .. PacketSize - 1
        BY <1>2
      <4> QED BY <3>1, <4>1
    <3>3. k = d
      BY <2>2 DEF FullPackets, L
    <3> HIDE DEF d, k
    <3>4. d >= 0
      <4>1. SUFFICES ASSUME d < 0 PROVE FALSE
        BY <3>2
      <4>2. PacketSize * d <= -PacketSize
        BY <1>2, <3>2, <4>1
      <4>3. L - 1 < 0
        BY <1>1, <1>2, <3>2, <4>2
      <4> QED BY <3>1, <4>3
    <3>5. PacketSize * d <= L
      BY <1>1, <1>2, <3>1, <3>2, <3>4
    <3>6. d * PacketSize = PacketSize * d
      BY <1>2, <3>2
    <3> QED BY <3>2, <3>3, <3>4, <3>5, <3>6
  <2> QED BY <2>1, <2>2
<1> HIDE DEF k
<1>4. ASSUME NEW i \in 0 .. k PROVE i * PacketSize \in Nat /\ i * PacketSize <= L
  <2>1. i \in Nat /\ k - i \in Nat
    BY <1>3
  <2>2. i * PacketSize \in Nat /\ (k - i) * PacketSize \in Nat
    BY <1>2, <2>1
  <2> HIDE DEF L
  <2>3. (k - i) * PacketSize = (k * PacketSize) - (i * PacketSize)
    <3>1. \A x, y, z \in Int : (x - y) * z = (x * z) - (y * z)
      OBVIOUS
    <3> QED BY <1>2, <1>3, <2>1, <3>1
  <2>4. k * PacketSize \in Int
    BY <1>2, <1>3
  <2> QED BY <1>1, <1>3, <2>2, <2>3, <2>4
<1>5. ASSUME NEW i \in 1 .. k PROVE (i - 1) * PacketSize \in Nat
  <2>1. i - 1 \in 0 .. k
    BY <1>3
  <2> QED BY <1>4, <2>1
<1> QED BY <1>3, <1>4, <1>5 DEF k, L

\* Every packet that is put together has a valid shape, tells the truth about
\* what its sender has been handed, and holds chunks that were put into it.
LEMMA Packing ==
  ASSUME TypeOK, NEW p \in Peers, NEW cs \in Seq(Chunk), NEW flush \in BOOLEAN
  PROVE  LET all == All(p, cs)
             c == Rest(p, all)
             put == ChunksOf(construct[p].chunks) \cup ChunksOf(cs)
         IN  /\ c \in [resend : BOOLEAN, chunks : Seq(Chunk)]
             /\ ChunksOf(c.chunks) \subseteq put
             /\ \A pk \in Flushed(p, all) \cup (IF flush THEN {FlushPacket(p, c)} ELSE {}) :
                  /\ pk \in Packet
                  /\ pk.ack = ack[p] /\ pk.acked = delivered[p]
                  /\ ChunksOf(pk.chunks) \subseteq put
<1> DEFINE all == All(p, cs)
           c == Rest(p, all)
           k == FullPackets(all)
           put == ChunksOf(construct[p].chunks) \cup ChunksOf(cs)
<1>1. /\ construct[p] \in [resend : BOOLEAN, chunks : Seq(Chunk)]
      /\ ack[p] \in SeqNumbers /\ delivered[p] \in Nat
  BY DEF TypeOK
<1>2. all \in Seq(Chunk) /\ ChunksOf(all) \subseteq put
  BY <1>1, Joined DEF All
<1>3. /\ k \in Nat
      /\ \A i \in 0 .. k : i * PacketSize \in Nat /\ i * PacketSize <= Len(all)
      /\ \A i \in 1 .. k : (i - 1) * PacketSize \in Nat
  BY <1>2, Fits
<1>4. Len(all) \in Nat
  BY <1>2, LenProperties
<1> HIDE DEF all, put
<1>5. c \in [resend : BOOLEAN, chunks : Seq(Chunk)] /\ ChunksOf(c.chunks) \subseteq put
  <2> DEFINE t == SubSeq(all, k * PacketSize + 1, Len(all))
  <2>1. t \in Seq(Chunk) /\ ChunksOf(t) \subseteq ChunksOf(all)
    <3>1. k * PacketSize \in Nat
      BY <1>3
    <3>2. k * PacketSize + 1 \in Nat /\ k * PacketSize + 1 >= 1 /\ Len(all) \in Int
      BY <1>4, <3>1
    <3> QED BY <1>2, <1>4, <3>2, PartOf
  <2>2. c = [resend |-> construct[p].resend /\ k = 0, chunks |-> t]
    BY DEF Rest
  <2> HIDE DEF t, c, k
  <2>3. (construct[p].resend /\ k = 0) \in BOOLEAN
    OBVIOUS
  <2> QED BY <1>2, <2>1, <2>2, <2>3
<1> HIDE DEF c
<1>6. ASSUME NEW r \in BOOLEAN, NEW t \in Seq(Chunk), ChunksOf(t) \subseteq put
      PROVE  /\ PacketOf(p, r, t) \in Packet
             /\ PacketOf(p, r, t).ack = ack[p] /\ PacketOf(p, r, t).acked = delivered[p]
             /\ ChunksOf(PacketOf(p, r, t).chunks) \subseteq put
  BY <1>1, <1>6 DEF PacketOf, Packet
<1>7. ASSUME NEW pk \in Flushed(p, all)
      PROVE  pk \in Packet /\ pk.ack = ack[p] /\ pk.acked = delivered[p]
             /\ ChunksOf(pk.chunks) \subseteq put
  <2>1. PICK i \in 1 .. k :
          pk = PacketOf(p, construct[p].resend /\ i = 1,
                        SubSeq(all, (i - 1) * PacketSize + 1, i * PacketSize))
    BY DEF Flushed
  <2> DEFINE t == SubSeq(all, (i - 1) * PacketSize + 1, i * PacketSize)
             r == construct[p].resend /\ i = 1
  <2>2. t \in Seq(Chunk) /\ ChunksOf(t) \subseteq ChunksOf(all)
    <3>1. /\ (i - 1) * PacketSize \in Nat /\ i * PacketSize \in Nat
          /\ i * PacketSize <= Len(all)
      <4> HIDE DEF k
      <4>1. i \in 0 .. k
        BY <1>3
      <4> QED BY <1>3, <4>1
    <3>2. /\ (i - 1) * PacketSize + 1 \in Nat /\ (i - 1) * PacketSize + 1 >= 1
          /\ i * PacketSize \in Int
      BY <3>1
    <3> HIDE DEF k
    <3> QED BY <1>2, <3>1, <3>2, PartOf
  <2>3. r \in BOOLEAN
    OBVIOUS
  <2>4. pk = PacketOf(p, r, t) /\ ChunksOf(t) \subseteq put
    BY <1>2, <2>1, <2>2
  <2> HIDE DEF r, t
  <2> QED BY <1>6, <2>2, <2>3, <2>4
<1>8. /\ FlushPacket(p, c) \in Packet
      /\ FlushPacket(p, c).ack = ack[p] /\ FlushPacket(p, c).acked = delivered[p]
      /\ ChunksOf(FlushPacket(p, c).chunks) \subseteq put
  <2>1. c.resend \in BOOLEAN /\ c.chunks \in Seq(Chunk)
    BY <1>5
  <2> QED BY <1>5, <1>6, <2>1 DEF FlushPacket
<1> QED BY <1>5, <1>7, <1>8 DEF all, c, put

\* What Output does: p's packet and p's outgoing link.
LEMMA OutputEffect ==
  ASSUME TypeOK, NEW p \in Peers, NEW cs \in Seq(Chunk), NEW flush \in BOOLEAN,
         NEW flight \in [Peers -> SUBSET Packet],
         Output(p, flight, cs, flush)
  PROVE  LET put == ChunksOf(construct[p].chunks) \cup ChunksOf(cs)
         IN  /\ construct' \in [Peers -> [resend : BOOLEAN, chunks : Seq(Chunk)]]
             /\ construct'[Other(p)] = construct[Other(p)]
             /\ ChunksOf(construct'[p].chunks) \subseteq put
             /\ net' \in [Peers -> SUBSET Packet]
             /\ net'[p] = flight[p]
             /\ \A pk \in net'[Other(p)] :
                  \/ pk \in flight[Other(p)]
                  \/ /\ pk.ack = ack[p] /\ pk.acked = delivered[p]
                     /\ ChunksOf(pk.chunks) \subseteq put
<1> DEFINE q == Other(p)
           all == All(p, cs)
           c == Rest(p, all)
           put == ChunksOf(construct[p].chunks) \cup ChunksOf(cs)
           new == Flushed(p, all) \cup (IF flush THEN {FlushPacket(p, c)} ELSE {})
           C == [resend : BOOLEAN, chunks : Seq(Chunk)]
<1>1. /\ c \in C
      /\ ChunksOf(c.chunks) \subseteq put
      /\ \A pk \in new : /\ pk \in Packet
                         /\ pk.ack = ack[p] /\ pk.acked = delivered[p]
                         /\ ChunksOf(pk.chunks) \subseteq put
  BY Packing
<1>2. q \in Peers /\ q # p
  BY Sides
<1>3. /\ construct' = [construct EXCEPT ![p] = IF flush THEN EmptyConstruct ELSE c]
      /\ Transmit(p, flight, new)
  BY DEF Output
<1>4. PICK old \in SUBSET flight[q] : net' = [flight EXCEPT ![q] = old \cup new]
  BY <1>3 DEF Transmit
<1> HIDE DEF c, new
<1>5. EmptyConstruct \in C /\ ChunksOf(EmptyConstruct.chunks) = {}
  BY DEF EmptyConstruct, ChunksOf
<1>6. construct' \in [Peers -> C] /\ construct'[q] = construct[q]
  BY <1>1, <1>2, <1>3, <1>5 DEF TypeOK
<1>7. ChunksOf(construct'[p].chunks) \subseteq put
  <2>1. construct'[p] = IF flush THEN EmptyConstruct ELSE c
    BY <1>3 DEF TypeOK
  <2> QED BY <1>1, <1>5, <2>1
<1>8. net' \in [Peers -> SUBSET Packet] /\ net'[p] = flight[p] /\ net'[q] = old \cup new
  BY <1>1, <1>2, <1>4
<1> QED BY <1>1, <1>6, <1>7, <1>8

--------------------------------------------------------------------------------
(* Types.                                                                  *)

LEMMA TypeInit == Init => TypeOK
<1> SUFFICES ASSUME Init PROVE TypeOK
  OBVIOUS
<1>1. \A p \in Peers : First[p] \in Nat /\ First[p] % MaxSequence \in SeqNumbers
                       /\ Other(p) \in Peers
  BY NetAssumption, Division, Sides
<1>2. First \in [Peers -> Nat] /\ <<>> \in Seq(Chunk)
  BY NetAssumption, EmptySeq
<1>3. EmptyConstruct \in [resend : BOOLEAN, chunks : Seq(Chunk)]
  BY <1>2 DEF EmptyConstruct
<1>4. /\ seq \in [Peers -> SeqNumbers] /\ ack \in [Peers -> SeqNumbers]
      /\ peerAck \in [Peers -> SeqNumbers] /\ delivered \in [Peers -> Nat]
  BY <1>1 DEF Init
<1>5. /\ state \in [Peers -> {"online", "error", "offline"}]
      /\ buffer \in [Peers -> Seq(Chunk)] /\ unpack \in [Peers -> Seq(Chunk)]
      /\ construct \in [Peers -> [resend : BOOLEAN, chunks : Seq(Chunk)]]
      /\ net \in [Peers -> SUBSET Packet] /\ sent \in [Peers -> Nat]
      /\ overflow \in [Peers -> BOOLEAN]
  BY <1>2, <1>3 DEF Init
<1> QED BY <1>4, <1>5 DEF TypeOK

LEMMA TypeStep == TypeOK /\ [Next]_vars => TypeOK'
<1> SUFFICES ASSUME TypeOK, [Next]_vars PROVE TypeOK'
  OBVIOUS
<1> DEFINE C == [resend : BOOLEAN, chunks : Seq(Chunk)]
<1>1. CASE UNCHANGED vars
  BY <1>1 DEF TypeOK, vars, conn, history
<1>2. ASSUME NEW p \in Peers, QueueChunk(p) PROVE TypeOK'
  <2> DEFINE c == [seq |-> NextSequence(seq[p]), n |-> sent[p] + 1]
  <2>1. seq[p] \in SeqNumbers /\ sent[p] \in Nat
    BY DEF TypeOK
  <2>2. NextSequence(seq[p]) \in SeqNumbers
    <3>1. seq[p] + 1 \in Nat
      BY <2>1, Modulus DEF SeqNumbers
    <3> QED BY <3>1, Division DEF NextSequence
  <2>3. c \in Chunk /\ <<c>> \in Seq(Chunk)
    BY <2>1, <2>2 DEF Chunk
  <2>4. construct' \in [Peers -> C] /\ net' \in [Peers -> SUBSET Packet]
    <3>1. PICK flush \in BOOLEAN : Output(p, net, <<c>>, flush)
      BY <1>2 DEF QueueChunk
    <3>2. net \in [Peers -> SUBSET Packet]
      BY DEF TypeOK
    <3> HIDE DEF c
    <3> QED BY <2>3, <3>1, <3>2, OutputEffect
  <2>5. seq' \in [Peers -> SeqNumbers] /\ sent' \in [Peers -> Nat]
    BY <1>2, <2>1, <2>2 DEF QueueChunk, TypeOK
  <2>6. buffer' \in [Peers -> Seq(Chunk)] /\ overflow' \in [Peers -> BOOLEAN]
    <3>1. \/ buffer' = [buffer EXCEPT ![p] = Append(@, c)] /\ overflow' = overflow
          \/ buffer' = buffer /\ overflow' = [overflow EXCEPT ![p] = TRUE]
      BY <1>2 DEF QueueChunk
    <3>2. buffer[p] \in Seq(Chunk)
      BY DEF TypeOK
    <3>3. Append(buffer[p], c) \in Seq(Chunk)
      BY <2>3, <3>2, AppendProperties
    <3> HIDE DEF c
    <3> QED BY <3>1, <3>3 DEF TypeOK
  <2>7. UNCHANGED <<state, ack, peerAck, unpack, delivered>>
    BY <1>2 DEF QueueChunk
  <2> HIDE DEF C
  <2> QED BY <2>4, <2>5, <2>6, <2>7 DEF TypeOK, C
<1>3. ASSUME NEW p \in Peers, Flush(p) PROVE TypeOK'
  <2>1. construct' \in [Peers -> C] /\ net' \in [Peers -> SUBSET Packet]
    <3>1. net \in [Peers -> SUBSET Packet] /\ <<>> \in Seq(Chunk) /\ TRUE \in BOOLEAN
      BY EmptySeq DEF TypeOK
    <3> QED BY <1>3, <3>1, OutputEffect DEF Flush
  <2> QED BY <1>3, <2>1 DEF Flush, TypeOK, history
<1>4. ASSUME NEW p \in Peers, Resend(p) PROVE TypeOK'
  <2>1. construct' \in [Peers -> C] /\ net' \in [Peers -> SUBSET Packet]
    <3>1. PICK flush \in BOOLEAN : Output(p, net, <<Head(buffer[p])>>, flush)
      BY <1>4 DEF Resend
    <3>2. net \in [Peers -> SUBSET Packet] /\ buffer[p] \in Seq(Chunk) /\ buffer[p] # <<>>
      BY <1>4 DEF TypeOK, Resend
    <3>3. <<Head(buffer[p])>> \in Seq(Chunk)
      BY <3>2, HeadTailProperties
    <3> QED BY <3>1, <3>2, <3>3, OutputEffect
  <2> QED BY <1>4, <2>1 DEF Resend, TypeOK, history
<1>5. ASSUME NEW p \in Peers, TimeOut(p) PROVE TypeOK'
  BY <1>5 DEF TimeOut, TypeOK, history
<1>6. ASSUME NEW p \in Peers, Disconnect(p) PROVE TypeOK'
  <2>1. net' \in [Peers -> SUBSET Packet]
    <3> DEFINE farewell == [FlushPacket(p, EmptyConstruct) EXCEPT !.close = TRUE]
               new == IF state[p] = "online" THEN {farewell} ELSE {}
    <3>1. farewell \in Packet
      BY EmptySeq DEF FlushPacket, PacketOf, EmptyConstruct, Packet, TypeOK
    <3>2. Transmit(p, net, new)
      BY <1>6 DEF Disconnect
    <3>3. PICK old \in SUBSET net[Other(p)] : net' = [net EXCEPT ![Other(p)] = old \cup new]
      BY <3>2 DEF Transmit
    <3>4. new \subseteq Packet
      BY <3>1
    <3> HIDE DEF new
    <3> QED BY <3>3, <3>4, Sides DEF TypeOK
  <2>2. 0 \in SeqNumbers /\ <<>> \in Seq(Chunk) /\ EmptyConstruct \in C
    BY EmptySeq, Modulus DEF SeqNumbers, EmptyConstruct
  <2> QED BY <1>6, <2>1, <2>2 DEF Disconnect, TypeOK, history
<1>7. ASSUME NEW p \in Peers, NEW pk \in net[p], Receive(p, pk) PROVE TypeOK'
  <2>1. pk \in Packet
    BY DEF TypeOK
  <2>2. CASE Refuse(p, pk)
    BY <2>2 DEF Refuse, TypeOK, conn, history
  <2>3. CASE Feed(p, pk)
    <3> DEFINE cs == IF pk.resend THEN buffer[p] ELSE <<>>
    <3>1. PICK again \in BOOLEAN :
            Output(p, IF again THEN net ELSE [net EXCEPT ![p] = @ \ {pk}], cs, FALSE)
      BY <2>3 DEF Feed
    <3> DEFINE flight == IF again THEN net ELSE [net EXCEPT ![p] = @ \ {pk}]
    <3>2. flight \in [Peers -> SUBSET Packet]
      BY DEF TypeOK
    <3>3. cs \in Seq(Chunk)
      BY EmptySeq DEF TypeOK
    <3>4. construct' \in [Peers -> C] /\ net' \in [Peers -> SUBSET Packet]
      <4> HIDE DEF flight, cs
      <4>1. Output(p, flight, cs, FALSE) /\ FALSE \in BOOLEAN
        BY <3>1 DEF flight
      <4> QED BY <3>2, <3>3, <4>1, OutputEffect
    <3>5. pk.ack \in SeqNumbers /\ pk.chunks \in Seq(Chunk)
      BY <2>1 DEF Packet
    <3>6. AckChunks(buffer[p], pk.ack) \in Seq(Chunk)
      <4>1. buffer[p] \in Seq(Chunk)
        BY DEF TypeOK
      <4> QED BY <3>5, <4>1, AckLeaves
    <3> HIDE DEF cs, C
    <3>7. /\ peerAck' \in [Peers -> SeqNumbers]
          /\ state' \in [Peers -> {"online", "error", "offline"}]
          /\ buffer' \in [Peers -> Seq(Chunk)] /\ unpack' \in [Peers -> Seq(Chunk)]
      BY <2>3, <3>5, <3>6 DEF Feed, TypeOK
    <3>8. UNCHANGED <<seq, ack, sent, delivered, overflow>>
      BY <2>3 DEF Feed, history
    <3> QED BY <3>4, <3>7, <3>8 DEF TypeOK, C
  <2> QED BY <1>7, <2>2, <2>3 DEF Receive
<1>8. ASSUME NEW p \in Peers, FetchChunk(p) PROVE TypeOK'
  <2>1. unpack[p] \in Seq(Chunk) /\ unpack[p] # <<>>
    BY <1>8 DEF FetchChunk, TypeOK
  <2>2. Head(unpack[p]) \in Chunk /\ Tail(unpack[p]) \in Seq(Chunk)
    BY <2>1, HeadTailProperties
  <2>3. Head(unpack[p]).seq \in SeqNumbers /\ Head(unpack[p]).n \in Nat
    BY <2>2 DEF Chunk
  <2>4. unpack' \in [Peers -> Seq(Chunk)]
    BY <1>8, <2>2 DEF FetchChunk, TypeOK
  <2>5. ack' \in [Peers -> SeqNumbers] /\ delivered' \in [Peers -> Nat]
    BY <1>8, <2>3 DEF FetchChunk, TypeOK
  <2>6. construct' \in [Peers -> C]
    <3>1. PICK b : construct' = [construct EXCEPT ![p].resend = b] /\ b \in BOOLEAN
      <4>1. construct[p].resend \in BOOLEAN
        BY DEF TypeOK
      <4> QED BY <1>8, <4>1 DEF FetchChunk
    <3> QED BY <3>1 DEF TypeOK
  <2>7. UNCHANGED <<state, seq, peerAck, buffer, net, sent, overflow>>
    BY <1>8 DEF FetchChunk
  <2> HIDE DEF C
  <2> QED BY <2>4, <2>5, <2>6, <2>7 DEF TypeOK, C
<1> QED BY <1>1, <1>2, <1>3, <1>4, <1>5, <1>6, <1>7, <1>8 DEF Next

\* The connection's state and what is on its way keep their shape, whatever the
\* network does: Recv, Feed, FetchChunk and Update of network_conn.cpp.
THEOREM ConnectionTyped == Spec => []TypeOK
<1>1. TypeOK /\ [Next]_vars => TypeOK'
  BY TypeStep
<1> QED BY TypeInit, <1>1, PTL DEF Spec

--------------------------------------------------------------------------------
(* The inductive invariant, for the vital chunks of p and for what its peer  *)
(* acknowledges of them.                                                     *)

\* The numbers are those of what they stand for, reduced.
NumbersTrue(p) ==
  /\ state[p] = "online" =>
       seq[p] = sent[p] % MaxSequence /\ ack[p] = delivered[p] % MaxSequence
  /\ delivered[Other(p)] <= sent[p]
  /\ \A c \in Around(p) \cup ChunksOf(buffer[p]) :
       c.n \in 1 .. sent[p] /\ c.seq = c.n % MaxSequence
  /\ \A pk \in net[p] : pk.ack = pk.acked % MaxSequence

\* Nothing that is around is a round old.
Recent(p) ==
  /\ sent[p] <= delivered[Other(p)] + BufferEntries
  /\ \A c \in Around(p) : sent[p] + 1 < c.n + MaxSequence
  /\ \A pk \in net[p] :
       pk.acked <= delivered[Other(p)] /\ sent[p] < pk.acked + MaxSequence

\* The buffer holds what was queued after some chunk that has been delivered, in
\* order and without a gap, and m_PeerAck is the number of that chunk.
Confirmed(p) == sent[p] - Len(buffer[p])
Window(p) ==
  /\ Len(buffer[p]) <= BufferEntries
  /\ Confirmed(p) \in 0 .. delivered[Other(p)]
  /\ peerAck[p] = Confirmed(p) % MaxSequence
  /\ \A i \in 1 .. Len(buffer[p]) : buffer[p][i].n = Confirmed(p) + i

Direction(p) ==
  /\ NumbersTrue(p)
  /\ ~overflow[p] => Recent(p) /\ (state[p] = "online" => Window(p))

ConnInv == TypeOK /\ \A p \in Peers : Direction(p)

LEMMA OutputAround ==
  ASSUME TypeOK, NEW r \in Peers, NEW q, q = Other(r),
         NEW cs \in Seq(Chunk), NEW flush \in BOOLEAN,
         NEW flight \in [Peers -> SUBSET Packet],
         Output(r, flight, cs, flush),
         flight[r] \subseteq net[r], flight[q] = net[q],
         unpack'[q] = unpack[q],
         ChunksOf(unpack'[r]) \subseteq
           ChunksOf(unpack[r]) \cup UNION {ChunksOf(pk.chunks) : pk \in net[r]}
  PROVE  /\ Around(r)' \subseteq Around(r) \cup ChunksOf(cs)
         /\ Around(q)' \subseteq Around(q)
         /\ net'[r] \subseteq net[r]
         /\ \A pk \in net'[q] : pk \in net[q] \/ (pk.ack = ack[r] /\ pk.acked = delivered[r])
<1> DEFINE put == ChunksOf(construct[r].chunks) \cup ChunksOf(cs)
<1>1. q \in Peers /\ q # r /\ Other(q) = r
  BY Sides
<1>2. /\ construct'[q] = construct[q]
      /\ ChunksOf(construct'[r].chunks) \subseteq put
      /\ net'[r] = flight[r]
      /\ \A pk \in net'[q] :
           \/ pk \in flight[q]
           \/ (pk.ack = ack[r] /\ pk.acked = delivered[r] /\ ChunksOf(pk.chunks) \subseteq put)
  BY OutputEffect
<1>3. ASSUME NEW c \in Around(r)' PROVE c \in Around(r) \cup ChunksOf(cs)
  <2>1. \/ c \in ChunksOf(construct'[r].chunks)
        \/ c \in ChunksOf(unpack'[q])
        \/ \E pk \in net'[q] : c \in ChunksOf(pk.chunks)
    BY DEF Around
  <2>2. CASE c \in ChunksOf(construct'[r].chunks)
    BY <1>2, <2>2 DEF Around
  <2>3. CASE c \in ChunksOf(unpack'[q])
    BY <2>3 DEF Around
  <2>4. ASSUME NEW pk \in net'[q], c \in ChunksOf(pk.chunks)
        PROVE  c \in Around(r) \cup ChunksOf(cs)
    <3>1. CASE pk \in net[q]
      BY <2>4, <3>1 DEF Around
    <3>2. CASE ChunksOf(pk.chunks) \subseteq put
      BY <2>4, <3>2 DEF Around
    <3> QED BY <1>2, <3>1, <3>2
  <2> QED BY <2>1, <2>2, <2>3, <2>4
<1>4. ASSUME NEW c \in Around(q)' PROVE c \in Around(q)
  <2>1. \/ c \in ChunksOf(construct'[q].chunks)
        \/ c \in ChunksOf(unpack'[r])
        \/ \E pk \in net'[r] : c \in ChunksOf(pk.chunks)
    BY <1>1 DEF Around
  <2>2. CASE c \in ChunksOf(construct'[q].chunks)
    BY <1>2, <2>2 DEF Around
  <2>3. CASE c \in ChunksOf(unpack'[r])
    BY <1>1, <2>3 DEF Around
  <2>4. CASE \E pk \in net'[r] : c \in ChunksOf(pk.chunks)
    BY <1>1, <1>2, <2>4 DEF Around
  <2> QED BY <2>1, <2>2, <2>3, <2>4
<1> QED BY <1>2, <1>3, <1>4

LEMMA WindowStill ==
  ASSUME NEW p \in Peers, Window(p), sent'[p] = sent[p],
         delivered'[Other(p)] = delivered[Other(p)],
         buffer'[p] = buffer[p], peerAck'[p] = peerAck[p]
  PROVE  Window(p)'
BY DEF Window, Confirmed

\* What the buffer holds is less than half a round old.
LEMMA BufferRecent ==
  ASSUME TypeOK, NEW p \in Peers, Window(p), NEW c \in ChunksOf(buffer[p])
  PROVE  c.n \in Nat /\ sent[p] < c.n + BufferEntries
<1>1. sent[p] \in Nat /\ Len(buffer[p]) \in Nat /\ BufferEntries \in Nat
  BY LenProperties, Modulus DEF TypeOK
<1>2. PICK i \in 1 .. Len(buffer[p]) : c = buffer[p][i]
  BY DEF ChunksOf
<1>3. c.n = Confirmed(p) + i /\ Confirmed(p) = sent[p] - Len(buffer[p])
      /\ Len(buffer[p]) <= BufferEntries /\ Confirmed(p) >= 0
  BY <1>2 DEF Window, Confirmed
<1> QED BY <1>1, <1>2, <1>3

\* A step of r that queues and delivers nothing: it may send again what it keeps,
\* forget what it keeps, and tell what it has been handed.
LEMMA SendStep ==
  ASSUME ConnInv, TypeOK', NEW r \in Peers, NEW q, q = Other(r),
         sent' = sent, delivered' = delivered, overflow' = overflow,
         state'[q] = state[q], seq'[q] = seq[q], ack'[q] = ack[q],
         peerAck'[q] = peerAck[q], buffer'[q] = buffer[q],
         state'[r] = "online" => state[r] = "online" /\ seq'[r] = seq[r] /\ ack'[r] = ack[r],
         ChunksOf(buffer'[r]) \subseteq ChunksOf(buffer[r]),
         \A c \in Around(r)' :
           c \in Around(r) \/ (state[r] = "online" /\ c \in ChunksOf(buffer[r])),
         Around(q)' \subseteq Around(q),
         net'[r] \subseteq net[r],
         \A pk \in net'[q] :
           pk \in net[q] \/ (state[r] = "online" /\ pk.ack = ack[r] /\ pk.acked = delivered[r]),
         ~overflow[r] /\ state'[r] = "online" => Window(r)'
  PROVE  ConnInv'
<1>1. q \in Peers /\ q # r /\ Other(q) = r /\ \A p \in Peers : p = r \/ p = q
  BY Sides
<1>2. TypeOK /\ Direction(r) /\ Direction(q)
  BY <1>1 DEF ConnInv
<1>3. NumbersTrue(r) /\ NumbersTrue(q)
  BY <1>2 DEF Direction
<1>4. /\ sent[r] \in Nat /\ sent[q] \in Nat /\ delivered[r] \in Nat /\ delivered[q] \in Nat
      /\ \A pk \in net[r] : pk.acked \in Nat
      /\ \A pk \in net[q] : pk.acked \in Nat
  BY <1>1, <1>2 DEF TypeOK, Packet
<1>5. NumbersTrue(r)'
  <2>1. \A c \in Around(r)' \cup ChunksOf(buffer'[r]) : c \in Around(r) \cup ChunksOf(buffer[r])
    OBVIOUS
  <2> QED BY <1>1, <1>3, <2>1 DEF NumbersTrue
<1>6. NumbersTrue(q)'
  <2>1. \A c \in Around(q)' \cup ChunksOf(buffer'[q]) : c \in Around(q) \cup ChunksOf(buffer[q])
    OBVIOUS
  <2>2. ASSUME NEW pk \in net'[q] PROVE pk.ack = pk.acked % MaxSequence
    BY <1>3, <2>2 DEF NumbersTrue
  <2> QED BY <1>1, <1>3, <2>1, <2>2 DEF NumbersTrue
<1>7. ASSUME ~overflow[r] PROVE Recent(r)'
  <2>1. Recent(r)
    BY <1>2, <1>7 DEF Direction
  <2>2. ASSUME NEW c \in Around(r)' PROVE sent[r] + 1 < c.n + MaxSequence
    <3>1. CASE c \in Around(r)
      BY <2>1, <3>1 DEF Recent
    <3>2. CASE state[r] = "online" /\ c \in ChunksOf(buffer[r])
      <4>1. c.n \in Nat /\ sent[r] < c.n + BufferEntries
        BY <1>2, <1>7, <3>2, BufferRecent DEF Direction
      <4>2. BufferEntries \in Nat /\ MaxSequence \in Nat /\ BufferEntries + 1 <= MaxSequence
        BY Modulus
      <4> HIDE DEF Around
      <4> QED BY <1>4, <4>1, <4>2
    <3> QED BY <3>1, <3>2
  <2> QED BY <1>1, <2>1, <2>2 DEF Recent
<1>8. ASSUME ~overflow[q] PROVE Recent(q)'
  <2>1. Recent(q)
    BY <1>2, <1>8 DEF Direction
  <2>2. ASSUME NEW pk \in net'[q]
        PROVE  pk.acked <= delivered[r] /\ sent[q] < pk.acked + MaxSequence
    <3>1. CASE pk \in net[q]
      BY <1>1, <2>1, <3>1 DEF Recent
    <3>2. CASE pk.acked = delivered[r]
      <4>1. sent[q] <= delivered[r] + BufferEntries
        BY <1>1, <2>1 DEF Recent
      <4> QED BY <1>4, <3>2, <4>1, Modulus
    <3> QED BY <3>1, <3>2
  <2> QED BY <1>1, <2>1, <2>2 DEF Recent
<1>9. ~overflow[q] /\ state'[q] = "online" => Window(q)'
  BY <1>1, <1>2, WindowStill DEF Direction
<1>10. Direction(r)' /\ Direction(q)'
  BY <1>1, <1>5, <1>6, <1>7, <1>8, <1>9 DEF Direction
<1> QED BY <1>1, <1>10 DEF ConnInv

\* A packet that only holds what is around already, or what is kept.
LEMMA OutputStep ==
  ASSUME ConnInv, TypeOK', NEW r \in Peers, state[r] = "online",
         NEW cs \in Seq(Chunk), ChunksOf(cs) \subseteq ChunksOf(buffer[r]),
         NEW flush \in BOOLEAN, Output(r, net, cs, flush),
         UNCHANGED <<state, seq, ack, peerAck, buffer, unpack, history>>
  PROVE  ConnInv'
<1> DEFINE q == Other(r)
<1>1. TypeOK /\ Direction(r)
  BY DEF ConnInv
<1>2. net \in [Peers -> SUBSET Packet]
  BY <1>1 DEF TypeOK
<1>3. /\ Around(r)' \subseteq Around(r) \cup ChunksOf(cs)
      /\ Around(q)' \subseteq Around(q)
      /\ net'[r] \subseteq net[r]
      /\ \A pk \in net'[q] : pk \in net[q] \/ (pk.ack = ack[r] /\ pk.acked = delivered[r])
  BY <1>1, <1>2, OutputAround
<1>4. ~overflow[r] /\ state'[r] = "online" => Window(r)'
  BY <1>1, WindowStill DEF Direction, history
<1>5. /\ sent' = sent /\ delivered' = delivered /\ overflow' = overflow /\ state' = state
      /\ seq' = seq /\ ack' = ack /\ peerAck' = peerAck /\ buffer' = buffer
  BY DEF history
<1>6. \A c \in Around(r)' :
        c \in Around(r) \/ (state[r] = "online" /\ c \in ChunksOf(buffer[r]))
  BY <1>3
<1>7. \A pk \in net'[q] :
        pk \in net[q] \/ (state[r] = "online" /\ pk.ack = ack[r] /\ pk.acked = delivered[r])
  BY <1>3
<1> HIDE DEF q
<1> QED BY <1>3, <1>4, <1>5, <1>6, <1>7, SendStep DEF q

LEMMA FlushStep ==
  ASSUME ConnInv, TypeOK', NEW r \in Peers, Flush(r)
  PROVE  ConnInv'
<1>1. <<>> \in Seq(Chunk) /\ ChunksOf(<<>>) = {} /\ TRUE \in BOOLEAN
  BY EmptySeq DEF ChunksOf
<1> QED BY <1>1, OutputStep DEF Flush

LEMMA ResendStep ==
  ASSUME ConnInv, TypeOK', NEW r \in Peers, Resend(r)
  PROVE  ConnInv'
<1> DEFINE cs == <<Head(buffer[r])>>
<1>1. buffer[r] \in Seq(Chunk) /\ buffer[r] # <<>>
  BY DEF Resend, ConnInv, TypeOK
<1>2. cs \in Seq(Chunk)
  BY <1>1, HeadTailProperties
<1>3. ChunksOf(cs) \subseteq ChunksOf(buffer[r])
  <2>1. 1 \in 1 .. Len(buffer[r]) /\ Head(buffer[r]) = buffer[r][1]
    BY <1>1, EmptySeq, LenProperties
  <2>2. Len(cs) = 1 /\ cs[1] = Head(buffer[r])
    OBVIOUS
  <2> HIDE DEF cs
  <2> QED BY <2>1, <2>2 DEF ChunksOf
<1>4. PICK flush \in BOOLEAN : Output(r, net, cs, flush)
  BY DEF Resend
<1>5. state[r] = "online"
      /\ UNCHANGED <<state, seq, ack, peerAck, buffer, unpack, history>>
  BY DEF Resend
<1> HIDE DEF cs
<1> QED BY <1>2, <1>3, <1>4, <1>5, OutputStep

LEMMA TimeOutStep ==
  ASSUME ConnInv, TypeOK', NEW r \in Peers, TimeOut(r)
  PROVE  ConnInv'
<1> DEFINE q == Other(r)
<1>1. q \in Peers /\ q # r
  BY Sides
<1>2. /\ state'[r] = "error" /\ state'[q] = state[q]
      /\ UNCHANGED <<seq, ack, peerAck, buffer, construct, unpack, net, sent, delivered, overflow>>
  BY <1>1 DEF TimeOut, history, ConnInv, TypeOK
<1>3. Around(r)' = Around(r) /\ Around(q)' = Around(q)
  BY <1>2 DEF Around
<1> HIDE DEF q
<1> QED BY <1>2, <1>3, SendStep DEF q

LEMMA DisconnectStep ==
  ASSUME ConnInv, TypeOK', NEW r \in Peers, Disconnect(r)
  PROVE  ConnInv'
<1> DEFINE q == Other(r)
           farewell == [FlushPacket(r, EmptyConstruct) EXCEPT !.close = TRUE]
           new == IF state[r] = "online" THEN {farewell} ELSE {}
<1>1. q \in Peers /\ q # r /\ Other(q) = r
  BY Sides
<1>2. TypeOK
  BY DEF ConnInv
<1>3. PICK old \in SUBSET net[q] : net' = [net EXCEPT ![q] = old \cup new]
  <2>1. Transmit(r, net, new)
    BY DEF Disconnect
  <2> HIDE DEF new
  <2> QED BY <2>1 DEF Transmit
<1>4. /\ farewell.ack = ack[r] /\ farewell.acked = delivered[r]
      /\ farewell.chunks = <<>>
  BY DEF FlushPacket, PacketOf, EmptyConstruct
<1> HIDE DEF farewell
<1>5. net'[r] = net[r] /\ net'[q] = old \cup new
  BY <1>1, <1>2, <1>3 DEF TypeOK
<1>6. \A pk \in net'[q] :
        \/ pk \in net[q]
        \/ state[r] = "online" /\ pk.ack = ack[r] /\ pk.acked = delivered[r]
           /\ pk.chunks = <<>>
  BY <1>4, <1>5
<1>7. /\ state'[r] = "offline" /\ state'[q] = state[q]
      /\ seq'[q] = seq[q] /\ ack'[q] = ack[q] /\ peerAck'[q] = peerAck[q]
      /\ buffer'[r] = <<>> /\ buffer'[q] = buffer[q]
      /\ construct'[r] = EmptyConstruct /\ construct'[q] = construct[q]
      /\ unpack' = unpack /\ sent' = sent /\ delivered' = delivered /\ overflow' = overflow
  BY <1>1, <1>2 DEF Disconnect, history, TypeOK
<1>8. ChunksOf(<<>>) = {} /\ EmptyConstruct.chunks = <<>>
  BY DEF ChunksOf, EmptyConstruct
<1>9. Around(r)' \subseteq Around(r)
  <2>1. ASSUME NEW c \in Around(r)' PROVE c \in Around(r)
    <3>1. \/ c \in ChunksOf(construct'[r].chunks)
          \/ c \in ChunksOf(unpack'[q])
          \/ \E pk \in net'[q] : c \in ChunksOf(pk.chunks)
      BY DEF Around
    <3> QED BY <1>6, <1>7, <1>8, <3>1 DEF Around
  <2> QED BY <2>1
<1>10. Around(q)' = Around(q)
  BY <1>1, <1>5, <1>7 DEF Around
<1>11. \A pk \in net'[q] :
         pk \in net[q] \/ (state[r] = "online" /\ pk.ack = ack[r] /\ pk.acked = delivered[r])
  BY <1>6
<1>12. ChunksOf(buffer'[r]) \subseteq ChunksOf(buffer[r]) /\ net'[r] \subseteq net[r]
  BY <1>5, <1>7, <1>8
<1>13. \A c \in Around(r)' :
         c \in Around(r) \/ (state[r] = "online" /\ c \in ChunksOf(buffer[r]))
  BY <1>9
<1> HIDE DEF q, new
<1> QED BY <1>7, <1>10, <1>11, <1>12, <1>13, SendStep DEF q

LEMMA RefuseStep ==
  ASSUME ConnInv, TypeOK', NEW r \in Peers, NEW pk \in net[r], Refuse(r, pk)
  PROVE  ConnInv'
<1> DEFINE q == Other(r)
<1>1. q \in Peers /\ q # r /\ Other(q) = r
  BY Sides
<1>2. TypeOK /\ Direction(r)
  BY DEF ConnInv
<1>3. /\ net'[r] \subseteq net[r] /\ net'[q] = net[q]
      /\ UNCHANGED <<state, seq, ack, peerAck, buffer, construct, unpack,
                     sent, delivered, overflow>>
  BY <1>1, <1>2 DEF Refuse, conn, history, TypeOK
<1>4. Around(r)' = Around(r) /\ Around(q)' \subseteq Around(q)
  BY <1>1, <1>3 DEF Around
<1>5. ~overflow[r] /\ state'[r] = "online" => Window(r)'
  BY <1>2, <1>3, WindowStill DEF Direction
<1> HIDE DEF q
<1> QED BY <1>3, <1>4, <1>5, SendStep DEF q

\* Feed moves the window to what has been acknowledged.
LEMMA FeedWindow ==
  ASSUME ConnInv, NEW r \in Peers, NEW pk \in net[r], Feed(r, pk),
         state[r] = "online", ~overflow[r], ~pk.close
  PROVE  Window(r)'
<1> DEFINE q == Other(r)
           a == pk.acked
           b == buffer[r]
           base == Confirmed(r)
<1>1. q \in Peers /\ q # r /\ Other(q) = r
  BY Sides
<1>2. TypeOK /\ NumbersTrue(r) /\ Recent(r) /\ Window(r)
  BY DEF ConnInv, Direction
<1>3. /\ sent[r] \in Nat /\ delivered[q] \in Nat /\ a \in Nat /\ b \in Seq(Chunk)
      /\ Len(b) \in Nat
  BY <1>1, <1>2, LenProperties DEF TypeOK, Packet
<1>4. /\ pk.ack = a % MaxSequence /\ seq[r] = sent[r] % MaxSequence
      /\ delivered[q] <= sent[r] /\ a <= delivered[q] /\ sent[r] < a + MaxSequence
  BY <1>2 DEF NumbersTrue, Recent
<1>5. /\ Len(b) <= BufferEntries /\ base \in 0 .. delivered[q]
      /\ peerAck[r] = base % MaxSequence /\ base = sent[r] - Len(b)
      /\ \A i \in 1 .. Len(b) : b[i].n = base + i
  BY <1>2 DEF Window, Confirmed
<1>6. \A i \in 1 .. Len(b) : b[i].seq = (base + i) % MaxSequence
  <2>1. ASSUME NEW i \in 1 .. Len(b) PROVE b[i].seq = (base + i) % MaxSequence
    <3>1. b[i] \in ChunksOf(b)
      BY DEF ChunksOf
    <3>2. b[i].seq = b[i].n % MaxSequence
      BY <1>2, <3>1 DEF NumbersTrue
    <3> QED BY <1>5, <3>2
  <2> QED BY <2>1
<1> HIDE DEF a, b, base
<1>7. base \in Nat /\ BufferEntries \in Nat /\ MaxSequence \in Nat /\ BufferEntries < MaxSequence
  BY <1>3, <1>5, Modulus
<1>8. base <= a
  <2>1. IsValidAck(r, a % MaxSequence)
    BY <1>4 DEF Feed
  <2>2. base <= sent[r] /\ sent[r] - base < MaxSequence
    BY <1>3, <1>4, <1>5, <1>7
  <2>3. a <= sent[r] /\ sent[r] - a < MaxSequence
    BY <1>1, <1>3, <1>4, <1>7
  <2> QED BY <1>3, <1>4, <1>5, <1>7, <2>1, <2>2, <2>3, AckWindow
<1>9. base + Len(b) = sent[r] /\ a <= base + Len(b)
  <2>1. base = sent[r] - Len(b)
    BY <1>5
  <2>2. base + Len(b) = sent[r]
    BY <1>3, <1>7, <2>1
  <2>3. a <= sent[r]
    BY <1>1, <1>3, <1>4
  <2> QED BY <2>2, <2>3
<1> DEFINE new == AckChunks(b, a % MaxSequence)
<1>10. /\ Len(new) = (base + Len(b)) - a
       /\ \A i \in 1 .. Len(new) : new[i].n = a + i
  <2>1. a <= base + Len(b)
    BY <1>9
  <2>2. \A i \in 1 .. Len(b) : b[i].n = base + i /\ b[i].seq = (base + i) % MaxSequence
    BY <1>5, <1>6
  <2>3. Len(b) <= BufferEntries
    BY <1>5
  <2> HIDE DEF new
  <2> QED BY <1>3, <1>7, <1>8, <2>1, <2>2, <2>3, AckExact DEF new
<1>11. /\ buffer'[r] = new /\ peerAck'[r] = a % MaxSequence
       /\ sent' = sent /\ delivered' = delivered
  BY <1>2, <1>4 DEF Feed, TypeOK, history, a, b
<1> HIDE DEF new
<1>12. Confirmed(r)' = a /\ Len(new) <= BufferEntries
  <2>1. Confirmed(r)' = sent[r] - Len(new)
    BY <1>11 DEF Confirmed
  <2>2. Len(new) = sent[r] - a
    BY <1>9, <1>10
  <2>3. Len(b) <= BufferEntries
    BY <1>5
  <2>4. sent[r] - (sent[r] - a) = a
    BY <1>3
  <2>5. sent[r] - a <= BufferEntries
    BY <1>3, <1>7, <1>8, <1>9, <2>3
  <2> QED BY <2>1, <2>2, <2>4, <2>5
<1>13. a \in 0 .. delivered[q]
  BY <1>1, <1>3, <1>4
<1> QED BY <1>10, <1>11, <1>12, <1>13 DEF Window

LEMMA FeedStep ==
  ASSUME ConnInv, TypeOK', NEW r \in Peers, NEW pk \in net[r],
         state[r] = "online", unpack[r] = <<>>, Feed(r, pk)
  PROVE  ConnInv'
<1> DEFINE q == Other(r)
           cs == IF pk.resend THEN buffer[r] ELSE <<>>
<1>1. q \in Peers /\ q # r /\ Other(q) = r
  BY Sides
<1>2. TypeOK /\ pk \in Packet /\ buffer[r] \in Seq(Chunk)
  BY DEF ConnInv, TypeOK
<1>3. pk.ack \in SeqNumbers
  BY <1>2 DEF Packet
<1>4. PICK again \in BOOLEAN :
        Output(r, IF again THEN net ELSE [net EXCEPT ![r] = @ \ {pk}], cs, FALSE)
  BY DEF Feed
<1> DEFINE flight == IF again THEN net ELSE [net EXCEPT ![r] = @ \ {pk}]
<1>5. /\ flight \in [Peers -> SUBSET Packet]
      /\ flight[r] \subseteq net[r] /\ flight[q] = net[q]
  BY <1>1, <1>2 DEF TypeOK
<1>6. cs \in Seq(Chunk) /\ ChunksOf(cs) \subseteq ChunksOf(buffer[r])
  <2>1. <<>> \in Seq(Chunk) /\ ChunksOf(<<>>) = {}
    BY EmptySeq DEF ChunksOf
  <2> QED BY <1>2, <2>1
<1>7. /\ unpack'[q] = unpack[q]
      /\ ChunksOf(unpack'[r]) \subseteq
           ChunksOf(unpack[r]) \cup UNION {ChunksOf(k.chunks) : k \in net[r]}
  <2>1. unpack'[q] = unpack[q] /\ (unpack'[r] = unpack[r] \/ unpack'[r] = pk.chunks)
    BY <1>1, <1>2 DEF Feed, TypeOK
  <2> QED BY <2>1
<1>8. Output(r, flight, cs, FALSE) /\ FALSE \in BOOLEAN
  BY <1>4
<1> HIDE DEF flight, cs
<1>9. /\ Around(r)' \subseteq Around(r) \cup ChunksOf(cs)
      /\ Around(q)' \subseteq Around(q)
      /\ net'[r] \subseteq net[r]
      /\ \A k \in net'[q] : k \in net[q] \/ (k.ack = ack[r] /\ k.acked = delivered[r])
  BY <1>2, <1>5, <1>6, <1>7, <1>8, OutputAround
<1>10. ChunksOf(buffer'[r]) \subseteq ChunksOf(buffer[r])
  <2>1. buffer'[r] = buffer[r] \/ buffer'[r] = AckChunks(buffer[r], pk.ack)
    BY <1>2 DEF Feed, TypeOK
  <2>2. CASE buffer'[r] = AckChunks(buffer[r], pk.ack)
    <3> DEFINE b == buffer[r]
               new == AckChunks(b, pk.ack)
               k == AckedEntries(b, pk.ack)
    <3>1. /\ k \in 0 .. Len(b) /\ Len(new) = Len(b) - k
          /\ \A i \in 1 .. Len(b) - k : new[i] = b[i + k]
      BY <1>2, <1>3, AckLeaves
    <3>2. Len(b) \in Nat
      BY <1>2, LenProperties
    <3> HIDE DEF new, k
    <3>3. ASSUME NEW i \in 1 .. Len(new) PROVE new[i] \in ChunksOf(b)
      <4>1. i \in 1 .. Len(b) - k /\ i + k \in 1 .. Len(b)
        BY <3>1, <3>2
      <4>2. new[i] = b[i + k]
        BY <3>1, <4>1
      <4> QED BY <4>1, <4>2 DEF ChunksOf
    <3> QED BY <2>2, <3>3 DEF ChunksOf, new
  <2> QED BY <2>1, <2>2
<1>11. ~overflow[r] /\ state'[r] = "online" => Window(r)'
  <2>1. pk.close => state'[r] = "error"
    BY <1>2 DEF Feed, TypeOK
  <2> QED BY <2>1, FeedWindow
<1>12. /\ sent' = sent /\ delivered' = delivered /\ overflow' = overflow
       /\ state'[q] = state[q] /\ seq' = seq /\ ack' = ack
       /\ peerAck'[q] = peerAck[q] /\ buffer'[q] = buffer[q]
  BY <1>1, <1>2 DEF Feed, history, TypeOK
<1>13. \A c \in Around(r)' :
         c \in Around(r) \/ (state[r] = "online" /\ c \in ChunksOf(buffer[r]))
  BY <1>6, <1>9
<1>14. \A k \in net'[q] :
         k \in net[q] \/ (state[r] = "online" /\ k.ack = ack[r] /\ k.acked = delivered[r])
  BY <1>9
<1> HIDE DEF q
<1> QED BY <1>9, <1>10, <1>11, <1>12, <1>13, <1>14, SendStep DEF q

LEMMA QueueStep ==
  ASSUME ConnInv, TypeOK', NEW r \in Peers, QueueChunk(r)
  PROVE  ConnInv'
<1> DEFINE q == Other(r)
           c == [seq |-> NextSequence(seq[r]), n |-> sent[r] + 1]
           cs == <<c>>
<1>1. q \in Peers /\ q # r /\ Other(q) = r /\ \A p \in Peers : p = r \/ p = q
  BY Sides
<1>2. TypeOK /\ Direction(r) /\ Direction(q) /\ NumbersTrue(r) /\ NumbersTrue(q)
  BY <1>1 DEF ConnInv, Direction
<1>3. /\ sent[r] \in Nat /\ sent[q] \in Nat /\ delivered[r] \in Nat /\ delivered[q] \in Nat
      /\ buffer[r] \in Seq(Chunk) /\ Len(buffer[r]) \in Nat
      /\ \A pk \in net[q] : pk.acked \in Nat
      /\ MaxSequence \in Nat /\ BufferEntries \in Nat /\ BufferEntries < MaxSequence
      /\ MaxSequence > 1
  <2>1. /\ sent[r] \in Nat /\ sent[q] \in Nat /\ delivered[r] \in Nat /\ delivered[q] \in Nat
        /\ buffer[r] \in Seq(Chunk)
    BY <1>1, <1>2 DEF TypeOK
  <2>2. \A pk \in net[q] : pk.acked \in Nat
    BY <1>1, <1>2 DEF TypeOK, Packet
  <2>3. /\ MaxSequence \in Nat /\ BufferEntries \in Nat /\ BufferEntries < MaxSequence
        /\ MaxSequence > 1
    BY Modulus
  <2> QED BY <2>1, <2>2, <2>3, LenProperties
<1>4. /\ state[r] = "online" /\ PacketsDieOut(r)
      /\ sent' = [sent EXCEPT ![r] = @ + 1]
      /\ seq' = [seq EXCEPT ![r] = NextSequence(seq[r])]
      /\ UNCHANGED <<state, ack, peerAck, unpack, delivered>>
  BY DEF QueueChunk
<1>5. NextSequence(seq[r]) = (sent[r] + 1) % MaxSequence
  BY <1>2, <1>3, <1>4, NextNumber DEF NumbersTrue
<1>6. c.seq = (sent[r] + 1) % MaxSequence /\ c.n = sent[r] + 1
  BY <1>5
<1>7. c \in Chunk /\ cs \in Seq(Chunk) /\ ChunksOf(cs) = {c}
  <2>1. (sent[r] + 1) % MaxSequence \in SeqNumbers
    <3>1. sent[r] + 1 \in Nat
      BY <1>3
    <3> QED BY <3>1, Division
  <2>2. c \in Chunk
    BY <1>3, <1>5, <2>1 DEF Chunk
  <2>3. Len(cs) = 1 /\ cs[1] = c
    OBVIOUS
  <2> HIDE DEF c
  <2>4. cs \in Seq(Chunk)
    BY <2>2
  <2> HIDE DEF cs
  <2> QED BY <2>2, <2>3, <2>4 DEF ChunksOf
<1>8. /\ Around(r)' \subseteq Around(r) \cup {c}
      /\ Around(q)' \subseteq Around(q)
      /\ net'[r] \subseteq net[r]
      /\ \A pk \in net'[q] : pk \in net[q] \/ (pk.ack = ack[r] /\ pk.acked = delivered[r])
  <2>1. PICK flush \in BOOLEAN : Output(r, net, cs, flush)
    BY DEF QueueChunk
  <2>2. net \in [Peers -> SUBSET Packet] /\ unpack' = unpack
    BY <1>2, <1>4 DEF TypeOK
  <2> HIDE DEF cs, q
  <2> QED BY <1>2, <1>7, <2>1, <2>2, OutputAround DEF q
<1>9. \/ /\ Len(buffer[r]) < BufferEntries
         /\ buffer' = [buffer EXCEPT ![r] = Append(@, c)]
         /\ overflow' = overflow
      \/ /\ buffer' = buffer
         /\ overflow' = [overflow EXCEPT ![r] = TRUE]
  BY DEF QueueChunk
<1> HIDE DEF c, cs
<1>10. /\ sent'[r] = sent[r] + 1 /\ sent'[q] = sent[q]
       /\ seq'[r] = (sent[r] + 1) % MaxSequence /\ seq'[q] = seq[q]
       /\ buffer'[q] = buffer[q] /\ overflow'[q] = overflow[q]
       /\ buffer'[r] = buffer[r] \/ buffer'[r] = Append(buffer[r], c)
  BY <1>1, <1>2, <1>4, <1>5, <1>9 DEF TypeOK
<1>11. /\ Append(buffer[r], c) \in Seq(Chunk)
       /\ Len(Append(buffer[r], c)) = Len(buffer[r]) + 1
       /\ \A i \in 1 .. Len(buffer[r]) : Append(buffer[r], c)[i] = buffer[r][i]
       /\ Append(buffer[r], c)[Len(buffer[r]) + 1] = c
  BY <1>3, <1>7, AppendProperties
<1>12. ChunksOf(buffer'[r]) \subseteq ChunksOf(buffer[r]) \cup {c}
  <2> DEFINE b == buffer[r]
             d == Append(buffer[r], c)
  <2>1. ASSUME NEW i \in 1 .. Len(d) PROVE d[i] \in ChunksOf(b) \cup {c}
    <3>1. i \in 1 .. Len(b) \/ i = Len(b) + 1
      BY <1>3, <1>11
    <3> QED BY <1>11, <3>1 DEF ChunksOf
  <2> HIDE DEF b, d
  <2>2. ChunksOf(d) \subseteq ChunksOf(b) \cup {c}
    BY <2>1 DEF ChunksOf
  <2> QED BY <1>10, <2>2 DEF b, d
<1>13. NumbersTrue(r)'
  <2>1. ASSUME NEW d \in Around(r)' \cup ChunksOf(buffer'[r])
        PROVE  d.n \in 1 .. sent[r] + 1 /\ d.seq = d.n % MaxSequence
    <3>1. d \in Around(r) \cup ChunksOf(buffer[r]) \/ d = c
      BY <1>8, <1>12
    <3>2. CASE d \in Around(r) \cup ChunksOf(buffer[r])
      <4>1. d.n \in 1 .. sent[r] /\ d.seq = d.n % MaxSequence
        BY <1>2, <3>2 DEF NumbersTrue
      <4> QED BY <1>3, <4>1
    <3>3. CASE d = c
      BY <1>3, <1>6, <3>3
    <3> QED BY <3>1, <3>2, <3>3
  <2>2. delivered[q] <= sent[r] + 1
    BY <1>2, <1>3 DEF NumbersTrue
  <2>3. ack'[r] = delivered'[r] % MaxSequence
    BY <1>2, <1>4 DEF NumbersTrue
  <2>4. \A pk \in net'[r] : pk.ack = pk.acked % MaxSequence
    BY <1>2, <1>8 DEF NumbersTrue
  <2> QED BY <1>4, <1>10, <2>1, <2>2, <2>3, <2>4 DEF NumbersTrue
<1>14. NumbersTrue(q)'
  <2>1. \A pk \in net'[q] : pk.ack = pk.acked % MaxSequence
    BY <1>2, <1>4, <1>8 DEF NumbersTrue
  <2>2. \A d \in Around(q)' \cup ChunksOf(buffer'[q]) : d \in Around(q) \cup ChunksOf(buffer[q])
    BY <1>8, <1>10
  <2> QED BY <1>1, <1>2, <1>4, <1>10, <2>1, <2>2 DEF NumbersTrue
<1>15. ASSUME ~overflow'[r] PROVE Recent(r)' /\ Window(r)'
  <2>1. /\ Len(buffer[r]) < BufferEntries /\ ~overflow[r]
        /\ buffer'[r] = Append(buffer[r], c)
    BY <1>2, <1>9, <1>15 DEF TypeOK
  <2>2. Recent(r) /\ Window(r)
    BY <1>2, <1>4, <2>1 DEF Direction
  <2>3. Confirmed(r) \in 0 .. delivered[q] /\ Confirmed(r) = sent[r] - Len(buffer[r])
        /\ peerAck[r] = Confirmed(r) % MaxSequence
    BY <2>2 DEF Window, Confirmed
  <2>4. Confirmed(r)' = Confirmed(r)
    <3>1. Confirmed(r)' = (sent[r] + 1) - (Len(buffer[r]) + 1)
      BY <1>10, <1>11, <2>1 DEF Confirmed
    <3>2. (sent[r] + 1) - (Len(buffer[r]) + 1) = sent[r] - Len(buffer[r])
      <4> DEFINE x == sent[r]
                 y == Len(buffer[r])
      <4>1. x \in Int /\ y \in Int
        BY <1>3
      <4> HIDE DEF x, y
      <4>2. (x + 1) - (y + 1) = x - y
        BY <4>1
      <4> QED BY <4>2 DEF x, y
    <3> QED BY <2>3, <3>1, <3>2
  <2>5. ASSUME NEW i \in 1 .. Len(buffer[r]) + 1
        PROVE  Append(buffer[r], c)[i].n = Confirmed(r) + i
    <3>1. CASE i \in 1 .. Len(buffer[r])
      BY <1>11, <2>2, <3>1 DEF Window
    <3>2. CASE i = Len(buffer[r]) + 1
      <4>1. Append(buffer[r], c)[i].n = sent[r] + 1
        BY <1>6, <1>11, <3>2
      <4>2. (sent[r] - Len(buffer[r])) + (Len(buffer[r]) + 1) = sent[r] + 1
        BY <1>3
      <4> QED BY <2>3, <3>2, <4>1, <4>2
    <3> QED BY <1>3, <3>1, <3>2
  <2>6. Len(buffer[r]) + 1 <= BufferEntries
    BY <1>3, <2>1
  <2>7. Window(r)'
    BY <1>4, <1>11, <2>1, <2>3, <2>4, <2>5, <2>6 DEF Window
  <2>8. sent[r] + 1 <= delivered[q] + BufferEntries
    BY <1>3, <2>1, <2>3
  <2>9. ASSUME NEW d \in Around(r)' PROVE (sent[r] + 1) + 1 < d.n + MaxSequence
    <3>1. CASE d \in Around(r)
      <4>1. sent[r] + 2 < d.n + MaxSequence
        BY <1>4, <3>1 DEF PacketsDieOut
      <4>2. (sent[r] + 1) + 1 = sent[r] + 2
        BY <1>3
      <4> QED BY <4>1, <4>2
    <3>2. CASE d = c
      BY <1>3, <1>6, <3>2
    <3> QED BY <1>8, <3>1, <3>2
  <2>10. \A pk \in net'[r] :
           pk.acked <= delivered[q] /\ sent[r] + 1 < pk.acked + MaxSequence
    BY <1>4, <1>8, <2>2 DEF Recent, PacketsDieOut
  <2> QED BY <1>4, <1>10, <2>7, <2>8, <2>9, <2>10 DEF Recent
<1>16. ASSUME ~overflow'[q] PROVE Recent(q)'
  <2>1. Recent(q)
    BY <1>2, <1>10, <1>16 DEF Direction
  <2>2. sent[q] <= delivered[r] + BufferEntries
    BY <1>1, <2>1 DEF Recent
  <2>3. ASSUME NEW pk \in net'[q]
        PROVE  pk.acked <= delivered[r] /\ sent[q] < pk.acked + MaxSequence
    <3>1. CASE pk \in net[q]
      BY <1>1, <2>1, <3>1 DEF Recent
    <3>2. CASE pk.acked = delivered[r]
      BY <1>3, <2>2, <3>2
    <3> QED BY <1>8, <3>1, <3>2
  <2>4. \A d \in Around(q)' : sent[q] + 1 < d.n + MaxSequence
    BY <1>8, <2>1 DEF Recent
  <2> QED BY <1>1, <1>4, <1>10, <2>2, <2>3, <2>4 DEF Recent
<1>17. ~overflow'[q] /\ state'[q] = "online" => Window(q)'
  BY <1>1, <1>2, <1>4, <1>10, WindowStill DEF Direction
<1>18. Direction(r)' /\ Direction(q)'
  BY <1>13, <1>14, <1>15, <1>16, <1>17 DEF Direction
<1> QED BY <1>1, <1>18 DEF ConnInv

\* FetchChunk hands out the chunk that follows the last one.
LEMMA NextExact ==
  ASSUME ConnInv, NEW r \in Peers, NEW q, q = Other(r), NEW c \in ChunksOf(unpack[r]),
         state[r] = "online", InSequence(c.seq, ack[r])
  PROVE  /\ c.n \in 1 .. sent[q] /\ c.seq = c.n % MaxSequence
         /\ ~overflow[q] => c.n = delivered[r] + 1
<1>1. q \in Peers /\ Other(q) = r
  BY Sides
<1>2. TypeOK /\ NumbersTrue(r) /\ NumbersTrue(q) /\ Direction(q)
  BY <1>1 DEF ConnInv, Direction
<1>3. sent[q] \in Nat /\ delivered[r] \in Nat
  BY <1>1, <1>2 DEF TypeOK
<1>4. c \in Around(q)
  BY <1>1 DEF Around
<1>5. c.n \in 1 .. sent[q] /\ c.seq = c.n % MaxSequence
  BY <1>2, <1>4 DEF NumbersTrue
<1>6. c.n % MaxSequence = (delivered[r] + 1) % MaxSequence
  <2>1. ack[r] = delivered[r] % MaxSequence
    BY <1>2 DEF NumbersTrue
  <2> QED BY <1>3, <1>5, <2>1, NextNumber DEF InSequence
<1>7. ASSUME ~overflow[q] PROVE c.n = delivered[r] + 1
  <2>1. Recent(q) /\ delivered[r] <= sent[q]
    BY <1>1, <1>2, <1>7 DEF Direction, NumbersTrue
  <2>2. sent[q] <= delivered[r] + BufferEntries /\ sent[q] + 1 < c.n + MaxSequence
    BY <1>1, <1>4, <2>1 DEF Recent
  <2>3. /\ c.n \in Nat /\ delivered[r] + 1 \in Nat
        /\ c.n - (delivered[r] + 1) < MaxSequence
        /\ (delivered[r] + 1) - c.n < MaxSequence
    BY <1>3, <1>5, <2>1, <2>2, Modulus
  <2> QED BY <1>6, <2>3, SameNumber
<1> QED BY <1>5, <1>7

LEMMA FetchStep ==
  ASSUME ConnInv, TypeOK', NEW r \in Peers, FetchChunk(r)
  PROVE  ConnInv'
<1> DEFINE q == Other(r)
           c == Head(unpack[r])
           handed == state[r] = "online" /\ InSequence(c.seq, ack[r])
<1>1. q \in Peers /\ q # r /\ Other(q) = r /\ \A p \in Peers : p = r \/ p = q
  BY Sides
<1>2. TypeOK /\ Direction(r) /\ Direction(q) /\ NumbersTrue(r) /\ NumbersTrue(q)
  BY <1>1 DEF ConnInv, Direction
<1>3. unpack[r] \in Seq(Chunk) /\ unpack[r] # <<>> /\ Len(unpack[r]) \in Nat
  BY <1>2, LenProperties DEF FetchChunk, TypeOK
<1>4. /\ UNCHANGED <<state, seq, peerAck, buffer, net, sent, overflow>>
      /\ ack'[q] = ack[q] /\ delivered'[q] = delivered[q]
      /\ construct'[r].chunks = construct[r].chunks /\ construct'[q] = construct[q]
      /\ unpack'[r] = Tail(unpack[r]) /\ unpack'[q] = unpack[q]
      /\ ack'[r] = (IF handed THEN c.seq ELSE ack[r])
      /\ delivered'[r] = (IF handed THEN c.n ELSE delivered[r])
  BY <1>1, <1>2 DEF FetchChunk, TypeOK
<1>5. c \in ChunksOf(unpack[r]) /\ ChunksOf(Tail(unpack[r])) \subseteq ChunksOf(unpack[r])
  <2>1. 1 \in 1 .. Len(unpack[r]) /\ c = unpack[r][1]
    BY <1>3, EmptySeq
  <2>2. /\ Len(Tail(unpack[r])) = Len(unpack[r]) - 1
        /\ \A i \in 1 .. Len(Tail(unpack[r])) : Tail(unpack[r])[i] = unpack[r][i + 1]
    BY <1>3, HeadTailProperties
  <2>3. \A i \in 1 .. Len(Tail(unpack[r])) : i + 1 \in 1 .. Len(unpack[r])
    BY <1>3, <2>2
  <2> QED BY <2>1, <2>2, <2>3 DEF ChunksOf
<1> HIDE DEF c
<1>6. Around(r)' = Around(r) /\ Around(q)' \subseteq Around(q)
  BY <1>1, <1>4, <1>5 DEF Around
<1>7. handed => /\ c.n \in 1 .. sent[q] /\ c.seq = c.n % MaxSequence
                /\ ~overflow[q] => c.n = delivered[r] + 1
  BY <1>5, NextExact
<1>8. sent[q] \in Nat /\ delivered[r] \in Nat /\ sent[r] \in Nat /\ delivered[q] \in Nat
      /\ (\A pk \in net[q] : pk.acked \in Nat) /\ BufferEntries \in Nat
  BY <1>1, <1>2, Modulus DEF TypeOK, Packet
<1> HIDE DEF handed
<1>9. NumbersTrue(r)'
  <2>1. state[r] = "online" => ack'[r] = delivered'[r] % MaxSequence
    BY <1>2, <1>4, <1>7 DEF NumbersTrue
  <2>2. delivered'[q] <= sent'[r]
    BY <1>2, <1>4 DEF NumbersTrue
  <2> QED BY <1>2, <1>4, <1>6, <2>1, <2>2 DEF NumbersTrue
<1>10. NumbersTrue(q)'
  <2>1. delivered'[r] <= sent[q]
    BY <1>1, <1>2, <1>4, <1>7, <1>8 DEF NumbersTrue
  <2>2. \A d \in Around(q)' \cup ChunksOf(buffer[q]) : d \in Around(q) \cup ChunksOf(buffer[q])
    BY <1>6
  <2> QED BY <1>1, <1>2, <1>4, <2>1, <2>2 DEF NumbersTrue
<1>11. ~overflow[r] => Recent(r)'
  BY <1>2, <1>4, <1>6 DEF Direction, Recent
<1>12. ~overflow[r] /\ state[r] = "online" => Window(r)'
  BY <1>2, <1>4, WindowStill DEF Direction
<1>13. ~overflow[q] => delivered'[r] = delivered[r] \/ delivered'[r] = delivered[r] + 1
  BY <1>4, <1>7
<1>14. ASSUME ~overflow[q] PROVE Recent(q)'
  <2>1. Recent(q)
    BY <1>2, <1>14 DEF Direction
  <2>2. sent[q] <= delivered[r] + BufferEntries
    BY <1>1, <2>1 DEF Recent
  <2>3. sent[q] <= delivered'[r] + BufferEntries
    BY <1>8, <1>13, <1>14, <2>2
  <2>4. ASSUME NEW pk \in net[q]
        PROVE  pk.acked <= delivered'[r] /\ sent[q] < pk.acked + MaxSequence
    <3>1. pk.acked <= delivered[r] /\ sent[q] < pk.acked + MaxSequence
      BY <1>1, <2>1 DEF Recent
    <3> QED BY <1>8, <1>13, <1>14, <3>1
  <2>5. \A d \in Around(q)' : sent[q] + 1 < d.n + MaxSequence
    BY <1>6, <2>1 DEF Recent
  <2> QED BY <1>1, <1>4, <2>3, <2>4, <2>5 DEF Recent
<1>15. ASSUME ~overflow[q], state[q] = "online" PROVE Window(q)'
  <2>1. Window(q)
    BY <1>2, <1>15 DEF Direction
  <2>2. Confirmed(q) \in 0 .. delivered[r]
    BY <1>1, <2>1 DEF Window
  <2>3. Confirmed(q) \in 0 .. delivered'[r]
    BY <1>8, <1>13, <1>15, <2>2
  <2>4. Confirmed(q)' = Confirmed(q)
    BY <1>4 DEF Confirmed
  <2> QED BY <1>1, <1>4, <2>1, <2>3, <2>4 DEF Window
<1>16. Direction(r)' /\ Direction(q)'
  BY <1>4, <1>9, <1>10, <1>11, <1>12, <1>14, <1>15 DEF Direction
<1> QED BY <1>1, <1>16 DEF ConnInv

LEMMA ConnInvInit == Init => ConnInv
<1> SUFFICES ASSUME Init PROVE ConnInv
  OBVIOUS
<1>1. TypeOK
  BY TypeInit
<1>2. ASSUME NEW p \in Peers PROVE Direction(p)
  <2> DEFINE q == Other(p)
  <2>1. q \in Peers /\ q # p /\ Other(q) = p
    BY Sides
  <2>2. /\ Around(p) = {} /\ ChunksOf(buffer[p]) = {} /\ net[p] = {}
        /\ Len(buffer[p]) = 0
    <3>1. Len(<<>>) = 0 /\ ChunksOf(<<>>) = {}
      BY EmptySeq DEF ChunksOf
    <3>2. construct[p].chunks = <<>> /\ unpack[q] = <<>> /\ net[q] = {} /\ buffer[p] = <<>>
      BY <2>1 DEF Init, EmptyConstruct
    <3> QED BY <3>1, <3>2 DEF Around, Init
  <2>3. /\ sent[p] \in Nat /\ delivered[q] = sent[p] /\ BufferEntries \in Nat
        /\ seq[p] = sent[p] % MaxSequence /\ ack[p] = delivered[p] % MaxSequence
        /\ peerAck[p] = sent[p] % MaxSequence
    BY <1>1, <2>1, Modulus DEF Init, TypeOK
  <2>4. NumbersTrue(p) /\ Recent(p)
    BY <2>2, <2>3 DEF NumbersTrue, Recent
  <2>5. Window(p)
    <3>1. Confirmed(p) = sent[p] /\ sent[p] \in 0 .. delivered[q]
      BY <2>2, <2>3 DEF Confirmed
    <3> QED BY <2>2, <2>3, <3>1 DEF Window
  <2> QED BY <2>4, <2>5 DEF Direction
<1> QED BY <1>1, <1>2 DEF ConnInv

LEMMA ConnInvStep == ConnInv /\ [Next]_vars => ConnInv'
<1> SUFFICES ASSUME ConnInv, [Next]_vars PROVE ConnInv'
  OBVIOUS
<1>1. TypeOK'
  BY TypeStep DEF ConnInv
<1>2. CASE UNCHANGED vars
  <2>1. UNCHANGED <<state, seq, ack, peerAck, buffer, construct, unpack, net,
                    sent, delivered, overflow>>
    BY <1>2 DEF vars, conn, history
  <2> QED BY <1>1, <2>1 DEF ConnInv, Direction, NumbersTrue, Recent, Window, Confirmed, Around
<1>3. ASSUME NEW p \in Peers, NEW pk \in net[p], Receive(p, pk) PROVE ConnInv'
  BY <1>1, <1>3, RefuseStep, FeedStep DEF Receive
<1> QED BY <1>1, <1>2, <1>3, QueueStep, FlushStep, ResendStep, TimeOutStep,
           DisconnectStep, FetchStep DEF Next

LEMMA ConnSafe == Spec => []ConnInv
BY ConnInvInit, ConnInvStep, PTL DEF Spec

--------------------------------------------------------------------------------
(* What the connection promises.                                           *)

\* What the other side has not been handed is still kept for resending, at
\* whatever point of the numbers' cycle: Feed's check and AckChunks never take an
\* acknowledgement for the one it repeats a round later.
THEOREM ChunksKept == Spec => []NothingForgotten
<1>1. ConnInv => NothingForgotten
  <2> SUFFICES ASSUME ConnInv, NEW p \in Peers, state[p] = "online", ~overflow[p],
                      NEW n \in delivered[Other(p)] + 1 .. sent[p]
               PROVE  \E i \in 1 .. Len(buffer[p]) : buffer[p][i].n = n
    BY DEF NothingForgotten
  <2>1. TypeOK /\ Window(p)
    BY DEF ConnInv, Direction
  <2>2. /\ sent[p] \in Nat /\ delivered[Other(p)] \in Nat /\ Len(buffer[p]) \in Nat
    BY <2>1, Sides, LenProperties DEF TypeOK
  <2> DEFINE i == n - Confirmed(p)
  <2>3. Confirmed(p) = sent[p] - Len(buffer[p]) /\ Confirmed(p) \in 0 .. delivered[Other(p)]
    BY <2>1 DEF Window, Confirmed
  <2>4. i \in 1 .. Len(buffer[p]) /\ Confirmed(p) + i = n
    <3> DEFINE s == sent[p]
               d == delivered[Other(p)]
               l == Len(buffer[p])
               w == Confirmed(p)
    <3>1. s \in Int /\ d \in Int /\ l \in Int /\ n \in Int /\ d < n /\ n <= s
      BY <2>2
    <3>2. w \in Int /\ w = s - l /\ w <= d
      BY <2>2, <2>3
    <3> HIDE DEF s, d, l, w
    <3>3. n - w \in 1 .. l /\ w + (n - w) = n
      BY <3>1, <3>2
    <3> QED BY <3>3 DEF l, w
  <2>5. buffer[p][i].n = Confirmed(p) + i
    <3> HIDE DEF i
    <3> QED BY <2>1, <2>4 DEF Window
  <2> QED BY <2>4, <2>5
<1> QED BY <1>1, ConnSafe, PTL

\* Feed accepts the latest acknowledgement of the other side, so the connection
\* never locks itself out when the numbers wrap round.
THEOREM LatestAccepted == Spec => []NotLockedOut
<1>1. ConnInv => NotLockedOut
  <2> SUFFICES ASSUME ConnInv, NEW p \in Peers, NEW q, q = Other(p), state[p] = "online",
                      state[q] = "online", ~overflow[p]
               PROVE  IsValidAck(p, ack[q])
    BY DEF NotLockedOut
  <2>1. q \in Peers /\ TypeOK /\ NumbersTrue(p) /\ NumbersTrue(q) /\ Recent(p) /\ Window(p)
    BY Sides DEF ConnInv, Direction
  <2>2. /\ sent[p] \in Nat /\ delivered[q] \in Nat /\ BufferEntries \in Nat
        /\ MaxSequence \in Nat /\ BufferEntries < MaxSequence
    BY <2>1, Modulus DEF TypeOK
  <2>3. /\ ack[q] = delivered[q] % MaxSequence /\ seq[p] = sent[p] % MaxSequence
        /\ delivered[q] <= sent[p] /\ sent[p] <= delivered[q] + BufferEntries
    BY <2>1 DEF NumbersTrue, Recent
  <2> DEFINE w == Confirmed(p)
  <2>4. w \in 0 .. delivered[q] /\ peerAck[p] = w % MaxSequence /\ Len(buffer[p]) <= BufferEntries
    BY <2>1 DEF Window
  <2>5. w = sent[p] - Len(buffer[p]) /\ Len(buffer[p]) \in Nat
    BY <2>1, LenProperties DEF Confirmed, TypeOK
  <2> HIDE DEF w
  <2>6. w \in Nat /\ w <= delivered[q]
    BY <2>2, <2>4
  <2>7. w <= sent[p] /\ sent[p] - w < MaxSequence
    <3>1. sent[p] - w = Len(buffer[p])
      BY <2>2, <2>5
    <3> QED BY <2>2, <2>3, <2>4, <2>5, <2>6, <3>1
  <2>8. sent[p] - delivered[q] < MaxSequence
    BY <2>2, <2>3
  <2> QED BY <2>2, <2>3, <2>4, <2>6, <2>7, <2>8, AckWindow
<1> QED BY <1>1, ConnSafe, PTL

\* The number of a chunk says whether it is the next one, and a chunk that was
\* not handed out is never taken for an old one, so FetchChunk notices every gap.
THEOREM GapsSeen == Spec => []GapsNoticed
<1>1. ConnInv => GapsNoticed
  <2> SUFFICES ASSUME ConnInv, NEW p \in Peers, NEW q, q = Other(p), state[p] = "online",
                      ~overflow[q], NEW c \in ChunksOf(unpack[p])
               PROVE  /\ InSequence(c.seq, ack[p]) <=> c.n = delivered[p] + 1
                      /\ IsSeqInBackroom(c.seq, ack[p]) => c.n <= delivered[p]
    BY DEF GapsNoticed
  <2>1. q \in Peers /\ Other(q) = p /\ TypeOK /\ NumbersTrue(p) /\ NumbersTrue(q) /\ Recent(q)
    BY Sides DEF ConnInv, Direction
  <2>2. /\ delivered[p] \in Nat /\ sent[q] \in Nat /\ BufferEntries \in Nat
        /\ c \in Around(q)
    BY <2>1, Modulus DEF TypeOK, Around
  <2>3. /\ ack[p] = delivered[p] % MaxSequence
        /\ c.n \in 1 .. sent[q] /\ c.seq = c.n % MaxSequence
        /\ sent[q] <= delivered[p] + BufferEntries
    BY <2>1, <2>2 DEF NumbersTrue, Recent
  <2>4. c.n = delivered[p] + 1 => InSequence(c.seq, ack[p])
    BY <2>2, <2>3, NextNumber DEF InSequence
  <2>5. InSequence(c.seq, ack[p]) => c.n = delivered[p] + 1
    BY NextExact
  <2>6. ASSUME IsSeqInBackroom(c.seq, ack[p]), c.n > delivered[p] PROVE FALSE
    <3>1. /\ c.n \in Nat /\ c.n - delivered[p] <= BufferEntries
          /\ delivered[p] - c.n <= BufferEntries
      BY <2>2, <2>3, <2>6
    <3>2. c.n <= delivered[p]
      BY <2>2, <2>3, <2>6, <3>1, Backroom
    <3> QED BY <2>2, <2>3, <2>6, <3>2
  <2> QED BY <2>2, <2>3, <2>4, <2>5, <2>6
<1> QED BY <1>1, ConnSafe, PTL

LEMMA StepDelivers ==
  ASSUME ConnInv, [Next]_vars
  PROVE  [Channel!Next]_Channel!vars
<1> USE DEF Channel!vars
<1>1. TypeOK
  BY DEF ConnInv
<1>2. CASE UNCHANGED vars
  BY <1>2 DEF vars, conn, history
<1>3. ASSUME NEW p \in Peers, QueueChunk(p) PROVE Channel!Next
  <2>1. /\ state[p] = "online" /\ state' = state /\ delivered' = delivered
        /\ sent' = [sent EXCEPT ![p] = @ + 1]
    BY <1>3 DEF QueueChunk
  <2>2. \E b \in BOOLEAN : overflow' = [overflow EXCEPT ![p] = @ \/ b]
    <3>1. overflow \in [Peers -> BOOLEAN]
      BY <1>1 DEF TypeOK
    <3>2. CASE overflow' = overflow
      <4>1. [overflow EXCEPT ![p] = @ \/ FALSE] = overflow
        BY <3>1
      <4> QED BY <3>2, <4>1
    <3>3. CASE overflow' = [overflow EXCEPT ![p] = TRUE]
      <4>1. [overflow EXCEPT ![p] = @ \/ TRUE] = [overflow EXCEPT ![p] = TRUE]
        OBVIOUS
      <4> QED BY <3>3, <4>1
    <3> QED BY <1>3, <3>2, <3>3 DEF QueueChunk
  <2>3. Channel!Queue(p)
    BY <2>1, <2>2 DEF Channel!Queue
  <2> QED BY <2>3 DEF Channel!Next
<1>4. ASSUME NEW p \in Peers, FetchChunk(p) PROVE [Channel!Next]_Channel!vars
  <2> DEFINE c == Head(unpack[p])
             handed == state[p] = "online" /\ InSequence(c.seq, ack[p])
  <2>1. /\ state' = state /\ sent' = sent /\ overflow' = overflow
        /\ delivered' = [delivered EXCEPT ![p] = IF handed THEN c.n ELSE @]
    BY <1>4 DEF FetchChunk
  <2>2. CASE handed
    <3>1. c \in ChunksOf(unpack[p])
      <4>1. unpack[p] \in Seq(Chunk) /\ unpack[p] # <<>>
        BY <1>1, <1>4 DEF FetchChunk, TypeOK
      <4>2. 1 \in 1 .. Len(unpack[p]) /\ c = unpack[p][1]
        BY <4>1, EmptySeq
      <4> QED BY <4>2 DEF ChunksOf
    <3> HIDE DEF c
    <3>2. /\ c.n \in 1 .. sent[Other(p)]
          /\ ~overflow[Other(p)] => c.n = delivered[p] + 1
      BY <2>2, <3>1, NextExact
    <3>3. Channel!Deliver(p)
      BY <2>1, <2>2, <3>2 DEF Channel!Deliver
    <3> QED BY <3>3 DEF Channel!Next
  <2>3. CASE ~handed
    <3> HIDE DEF handed
    <3>1. delivered' = delivered
      BY <1>1, <2>1, <2>3 DEF TypeOK
    <3> QED BY <2>1, <3>1
  <2> QED BY <2>2, <2>3
<1>5. ASSUME NEW p \in Peers, Disconnect(p) PROVE Channel!Next
  <2>1. /\ state' = [state EXCEPT ![p] = "offline"]
        /\ UNCHANGED <<sent, delivered, overflow>>
    BY <1>5 DEF Disconnect, history
  <2>2. [r \in Peers |-> state'[r] # "offline"]
          = [[r \in Peers |-> state[r] # "offline"] EXCEPT ![p] = FALSE]
    BY <1>1, <2>1 DEF TypeOK
  <2>3. Channel!Close(p)
    BY <2>1, <2>2 DEF Channel!Close
  <2> QED BY <2>3 DEF Channel!Next
<1>6. ASSUME NEW p \in Peers, state[p] = "online",
             state' = state \/ state' = [state EXCEPT ![p] = "error"],
             UNCHANGED <<sent, delivered, overflow>>
      PROVE  UNCHANGED Channel!vars
  <2>1. \A r \in Peers : (state'[r] # "offline") = (state[r] # "offline")
    BY <1>1, <1>6 DEF TypeOK
  <2> QED BY <1>6, <2>1
<1>7. ASSUME NEW p \in Peers, Flush(p) \/ Resend(p) \/ TimeOut(p)
      PROVE  UNCHANGED Channel!vars
  <2>1. /\ state[p] = "online" /\ UNCHANGED <<sent, delivered, overflow>>
        /\ state' = state \/ state' = [state EXCEPT ![p] = "error"]
    BY <1>7 DEF Flush, Resend, TimeOut, history
  <2> QED BY <1>6, <2>1
<1>8. ASSUME NEW p \in Peers, NEW pk \in net[p], Receive(p, pk)
      PROVE  UNCHANGED Channel!vars
  <2>1. /\ state[p] = "online" /\ UNCHANGED <<sent, delivered, overflow>>
        /\ state' = state \/ state' = [state EXCEPT ![p] = "error"]
    BY <1>8 DEF Receive, Refuse, Feed, conn, history
  <2> QED BY <1>6, <2>1
<1> QED BY <1>2, <1>3, <1>4, <1>5, <1>7, <1>8 DEF Next

\* Over a network that loses, repeats and reorders packets, each side is handed
\* the vital chunks of the other one in order, none twice and none left out,
\* until the buffer has run over: the connection implements VitalChannel.
THEOREM ConnectionImplements == Spec => ImplementsVitalChannel
<1>1. Init => Channel!Init
  BY DEF Init, Channel!Init
<1>2. ConnInv /\ [Next]_vars => [Channel!Next]_Channel!vars
  BY StepDelivers
<1> QED BY <1>1, <1>2, ConnSafe, PTL DEF Spec, ImplementsVitalChannel, Channel!Spec
================================================================================
