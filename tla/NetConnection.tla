----------------------------- MODULE NetConnection -----------------------------
(***************************************************************************)
(* Two CNetConnections that talk to each other over UDP: the client's and  *)
(* the one in the server's slot, both online (src/engine/shared/           *)
(* network_conn.cpp, network.cpp).  Vital chunks carry sequence numbers    *)
(* modulo NET_MAX_SEQUENCE and are kept in a resend buffer until they are  *)
(* acknowledged; packets get lost, duplicated and overtaken.               *)
(*                                                                         *)
(* A chunk is its number among the vital chunks of its sender, which is    *)
(* what the code does not have: n and acked exist only to state what       *)
(* should arrive.  The code reads seq and ack.                             *)
(***************************************************************************)
EXTENDS Integers, Sequences, FiniteSets

CONSTANTS
  Peers,         \* the two sides
  MaxSequence,   \* NET_MAX_SEQUENCE, 1024
  BufferEntries, \* the most entries that fit into the resend buffer
  FullEntries,   \* with how many entries it may be full, if they are large
  PacketSize,    \* chunks that fit into a packet
  First,         \* First[p]: p's vital chunks before the behaviour begins
  Limit,         \* Limit[p]: bound on the vital chunks that p queues
  InFlight       \* bound on the packets that are overtaken by later ones

(***************************************************************************)
(* The buffer holds fewer chunks than half of the sequence numbers: an     *)
(* entry takes at least 72 of its 32768 bytes, so there are 455 at most.   *)
(***************************************************************************)
ASSUME NetAssumption ==
  /\ \E a, b \in Peers : a # b /\ Peers = {a, b}
  /\ MaxSequence \in Nat /\ BufferEntries \in Nat \ {0} /\ FullEntries \in Nat
  /\ 2 * BufferEntries < MaxSequence
  /\ PacketSize \in Nat \ {0} /\ InFlight \in Nat
  /\ First \in [Peers -> Nat] /\ Limit \in [Peers -> Nat]

Other(p) == CHOOSE q \in Peers : q # p

VARIABLES
  state,      \* m_State, without the handshake: "online", "error", "offline"
  seq,        \* m_Sequence
  ack,        \* m_Ack
  peerAck,    \* m_PeerAck
  buffer,     \* m_Buffer, the chunks to resend
  construct,  \* m_Construct, the packet being filled
  unpack,     \* m_RecvUnpacker, chunks of the last packet not yet fetched
  net,        \* net[p]: packets on their way to p
  sent,       \* history: number of vital chunks queued by p
  delivered,  \* history: number of the last vital chunk handed to p
  overflow    \* history: a chunk of p was not saved for resending

conn == <<state, seq, ack, peerAck, buffer, construct, unpack>>
history == <<sent, delivered, overflow>>
vars == <<conn, net, history>>

SeqNumbers == 0 .. MaxSequence - 1
Chunk == [seq : SeqNumbers, n : Nat]
Packet == [ack : SeqNumbers, acked : Nat, resend : BOOLEAN, close : BOOLEAN,
           chunks : Seq(Chunk)]
EmptyConstruct == [resend |-> FALSE, chunks |-> <<>>]

Init ==
  /\ state = [p \in Peers |-> "online"]
  /\ seq = [p \in Peers |-> First[p] % MaxSequence]
  /\ ack = [p \in Peers |-> First[Other(p)] % MaxSequence]
  /\ peerAck = seq
  /\ buffer = [p \in Peers |-> <<>>]
  /\ construct = [p \in Peers |-> EmptyConstruct]
  /\ unpack = [p \in Peers |-> <<>>]
  /\ net = [p \in Peers |-> {}]
  /\ sent = First
  /\ delivered = [p \in Peers |-> First[Other(p)]]
  /\ overflow = [p \in Peers |-> FALSE]

--------------------------------------------------------------------------------
(* The code's helpers. *)

(* A variant of NextSequence: the number is not reduced. *)
NextSequenceUnbounded(s) == s + 1
NextSequence(s) == (s + 1) % MaxSequence

(* A variant of IsSeqInBackroom: without the bottom. *)
IsSeqInBackroomNoBottom(s, a) == s <= a
IsSeqInBackroom(s, a) ==
  LET Bottom == a - MaxSequence \div 2
  IN  IF Bottom < 0 THEN s <= a \/ s >= Bottom + MaxSequence
                    ELSE s <= a /\ s >= Bottom

(* A variant of InSequence: whatever was not seen yet. *)
InSequenceAnyNew(s, a) == ~IsSeqInBackroom(s, a)
InSequence(s, a) == s = NextSequence(a)

(* A variant of IsValidAck: numbers do not wrap round. *)
IsValidAckUnwrapped(p, a) == a >= peerAck[p] /\ a <= seq[p]
(* A variant of IsValidAck: an acknowledgement counts only once. *)
IsValidAckOnce(p, a) ==
  IF seq[p] >= peerAck[p] THEN a > peerAck[p] /\ a <= seq[p]
                          ELSE a > peerAck[p] \/ a <= seq[p]
(* "check if actual ack value is valid(own sequence..latest peer ack)" *)
IsValidAck(p, a) ==
  IF seq[p] >= peerAck[p] THEN a >= peerAck[p] /\ a <= seq[p]
                          ELSE a >= peerAck[p] \/ a <= seq[p]

(* AckChunks pops the first entries as long as they are acknowledged. *)
AckedEntries(b, a) ==
  CHOOSE k \in 0 .. Len(b) :
    /\ \A i \in 1 .. k : IsSeqInBackroom(b[i].seq, a)
    /\ k < Len(b) => ~IsSeqInBackroom(b[k + 1].seq, a)
AckChunks(b, a) == SubSeq(b, AckedEntries(b, a) + 1, Len(b))

(***************************************************************************)
(* QueueChunkEx flushes the packet when the next chunk does not fit.  After *)
(* the chunks cs are queued, all is what has been put into packets, the    *)
(* first FullPackets(all) of which are sent; SignalResend marks the first. *)
(***************************************************************************)
All(p, cs) == construct[p].chunks \o cs
FullPackets(all) == IF all = <<>> THEN 0 ELSE (Len(all) - 1) \div PacketSize
PacketOf(p, resend, chunks) ==
  [ack |-> ack[p], acked |-> delivered[p], resend |-> resend, close |-> FALSE,
   chunks |-> chunks]
Flushed(p, all) ==
  {PacketOf(p, construct[p].resend /\ i = 1,
            SubSeq(all, (i - 1) * PacketSize + 1, i * PacketSize)) :
     i \in 1 .. FullPackets(all)}
Rest(p, all) ==
  [resend |-> construct[p].resend /\ FullPackets(all) = 0,
   chunks |-> SubSeq(all, FullPackets(all) * PacketSize + 1, Len(all))]

(* Flush, or the keep-alive of an empty packet. *)
FlushPacket(p, c) == PacketOf(p, c.resend, c.chunks)

(***************************************************************************)
(* The network: what is sent is on its way, and of what was there any part *)
(* may have been lost, always so many that InFlight packets are left.      *)
(***************************************************************************)
Transmit(p, flight, new) ==
  \E old \in SUBSET flight[Other(p)] :
    /\ new = {} => old = flight[Other(p)]
    /\ new # {} => Cardinality(old) <= InFlight
    /\ net' = [flight EXCEPT ![Other(p)] = old \cup new]

(* After Update and Send: queue the chunks cs, then flush if asked to. *)
Output(p, flight, cs, flush) ==
  LET all == All(p, cs)
      c == Rest(p, all)
  IN  /\ construct' = [construct EXCEPT ![p] = IF flush THEN EmptyConstruct ELSE c]
      /\ Transmit(p, flight,
                  Flushed(p, all) \cup (IF flush THEN {FlushPacket(p, c)} ELSE {}))

(***************************************************************************)
(* What the numbers rely on, and nothing in the code enforces: a packet    *)
(* does not live as long as MaxSequence chunks take.  p does not queue     *)
(* another chunk while there is one around whose number the new one, or    *)
(* the one after it, would repeat, or an acknowledgement that it repeats.  *)
(***************************************************************************)
ChunksOf(s) == {s[i] : i \in 1 .. Len(s)}
Around(p) ==
  ChunksOf(construct[p].chunks) \cup ChunksOf(unpack[Other(p)])
    \cup UNION {ChunksOf(pk.chunks) : pk \in net[Other(p)]}
PacketsDieOut(p) ==
  /\ \A c \in Around(p) : sent[p] + 2 < c.n + MaxSequence
  /\ \A pk \in net[p] : sent[p] + 1 < pk.acked + MaxSequence
--------------------------------------------------------------------------------
(* Send, with QueueChunk and QueueChunkEx: a vital chunk, with or without
   NETSENDFLAG_FLUSH.  A chunk for which Allocate fails is sent only once. *)
QueueChunk(p) ==
  /\ state[p] = "online"
  /\ sent[p] < Limit[p]
  /\ PacketsDieOut(p)
  /\ LET s == NextSequence(seq[p])
         c == [seq |-> s, n |-> sent[p] + 1]
     IN  /\ seq' = [seq EXCEPT ![p] = s]
         /\ \/ /\ Len(buffer[p]) < BufferEntries
               /\ buffer' = [buffer EXCEPT ![p] = Append(@, c)]
               /\ UNCHANGED overflow
            \/ /\ Len(buffer[p]) >= FullEntries
               /\ overflow' = [overflow EXCEPT ![p] = TRUE]
               /\ UNCHANGED buffer
         /\ \E flush \in BOOLEAN : Output(p, net, <<c>>, flush)
  /\ sent' = [sent EXCEPT ![p] = @ + 1]
  /\ UNCHANGED <<state, ack, peerAck, unpack, delivered>>

(* Flush, for a chunk that is not vital or from Update after half a second;
   with nothing to send, the keep-alive of Update. *)
Flush(p) ==
  /\ state[p] = "online"
  /\ Output(p, net, <<>>, TRUE)
  /\ UNCHANGED <<state, seq, ack, peerAck, buffer, unpack, history>>

(* Update sends the first entry again that it has sent a second ago; half a
   second after it was queued it has been flushed. *)
Resend(p) ==
  /\ state[p] = "online"
  /\ buffer[p] # <<>>
  /\ Head(buffer[p]) \notin ChunksOf(construct[p].chunks)
  /\ \E flush \in BOOLEAN : Output(p, net, <<Head(buffer[p])>>, flush)
  /\ UNCHANGED <<state, seq, ack, peerAck, buffer, unpack, history>>

(* Update: nothing received, or the first entry not acknowledged, for
   conn_timeout. *)
TimeOut(p) ==
  /\ state[p] = "online"
  /\ state' = [state EXCEPT ![p] = "error"]
  /\ UNCHANGED <<seq, ack, peerAck, buffer, construct, unpack, net, history>>

(* Disconnect and Reset; a connection that failed sends no CLOSE. *)
Disconnect(p) ==
  /\ state[p] # "offline"
  /\ Transmit(p, net, IF state[p] = "online"
                      THEN {[FlushPacket(p, EmptyConstruct) EXCEPT !.close = TRUE]}
                      ELSE {})
  /\ state' = [state EXCEPT ![p] = "offline"]
  /\ seq' = [seq EXCEPT ![p] = 0]
  /\ ack' = [ack EXCEPT ![p] = 0]
  /\ peerAck' = [peerAck EXCEPT ![p] = 0]
  /\ buffer' = [buffer EXCEPT ![p] = <<>>]
  /\ construct' = [construct EXCEPT ![p] = EmptyConstruct]
  /\ UNCHANGED <<unpack, history>>

(***************************************************************************)
(* Recv takes a packet when all chunks of the last one are fetched.  Feed  *)
(* drops it if its acknowledgement is not valid; otherwise it remembers the *)
(* acknowledgement, resends the buffer if asked to, and then either ends   *)
(* the connection or removes what is acknowledged and hands the chunks to  *)
(* the unpacker.  The packet may arrive again.                             *)
(***************************************************************************)
Refuse(p, pk) ==
  /\ ~IsValidAck(p, pk.ack)
  /\ net' = [net EXCEPT ![p] = @ \ {pk}]
  /\ UNCHANGED <<conn, history>>

Feed(p, pk) ==
  /\ IsValidAck(p, pk.ack)
  /\ peerAck' = [peerAck EXCEPT ![p] = pk.ack]
  /\ \E again \in BOOLEAN :
       Output(p, IF again THEN net ELSE [net EXCEPT ![p] = @ \ {pk}],
              IF pk.resend THEN buffer[p] ELSE <<>>, FALSE)
  /\ IF pk.close
     THEN /\ state' = [state EXCEPT ![p] = "error"]
          /\ UNCHANGED <<buffer, unpack>>
     ELSE /\ buffer' = [buffer EXCEPT ![p] = AckChunks(@, pk.ack)]
          /\ unpack' = [unpack EXCEPT ![p] = pk.chunks]
          /\ UNCHANGED state
  /\ UNCHANGED <<seq, ack, history>>

Receive(p, pk) ==
  /\ state[p] = "online"
  /\ unpack[p] = <<>>
  /\ Refuse(p, pk) \/ Feed(p, pk)

(***************************************************************************)
(* FetchChunk takes the next chunk of the packet: the one expected is      *)
(* handed out, an old one is skipped, anything else asks for a resend with *)
(* the next packet.  After a Reset nobody listens to what is left.         *)
(***************************************************************************)
FetchChunk(p) ==
  /\ unpack[p] # <<>>
  /\ unpack' = [unpack EXCEPT ![p] = Tail(@)]
  /\ LET c == Head(unpack[p])
         expected == InSequence(c.seq, ack[p])
         old == IsSeqInBackroom(c.seq, ack[p])
         online == state[p] = "online"
     IN  /\ ack' = [ack EXCEPT ![p] = IF online /\ expected THEN c.seq ELSE @]
         /\ delivered' = [delivered EXCEPT ![p] = IF online /\ expected THEN c.n ELSE @]
         /\ construct' = [construct EXCEPT ![p].resend =
                            @ \/ (online /\ ~expected /\ ~old)]
  /\ UNCHANGED <<state, seq, peerAck, buffer, net, sent, overflow>>

Next ==
  \E p \in Peers :
    \/ QueueChunk(p)
    \/ Flush(p)
    \/ Resend(p)
    \/ TimeOut(p)
    \/ Disconnect(p)
    \/ \E pk \in net[p] : Receive(p, pk)
    \/ FetchChunk(p)

Spec == Init /\ [][Next]_vars
--------------------------------------------------------------------------------
(* The connection's state and what is on its way have the right shape. *)
TypeOK ==
  /\ state \in [Peers -> {"online", "error", "offline"}]
  /\ seq \in [Peers -> SeqNumbers]
  /\ ack \in [Peers -> SeqNumbers]
  /\ peerAck \in [Peers -> SeqNumbers]
  /\ buffer \in [Peers -> Seq(Chunk)]
  /\ construct \in [Peers -> [resend : BOOLEAN, chunks : Seq(Chunk)]]
  /\ unpack \in [Peers -> Seq(Chunk)]
  /\ net \in [Peers -> SUBSET Packet]
  /\ sent \in [Peers -> Nat]
  /\ delivered \in [Peers -> Nat]
  /\ overflow \in [Peers -> BOOLEAN]

(* What the other side has not been handed is still in the resend buffer:
   Feed and AckChunks never take a number for the one it repeats. *)
NothingForgotten ==
  \A p \in Peers :
    state[p] = "online" /\ ~overflow[p] =>
      \A n \in delivered[Other(p)] + 1 .. sent[p] :
        \E i \in 1 .. Len(buffer[p]) : buffer[p][i].n = n

(* The latest acknowledgement of the other side is never refused by Feed, so
   neither side locks the other one out. *)
NotLockedOut ==
  \A p \in Peers :
    state[p] = "online" /\ state[Other(p)] = "online" /\ ~overflow[p] =>
      IsValidAck(p, ack[Other(p)])

(* FetchChunk hands out the chunk that follows the last one and no other, and
   never skips one as an old one that was not handed out yet: it asks for a
   resend.  (A chunk that is very late may be taken for a missing one.) *)
GapsNoticed ==
  \A p \in Peers :
    state[p] = "online" /\ ~overflow[Other(p)] =>
      \A c \in ChunksOf(unpack[p]) :
        /\ InSequence(c.seq, ack[p]) <=> c.n = delivered[p] + 1
        /\ IsSeqInBackroom(c.seq, ack[p]) => c.n <= delivered[p]

(* The connection implements an ordered channel without loss. *)
Channel == INSTANCE VitalChannel WITH
  queued <- sent, broken <- overflow, open <- [p \in Peers |-> state[p] # "offline"]
ImplementsVitalChannel == Channel!Spec

(***************************************************************************)
(* Fairness: the loops of both sides call Update and fetch chunks for      *)
(* ever, and what is sent again and again arrives at last: a packet with   *)
(* the latest acknowledgement, and one that has the chunk p waits for, too. *)
(***************************************************************************)
Latest(p) == {pk \in net[p] : pk.acked = delivered[Other(p)]}
WithNext(p) ==
  {pk \in Latest(p) : \E i \in 1 .. Len(pk.chunks) : pk.chunks[i].n = delivered[p] + 1}
Arrives(p, pks) == \E pk \in pks : Receive(p, pk)

Senders == {p \in Peers : Limit[p] > First[p]}
LiveSpec ==
  /\ Spec
  /\ \A p \in Senders : LET q == Other(p) IN
       /\ WF_vars(Resend(p)) /\ WF_vars(Flush(p))
       /\ WF_vars(FetchChunk(q)) /\ WF_vars(Flush(q))
       /\ []<>(WithNext(q) # {}) => []<><<Arrives(q, WithNext(q))>>_vars
       /\ []<>(Latest(p) # {}) => []<><<Arrives(p, Latest(p))>>_vars

(* Every vital chunk is delivered, unless the connection ends or the buffer
   runs over: resending does not depend on the other side noticing a gap. *)
AllDelivered ==
  \A p \in Peers : \A n \in 1 .. Limit[p] :
    sent[p] >= n ~>
      \/ delivered[Other(p)] >= n
      \/ \E q \in Peers : state[q] # "online" \/ overflow[q]
================================================================================
