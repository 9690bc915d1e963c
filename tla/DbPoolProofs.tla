---------------------------- MODULE DbPoolProofs ----------------------------
(***************************************************************************)
(* Theorems about DbPool, for every size of the ring, every number of      *)
(* queries and whatever the databases answer, as long as fewer queries are *)
(* outstanding than the ring has slots.                                    *)
(***************************************************************************)
EXTENDS DbPool, SequenceTheorems, TLAPS

-----------------------------------------------------------------------------
(* Slots.                                                                  *)

\* Numbers less than Size apart never share a slot.
LEMMA SlotsDiffer ==
  ASSUME NEW i \in Nat, NEW j \in Nat, i < j, j - i < Size
  PROVE  Slot(i) # Slot(j)
<1>1. Size \in Nat /\ Size > 0
  BY PoolAssumption
<1> DEFINE a == i \div Size
           b == j \div Size
<1>2. /\ a \in Int /\ b \in Int
      /\ i = Size * a + Slot(i) /\ Slot(i) \in Int
      /\ j = Size * b + Slot(j) /\ Slot(j) \in Int
  BY <1>1 DEF Slot
<1>3. SUFFICES ASSUME Slot(i) = Slot(j) PROVE FALSE
  OBVIOUS
<1>4. Size * b - Size * a = j - i
  BY <1>1, <1>2, <1>3
<1>5. Size * (b - a) = j - i
  BY <1>1, <1>2, <1>4
<1> HIDE DEF a, b
<1>6. CASE b - a <= 0
  <2>1. Size * (b - a) <= 0
    BY <1>1, <1>2, <1>6
  <2> QED BY <1>5, <2>1
<1>7. CASE b - a >= 1
  <2>1. Size * (b - a) >= Size
    BY <1>1, <1>2, <1>7
  <2> QED BY <1>1, <1>5, <2>1
<1> QED BY <1>2, <1>6, <1>7

LEMMA SlotInRange ==
  ASSUME NEW i \in Nat
  PROVE  Slot(i) \in 0 .. Size - 1
BY PoolAssumption DEF Slot

-----------------------------------------------------------------------------
(* The inductive invariant.                                                *)

\* How many queries the backup worker has looked at, and how many the worker
\* has taken.
Looked == backup.job + (IF backup.pc = "look" THEN 1 ELSE 0)
Taken  == worker.job + (IF worker.pc \in {"run", "settle"} THEN 1 ELSE 0)

\* The null query: signalled by the main thread, seen by the backup worker, and
\* seen by the worker.
NullSent    == IF main = "running" THEN 0 ELSE 1
NullPassed  == IF backup.pc = "exited" THEN 1 ELSE 0
NullReached == IF worker.pc = "exited" THEN 1 ELSE 0

\* The semaphores count what one thread has passed on and the next one has not
\* yet taken, the null query included.
Counted ==
  /\ Len(answers) = Len(queries)
  /\ numBackup = (Len(queries) + NullSent) - (Looked + NullPassed)
  /\ numWorker = (backup.job + NullPassed) - (Taken + NullReached)

\* The worker is behind the backup worker, which is behind the main thread, by
\* less than the size of the ring.
Ordered ==
  /\ Taken <= backup.job
  /\ Looked <= Len(queries)
  /\ Len(queries) - worker.job <= Backlog

\* The ring holds the queries not yet taken, each in its slot, and nothing else.
Ring ==
  /\ \A q \in 1 .. Len(queries) : q > Taken => aQueries[Slot(q - 1)] = q
  /\ \A s \in 0 .. Size - 1 :
       aQueries[s] # 0 => /\ aQueries[s] \in 1 .. Len(queries)
                          /\ aQueries[s] > Taken
                          /\ Slot(aQueries[s] - 1) = s

Held ==
  /\ backup.pc = "look" => backup.query = backup.job + 1
  /\ worker.pc \in {"run", "settle"} => worker.query = worker.job + 1

Stopping ==
  /\ backup.pc = "exited" => main # "running" /\ backup.job = Len(queries)
  /\ worker.pc = "exited" => /\ backup.pc = "exited"
                             /\ worker.job = Len(queries)
                             /\ ~ shutdown
  /\ main = "running" => ~ shutdown
  /\ main = "stopping" /\ ~ shutdown => worker.pc = "exited"
  /\ main = "stopped" => worker.pc = "exited"

Answered == \A q \in 1 .. Len(queries) : answers[q] = "pending" <=> q > worker.job

PoolInv == TypeOK /\ Counted /\ Ordered /\ Ring /\ Held /\ Stopping /\ Answered

\* The types of the two threads' records, and the numbers in them.
BackupType == [pc : {"wait", "look", "exited"}, job : Nat, query : Nat, conn : BOOLEAN]
WorkerType == [pc : {"top", "wait", "run", "settle", "exited"}, job : Nat, query : Nat,
               conns : SUBSET Adds, failMode : BOOLEAN, success : BOOLEAN]
RowsType   == [{"write", "backup", "moved"} -> SUBSET Nat]

LEMMA Records ==
  ASSUME PoolInv
  PROVE  /\ backup \in BackupType /\ worker \in WorkerType /\ rows \in RowsType
         /\ backup.query \in Nat /\ worker.query \in Nat
<1>1. backup \in BackupType /\ worker \in WorkerType /\ rows \in RowsType
  BY DEF PoolInv, TypeOK, BackupType, WorkerType, RowsType
<1> QED BY <1>1 DEF BackupType, WorkerType

LEMMA Numbers ==
  ASSUME PoolInv
  PROVE  /\ Len(queries) \in Nat /\ Len(answers) = Len(queries)
         /\ numBackup \in Nat /\ numWorker \in Nat
         /\ backup.job \in Nat /\ worker.job \in Nat
         /\ Looked \in Nat /\ Taken \in Nat
         /\ worker.job <= Taken /\ Taken <= worker.job + 1
         /\ NullSent \in 0 .. 1 /\ NullPassed \in 0 .. 1 /\ NullReached \in 0 .. 1
<1>1. backup.job \in Nat /\ worker.job \in Nat
  BY Records DEF BackupType, WorkerType
<1>2. /\ Len(queries) \in Nat /\ Len(answers) = Len(queries)
      /\ numBackup \in Nat /\ numWorker \in Nat
  BY DEF PoolInv, TypeOK, Counted
<1>3. NullSent \in 0 .. 1 /\ NullPassed \in 0 .. 1 /\ NullReached \in 0 .. 1
  BY DEF NullSent, NullPassed, NullReached
<1> QED BY <1>1, <1>2, <1>3 DEF Looked, Taken

LEMMA PoolInvInit == Init => PoolInv
<1> SUFFICES ASSUME Init PROVE PoolInv
  OBVIOUS
<1> USE PoolAssumption
<1>1. /\ queries \in Seq(Queries) /\ answers \in Seq({"pending", "ok", "failed"})
      /\ main \in {"running", "stopping", "stopped"}
      /\ numBackup \in Nat /\ numWorker \in Nat
      /\ shutdown \in BOOLEAN /\ reported \subseteq Modes \X Nat /\ silent \subseteq Nat
  <2>1. queries \in Seq(Queries) /\ answers \in Seq({"pending", "ok", "failed"})
    BY EmptySeq DEF Init
  <2>2. reported \subseteq Modes \X Nat /\ silent \subseteq Nat
    BY DEF Init
  <2> QED BY <2>1, <2>2 DEF Init
<1>0. aQueries \in [0 .. Size - 1 -> Nat]
  BY DEF Init
<1>2. backup \in BackupType
  BY DEF Init, BackupType
<1>3. worker \in WorkerType
  BY DEF Init, WorkerType
<1>4. rows \in RowsType
  BY DEF Init, RowsType
<1>5. TypeOK
  BY <1>0, <1>1, <1>2, <1>3, <1>4 DEF TypeOK, BackupType, WorkerType, RowsType
<1>6. Counted /\ Ordered /\ Ring /\ Held /\ Stopping /\ Answered
  BY DEF Init, Counted, Ordered, Ring, Held, Stopping, Answered, Looked, Taken,
         NullSent, NullPassed, NullReached
<1> QED BY <1>5, <1>6 DEF PoolInv

\* The slot of the next query, and of the null query, is empty.
LEMMA NextSlotEmpty ==
  ASSUME PoolInv
  PROVE  aQueries[Slot(Len(queries))] = 0
<1> DEFINE n == Len(queries)
           x == aQueries[Slot(n)]
<1>1. n \in Nat /\ x \in Nat /\ Slot(n) \in 0 .. Size - 1
  BY Numbers, SlotInRange DEF PoolInv, TypeOK
<1>2. SUFFICES ASSUME x # 0 PROVE FALSE
  OBVIOUS
<1>3. x \in 1 .. n /\ x > Taken /\ Slot(x - 1) = Slot(n)
  BY <1>1, <1>2 DEF PoolInv, Ring
<1>4. n - (x - 1) < Size
  BY <1>1, <1>3, Numbers, PoolAssumption DEF PoolInv, Ordered, Taken
<1> QED BY <1>1, <1>3, <1>4, SlotsDiffer

LEMMA InsertStep ==
  ASSUME PoolInv, NEW kind \in Kinds, FewOutstanding, Insert(kind)
  PROVE  PoolInv'
<1> DEFINE n == Len(queries)
<1>1. /\ queries' \in Seq(Queries)
      /\ n \in Nat /\ Len(queries') = n + 1
  BY PoolAssumption, AppendProperties, Numbers DEF PoolInv, TypeOK, Insert
<1>2. /\ answers' \in Seq({"pending", "ok", "failed"})
      /\ Len(answers') = n + 1
      /\ \A q \in 1 .. n : answers'[q] = answers[q]
      /\ answers'[n + 1] = "pending"
  <2>1. answers \in Seq({"pending", "ok", "failed"}) /\ Len(answers) = n
    BY Numbers DEF PoolInv, TypeOK
  <2> QED BY <2>1, AppendProperties DEF Insert
<1>3. /\ Slot(n) \in 0 .. Size - 1
      /\ aQueries \in [0 .. Size - 1 -> Nat]
      /\ aQueries' = [aQueries EXCEPT ![Slot(n)] = n + 1]
  BY <1>1, SlotInRange DEF PoolInv, TypeOK, Insert
<1>4. aQueries' \in [0 .. Size - 1 -> Nat]
  BY <1>1, <1>3
<1>5. /\ main = "running" /\ numBackup' = numBackup + 1
      /\ UNCHANGED <<main, numWorker, shutdown, backup, worker, rows, reported, silent>>
      /\ n - worker.job < Backlog
  BY DEF Insert, FewOutstanding
<1>6. TypeOK'
  <2>1. numBackup' \in Nat
    BY <1>5, Numbers
  <2> QED BY <1>1, <1>2, <1>4, <1>5, <2>1 DEF PoolInv, TypeOK
<1>7. Taken' = Taken /\ Looked' = Looked /\ Taken \in Nat /\ Looked \in Nat /\ Taken <= n
  BY <1>5, Numbers DEF Taken, Looked, PoolInv, Ordered
<1>8. Counted'
  <2>1. NullSent' = NullSent /\ NullPassed' = NullPassed /\ NullReached' = NullReached
    BY <1>5 DEF NullSent, NullPassed, NullReached
  <2> QED BY <1>1, <1>2, <1>5, <1>7, <2>1, Numbers DEF PoolInv, Counted
<1>9. Ordered'
  BY <1>1, <1>5, <1>7, Numbers, PoolAssumption DEF PoolInv, Ordered
<1>10. Held' /\ Stopping'
  BY <1>1, <1>5 DEF PoolInv, Held, Stopping
<1>11. Answered'
  <2>1. ASSUME NEW q \in 1 .. n + 1 PROVE answers'[q] = "pending" <=> q > worker.job
    <3>1. CASE q = n + 1
      BY <1>2, <1>7, <3>1, Numbers DEF Taken
    <3>2. CASE q # n + 1
      BY <1>1, <1>2, <3>2 DEF PoolInv, Answered
    <3> QED BY <3>1, <3>2
  <2> QED BY <1>1, <1>5, <2>1 DEF Answered
<1>12. Ring'
  <2>1. ASSUME NEW q \in 1 .. n + 1, q > Taken PROVE aQueries'[Slot(q - 1)] = q
    <3>1. CASE q = n + 1
      <4>1. Slot(q - 1) = Slot(n)
        BY <1>1, <3>1
      <4> QED BY <1>3, <3>1, <4>1
    <3>2. CASE q # n + 1
      <4>1. q - 1 \in Nat /\ q - 1 < n /\ n - (q - 1) < Size
        BY <1>1, <1>5, <1>7, <2>1, <3>2, Numbers, PoolAssumption
      <4>2. Slot(q - 1) # Slot(n) /\ Slot(q - 1) \in 0 .. Size - 1
        BY <1>1, <4>1, SlotsDiffer, SlotInRange
      <4>3. aQueries[Slot(q - 1)] = q
        BY <1>1, <2>1, <4>1 DEF PoolInv, Ring
      <4> QED BY <1>3, <4>2, <4>3
    <3> QED BY <3>1, <3>2
  <2>2. ASSUME NEW s \in 0 .. Size - 1, aQueries'[s] # 0
        PROVE  /\ aQueries'[s] \in 1 .. n + 1 /\ aQueries'[s] > Taken
               /\ Slot(aQueries'[s] - 1) = s
    <3>1. CASE s = Slot(n)
      <4>1. aQueries'[s] = n + 1 /\ aQueries'[s] - 1 = n
        BY <1>1, <1>3, <3>1
      <4> QED BY <1>1, <1>7, <3>1, <4>1
    <3>2. CASE s # Slot(n)
      <4>1. aQueries'[s] = aQueries[s]
        BY <1>3, <3>2
      <4> QED BY <1>1, <2>2, <4>1 DEF PoolInv, Ring
    <3> QED BY <3>1, <3>2
  <2> QED BY <1>1, <1>7, <2>1, <2>2 DEF Ring
<1> QED BY <1>6, <1>8, <1>9, <1>10, <1>11, <1>12 DEF PoolInv

LEMMA MainStops ==
  ASSUME PoolInv, OnShutdown \/ ShutdownDone
  PROVE  PoolInv'
<1>1. /\ UNCHANGED <<queries, answers, aQueries, numWorker, backup, worker, rows,
                    reported, silent>>
      /\ \/ main = "running" /\ main' = "stopping" /\ shutdown' = TRUE /\ numBackup' = numBackup + 1
         \/ main = "stopping" /\ ~ shutdown /\ main' = "stopped"
              /\ UNCHANGED <<shutdown, numBackup>>
  BY DEF OnShutdown, ShutdownDone
<1>2. TypeOK'
  <2>1. numBackup' \in Nat
    BY <1>1, Numbers
  <2>2. main' \in {"running", "stopping", "stopped"} /\ shutdown' \in BOOLEAN
    BY <1>1 DEF PoolInv, TypeOK
  <2> QED BY <1>1, <2>1, <2>2 DEF PoolInv, TypeOK
<1>3. Ordered' /\ Held' /\ Answered' /\ Ring'
  BY <1>1 DEF PoolInv, Ordered, Held, Answered, Ring, Looked, Taken
<1>4. Counted'
  <2>1. /\ Looked' = Looked /\ Taken' = Taken
        /\ NullPassed' = NullPassed /\ NullReached' = NullReached
    BY <1>1 DEF Looked, Taken, NullPassed, NullReached
  <2>2. \/ NullSent = 0 /\ NullSent' = 1 /\ numBackup' = numBackup + 1
        \/ NullSent' = NullSent /\ numBackup' = numBackup
    BY <1>1 DEF NullSent
  <2>4. Len(answers') = Len(queries') /\ Len(queries') = Len(queries)
        /\ numWorker' = numWorker /\ backup'.job = backup.job
    BY <1>1, Numbers
  <2>5. /\ numBackup = (Len(queries) + NullSent) - (Looked + NullPassed)
        /\ numWorker = (backup.job + NullPassed) - (Taken + NullReached)
    BY DEF PoolInv, Counted
  <2>6. numBackup' = (Len(queries') + NullSent') - (Looked' + NullPassed')
    <3>1. PICK k \in Nat : k = Looked + NullPassed
      BY Numbers
    <3>2. CASE NullSent = 0 /\ NullSent' = 1 /\ numBackup' = numBackup + 1
      <4>1. numBackup = Len(queries) - k
        BY <2>5, <3>1, <3>2, Numbers
      <4>2. numBackup' = Len(queries) + 1 - k
        BY <3>2, <4>1, Numbers
      <4> QED BY <2>1, <2>4, <3>1, <3>2, <4>2
    <3> QED BY <2>1, <2>2, <2>4, <2>5, <3>2
  <2>7. numWorker' = (backup'.job + NullPassed') - (Taken' + NullReached')
    BY <2>1, <2>4, <2>5
  <2> QED BY <2>4, <2>6, <2>7 DEF Counted
<1>5. Stopping'
  BY <1>1 DEF PoolInv, Stopping
<1> QED BY <1>2, <1>3, <1>4, <1>5 DEF PoolInv

LEMMA BackupTakes ==
  ASSUME PoolInv, BackupTake
  PROVE  PoolInv'
<1> DEFINE n == Len(queries)
           q == aQueries[Slot(backup.job)]
<1>1. /\ n \in Nat /\ backup.job \in Nat /\ q \in Nat /\ backup.pc = "wait"
      /\ numBackup > 0 /\ numBackup' = numBackup - 1 /\ backup \in BackupType
      /\ UNCHANGED <<queries, answers, main, aQueries, shutdown, worker, rows, reported, silent>>
  BY Numbers, Records, SlotInRange DEF PoolInv, TypeOK, BackupTake
<1>2. Taken <= backup.job /\ Taken \in Nat /\ backup.job <= n /\ Looked = backup.job
  BY <1>1, Numbers DEF PoolInv, Ordered, Looked
<1>3. backup.job < n => q = backup.job + 1
  <2>1. ASSUME backup.job < n PROVE q = backup.job + 1
    <3>1. backup.job + 1 \in 1 .. n /\ backup.job + 1 > Taken /\ (backup.job + 1) - 1 = backup.job
      BY <1>1, <1>2, <2>1
    <3> QED BY <3>1 DEF PoolInv, Ring
  <2> QED BY <2>1
<1>4. backup.job = n => q = 0
  BY NextSlotEmpty
<1>5. Taken' = Taken
  BY <1>1 DEF Taken
<1>6. Ring' /\ Answered'
  BY <1>1, <1>5 DEF PoolInv, Ring, Answered
<1>7. CASE q = 0
  <2>1. /\ backup' = [backup EXCEPT !.pc = "exited"] /\ numWorker' = numWorker + 1
        /\ backup.job = n
    BY <1>1, <1>2, <1>3, <1>7 DEF BackupTake
  <2>2. /\ backup' \in BackupType /\ backup'.pc = "exited" /\ backup'.job = backup.job
        /\ backup'.query = backup.query
    BY <1>1, <2>1 DEF BackupType
  <2>3. main # "running"
    <3>1. NullSent # 0
      BY <1>1, <1>2, <2>1, Numbers DEF PoolInv, Counted
    <3> QED BY <3>1 DEF NullSent
  <2>4. Looked' = Looked
    BY <1>1, <2>2 DEF Looked
  <2>5. Counted'
    <3>1. /\ NullSent' = NullSent /\ NullPassed = 0 /\ NullPassed' = 1
          /\ NullReached' = NullReached
      BY <1>1, <2>2 DEF NullSent, NullPassed, NullReached
    <3> QED BY <1>1, <1>2, <1>5, <2>1, <2>2, <2>4, <3>1, Numbers DEF PoolInv, Counted
  <2>6. Ordered' /\ Held' /\ Stopping'
    BY <1>1, <1>5, <2>1, <2>2, <2>3, <2>4 DEF PoolInv, Ordered, Held, Stopping
  <2>7. TypeOK'
    <3>1. numBackup' \in Nat /\ numWorker' \in Nat
      BY <1>1, <2>1, Numbers
    <3> QED BY <1>1, <2>2, <3>1 DEF PoolInv, TypeOK, BackupType
  <2> QED BY <1>6, <2>5, <2>6, <2>7 DEF PoolInv
<1>8. CASE q # 0
  <2>1. /\ backup' = [backup EXCEPT !.pc = "look", !.query = q] /\ numWorker' = numWorker
        /\ backup.job < n /\ q = backup.job + 1
    BY <1>1, <1>2, <1>3, <1>4, <1>8 DEF BackupTake
  <2>2. /\ backup' \in BackupType /\ backup'.pc = "look" /\ backup'.job = backup.job
        /\ backup'.query = q
    BY <1>1, <2>1 DEF BackupType
  <2>3. Looked' = Looked + 1
    BY <1>1, <1>2, <2>2 DEF Looked
  <2>4. Counted'
    <3>1. /\ NullSent' = NullSent /\ NullPassed = 0 /\ NullPassed' = 0
          /\ NullReached' = NullReached
      BY <1>1, <2>2 DEF NullSent, NullPassed, NullReached
    <3> QED BY <1>1, <1>2, <1>5, <2>1, <2>2, <2>3, <3>1, Numbers DEF PoolInv, Counted
  <2>5. Ordered'
    BY <1>1, <1>2, <1>5, <2>1, <2>2, <2>3 DEF PoolInv, Ordered
  <2>6. Held' /\ Stopping'
    BY <1>1, <2>1, <2>2 DEF PoolInv, Held, Stopping
  <2>7. TypeOK'
    <3>1. numBackup' \in Nat /\ numWorker' \in Nat
      BY <1>1, <2>1, Numbers
    <3> QED BY <1>1, <2>2, <3>1 DEF PoolInv, TypeOK, BackupType
  <2> QED BY <1>6, <2>4, <2>5, <2>6, <2>7 DEF PoolInv
<1> QED BY <1>7, <1>8

LEMMA BackupHandsOn ==
  ASSUME PoolInv, BackupWrite \/ BackupSkip
  PROVE  PoolInv'
<1>1. /\ backup.pc = "look" /\ backup \in BackupType /\ numWorker' = numWorker + 1
      /\ UNCHANGED <<queries, answers, main, aQueries, numBackup, shutdown, worker, silent>>
  BY Records DEF BackupWrite, BackupSkip, HandOn
<1>2. PICK connected \in BOOLEAN :
        backup' = [backup EXCEPT !.pc = "wait", !.job = @ + 1, !.conn = connected]
  BY <1>1 DEF BackupWrite, BackupSkip, HandOn, BackupType
<1>3. /\ backup' \in BackupType /\ backup'.pc = "wait" /\ backup'.job = backup.job + 1
  <2>1. backup.job + 1 \in Nat
    BY Numbers
  <2> QED BY <1>1, <1>2, <2>1 DEF BackupType
<1>4. rows' \in RowsType /\ reported' \subseteq Modes \X Nat
  <2>1. CASE BackupWrite
    <3>1. PICK o \in BackupFirst(rows, backup.query) :
            /\ rows' = o.rows
            /\ reported' = reported \cup (IF o.ok THEN {<<"BACKUP_FIRST", backup.query>>} ELSE {})
      BY <2>1 DEF BackupWrite
    <3>2. o.rows \in RowsType
      BY <3>1, Records DEF BackupFirst, Outcome, Stored, RowsType
    <3>3. reported \subseteq Modes \X Nat /\ <<"BACKUP_FIRST", backup.query>> \in Modes \X Nat
      BY Records DEF PoolInv, TypeOK, Modes
    <3> QED BY <3>1, <3>2, <3>3
  <2>2. CASE BackupSkip
    BY <2>2, Records DEF BackupSkip, PoolInv, TypeOK
  <2> QED BY <2>1, <2>2
<1>5. TypeOK'
  <2>1. numWorker' \in Nat
    BY <1>1, Numbers
  <2> QED BY <1>1, <1>3, <1>4, <2>1 DEF PoolInv, TypeOK, BackupType, RowsType
<1>6. Looked' = Looked /\ Taken' = Taken /\ Looked = backup.job + 1
  BY <1>1, <1>3, Numbers DEF Looked, Taken
<1>7. Counted'
  <2>1. /\ NullSent' = NullSent /\ NullPassed = 0 /\ NullPassed' = 0
        /\ NullReached' = NullReached
    BY <1>1, <1>3 DEF NullSent, NullPassed, NullReached
  <2>2. /\ Len(answers') = Len(queries') /\ Len(queries') = Len(queries)
        /\ numBackup' = numBackup
    BY <1>1, Numbers
  <2>3. /\ numBackup = (Len(queries) + NullSent) - (Looked + NullPassed)
        /\ numWorker = (backup.job + NullPassed) - (Taken + NullReached)
    BY DEF PoolInv, Counted
  <2>4. numBackup' = (Len(queries') + NullSent') - (Looked' + NullPassed')
    BY <1>6, <2>1, <2>2, <2>3
  <2>5. numWorker' = (backup'.job + NullPassed') - (Taken' + NullReached')
    <3>1. /\ numWorker' = numWorker + 1 /\ backup'.job = backup.job + 1
          /\ NullPassed' = NullPassed /\ Taken' = Taken /\ NullReached' = NullReached
      BY <1>1, <1>3, <1>6, <2>1
    <3>2. /\ backup.job \in Int /\ NullPassed \in Int /\ Taken \in Int
          /\ NullReached \in Int
      BY Numbers
    <3>3. numWorker + 1 = ((backup.job + 1) + NullPassed) - (Taken + NullReached)
      BY <2>3, <3>2
    <3> QED BY <3>1, <3>3
  <2> QED BY <2>2, <2>4, <2>5 DEF Counted
<1>8. Ordered'
  BY <1>1, <1>3, <1>6, Numbers DEF PoolInv, Ordered
<1>9. Held' /\ Stopping' /\ Answered' /\ Ring'
  BY <1>1, <1>3, <1>6 DEF PoolInv, Held, Stopping, Answered, Ring
<1> QED BY <1>5, <1>7, <1>8, <1>9 DEF PoolInv

LEMMA WorkerTops ==
  ASSUME PoolInv, WorkerTop
  PROVE  PoolInv'
<1>1. /\ worker.pc = "top" /\ worker \in WorkerType
      /\ UNCHANGED <<queries, answers, main, aQueries, numBackup, numWorker, shutdown,
                     backup, rows, reported, silent>>
  BY Records DEF WorkerTop
<1>2. /\ worker' \in WorkerType /\ worker'.pc = "wait" /\ worker'.job = worker.job
      /\ worker'.query = worker.query
  BY <1>1 DEF WorkerTop, WorkerType
<1>3. TypeOK'
  BY <1>1, <1>2 DEF PoolInv, TypeOK, WorkerType
<1>4. /\ Looked' = Looked /\ Taken' = Taken /\ NullSent' = NullSent
      /\ NullPassed' = NullPassed /\ NullReached' = NullReached
  BY <1>1, <1>2 DEF Looked, Taken, NullSent, NullPassed, NullReached
<1>5. Counted' /\ Ordered' /\ Ring' /\ Held' /\ Stopping' /\ Answered'
  BY <1>1, <1>2, <1>4 DEF PoolInv, Counted, Ordered, Ring, Held, Stopping, Answered
<1> QED BY <1>3, <1>5 DEF PoolInv

\* A slot read by the worker is empty exactly when the null query has come.
LEMMA WorkerReads ==
  ASSUME PoolInv, WorkerTake
  PROVE  LET q == aQueries[Slot(worker.job)]
         IN  \/ /\ q = 0
                /\ worker.job = Len(queries) /\ backup.pc = "exited"
             \/ /\ q = worker.job + 1
                /\ worker.job < backup.job /\ worker.job < Len(queries)
<1> DEFINE n == Len(queries)
           q == aQueries[Slot(worker.job)]
<1>1. worker.pc = "wait" /\ numWorker > 0
  BY DEF WorkerTake
<1>2. Taken = worker.job /\ NullReached = 0
  BY <1>1, Numbers DEF Taken, NullReached
<1>3. worker.job <= backup.job /\ backup.job <= n
  BY <1>2, Numbers DEF PoolInv, Ordered, Looked
<1>4. CASE worker.job < backup.job
  <2>1. worker.job + 1 \in 1 .. n /\ worker.job + 1 > Taken /\ (worker.job + 1) - 1 = worker.job
    BY <1>2, <1>3, <1>4, Numbers
  <2>2. q = worker.job + 1
    BY <2>1 DEF PoolInv, Ring
  <2> QED BY <1>3, <1>4, <2>2, Numbers
<1>5. CASE worker.job = backup.job
  <2>1. NullPassed # 0
    BY <1>1, <1>2, <1>5, Numbers DEF PoolInv, Counted
  <2>2. backup.pc = "exited" /\ backup.job = n
    BY <2>1 DEF NullPassed, PoolInv, Stopping
  <2> QED BY <1>5, <2>2, NextSlotEmpty
<1> QED BY <1>3, <1>4, <1>5, Numbers

LEMMA WorkerTakes ==
  ASSUME PoolInv, WorkerTake
  PROVE  PoolInv'
<1> DEFINE n == Len(queries)
           q == aQueries[Slot(worker.job)]
<1>1. /\ worker.pc = "wait" /\ worker \in WorkerType
      /\ numWorker > 0 /\ numWorker' = numWorker - 1
      /\ UNCHANGED <<queries, answers, main, numBackup, backup, rows, reported, silent>>
  BY Records DEF WorkerTake
<1>2. Looked' = Looked /\ NullSent' = NullSent /\ NullPassed' = NullPassed
  BY <1>1 DEF Looked, NullSent, NullPassed
<1>3. Taken = worker.job /\ NullReached = 0
  BY <1>1, Numbers DEF Taken, NullReached
<1>4. numWorker' \in Nat /\ numWorker \in Nat
  BY <1>1, Numbers
<1>5. Slot(worker.job) \in 0 .. Size - 1 /\ aQueries \in [0 .. Size - 1 -> Nat] /\ q \in Nat
  BY Numbers, SlotInRange DEF PoolInv, TypeOK
<1>6. CASE q = 0
  <2>1. worker.job = n /\ backup.pc = "exited"
    BY <1>6, WorkerReads, Numbers
  <2>2. worker' = [worker EXCEPT !.pc = "exited"] /\ shutdown' = FALSE /\ aQueries' = aQueries
    BY <1>6 DEF WorkerTake
  <2>3. worker' \in WorkerType /\ worker'.pc = "exited" /\ worker'.job = worker.job
    BY <1>1, <2>2 DEF WorkerType
  <2>4. Taken' = Taken /\ NullReached' = 1
    BY <1>1, <2>3 DEF Taken, NullReached
  <2>5. TypeOK'
    BY <1>1, <1>4, <2>2, <2>3 DEF PoolInv, TypeOK, WorkerType
  <2>6. Counted'
    <3>1. /\ numBackup' = (Len(queries') + NullSent') - (Looked' + NullPassed')
          /\ Len(answers') = Len(queries')
      BY <1>1, <1>2 DEF PoolInv, Counted
    <3>2. numWorker' = (backup'.job + NullPassed') - (Taken' + NullReached')
      <4>1. PICK k \in Nat : k = backup.job + NullPassed
        BY Numbers
      <4>2. numWorker = k - worker.job
        <5>1. Taken + NullReached = worker.job
          BY <1>3, Numbers
        <5>2. numWorker = (backup.job + NullPassed) - (Taken + NullReached)
          BY DEF PoolInv, Counted
        <5> QED BY <4>1, <5>1, <5>2
      <4>3. numWorker - 1 = k - (worker.job + 1)
        BY <4>2, Numbers
      <4>4. Taken' + NullReached' = worker.job + 1
        BY <1>3, <2>4, Numbers
      <4>5. numWorker' = k - (Taken' + NullReached')
        BY <1>1, <4>3, <4>4
      <4>6. backup'.job + NullPassed' = k
        BY <1>1, <1>2, <4>1
      <4> QED BY <4>5, <4>6, Zenon
    <3> QED BY <3>1, <3>2 DEF Counted
  <2>7. Ordered'
    BY <1>1, <1>2, <2>3, <2>4 DEF PoolInv, Ordered
  <2>8. Held' /\ Stopping' /\ Answered'
    BY <1>1, <2>1, <2>2, <2>3 DEF PoolInv, Held, Stopping, Answered
  <2>9. Ring'
    BY <1>1, <2>2, <2>4 DEF PoolInv, Ring
  <2> QED BY <2>5, <2>6, <2>7, <2>8, <2>9 DEF PoolInv
<1>7. CASE q # 0
  <2>1. q = worker.job + 1 /\ worker.job < backup.job /\ worker.job < n
    BY <1>7, WorkerReads
  <2>2. /\ worker' = [worker EXCEPT !.pc = "run", !.query = q]
        /\ aQueries' = [aQueries EXCEPT ![Slot(worker.job)] = 0]
        /\ shutdown' = shutdown
    BY <1>7 DEF WorkerTake
  <2>3. /\ worker' \in WorkerType /\ worker'.pc = "run"
        /\ worker'.job = worker.job /\ worker'.query = worker.job + 1
    <3>1. worker'.query = q /\ worker' \in WorkerType /\ worker'.pc = "run"
          /\ worker'.job = worker.job
      BY <1>1, <1>5, <2>2 DEF WorkerType
    <3> QED BY <2>1, <3>1
  <2>4. Taken' = worker.job + 1 /\ NullReached' = 0
    BY <2>3 DEF Taken, NullReached
  <2>5. TypeOK'
    <3>1. aQueries' \in [0 .. Size - 1 -> Nat]
      BY <1>5, <2>2
    <3> QED BY <1>1, <1>4, <2>2, <2>3, <3>1 DEF PoolInv, TypeOK, WorkerType
  <2>6. Counted'
    <3>1. /\ numBackup' = (Len(queries') + NullSent') - (Looked' + NullPassed')
          /\ Len(answers') = Len(queries')
      BY <1>1, <1>2 DEF PoolInv, Counted
    <3>2. numWorker' = (backup'.job + NullPassed') - (Taken' + NullReached')
      <4>1. PICK k \in Nat : k = backup.job + NullPassed
        BY Numbers
      <4>2. numWorker = k - worker.job
        <5>1. Taken + NullReached = worker.job
          BY <1>3, Numbers
        <5>2. numWorker = (backup.job + NullPassed) - (Taken + NullReached)
          BY DEF PoolInv, Counted
        <5> QED BY <4>1, <5>1, <5>2
      <4>3. numWorker - 1 = k - (worker.job + 1)
        BY <4>2, Numbers
      <4>4. Taken' + NullReached' = worker.job + 1
        BY <1>3, <2>4, Numbers
      <4>5. numWorker' = k - (Taken' + NullReached')
        BY <1>1, <4>3, <4>4
      <4>6. backup'.job + NullPassed' = k
        BY <1>1, <1>2, <4>1
      <4> QED BY <4>5, <4>6, Zenon
    <3> QED BY <3>1, <3>2 DEF Counted
  <2>7. Ordered'
    BY <1>1, <1>2, <2>1, <2>3, <2>4, Numbers DEF PoolInv, Ordered
  <2>8. Held' /\ Stopping' /\ Answered'
    BY <1>1, <2>1, <2>2, <2>3 DEF PoolInv, Held, Stopping, Answered
  <2>9. Ring'
    <3>1. ASSUME NEW j \in 1 .. n, j > Taken' PROVE aQueries'[Slot(j - 1)] = j
      <4>1. /\ worker.job \in Nat /\ j - 1 \in Nat /\ worker.job < j - 1
            /\ (j - 1) - worker.job < Size
        BY <2>4, <3>1, Numbers, PoolAssumption DEF PoolInv, Ordered
      <4>2. Slot(j - 1) # Slot(worker.job) /\ Slot(j - 1) \in 0 .. Size - 1
        BY <4>1, SlotsDiffer, SlotInRange
      <4>3. j > Taken
        BY <1>3, <2>4, <3>1, Numbers
      <4>4. aQueries[Slot(j - 1)] = j
        BY <3>1, <4>3 DEF PoolInv, Ring
      <4> QED BY <1>5, <2>2, <4>2, <4>4
    <3>2. ASSUME NEW s \in 0 .. Size - 1, aQueries'[s] # 0
          PROVE  /\ aQueries'[s] \in 1 .. n /\ aQueries'[s] > Taken'
                 /\ Slot(aQueries'[s] - 1) = s
      <4>1. s # Slot(worker.job) /\ aQueries'[s] = aQueries[s]
        BY <1>5, <2>2, <3>2
      <4>2. aQueries[s] \in 1 .. n /\ aQueries[s] > worker.job /\ Slot(aQueries[s] - 1) = s
        BY <1>3, <3>2, <4>1 DEF PoolInv, Ring
      <4>3. aQueries[s] # worker.job + 1
        <5>1. (worker.job + 1) - 1 = worker.job
          BY Numbers
        <5> QED BY <4>1, <4>2, <5>1
      <4> QED BY <2>4, <4>1, <4>2, <4>3, Numbers
    <3> QED BY <1>1, <3>1, <3>2 DEF Ring
  <2> QED BY <2>5, <2>6, <2>7, <2>8, <2>9 DEF PoolInv
<1> QED BY <1>6, <1>7

\* What all the ways to finish a query have in common.
LEMMA Completes ==
  ASSUME PoolInv, worker.pc \in {"run", "settle"},
         NEW a \in {"ok", "failed"}, answers' = [answers EXCEPT ![worker.query] = a],
         worker' \in WorkerType, worker'.pc = "top", worker'.job = worker.job + 1,
         UNCHANGED <<queries, main, aQueries, numBackup, numWorker, shutdown, backup>>,
         rows' \in RowsType, reported' \subseteq Modes \X Nat, silent' \subseteq Nat
  PROVE  PoolInv'
<1> DEFINE n == Len(queries)
<1>1. Taken = worker.job + 1 /\ worker.query = worker.job + 1 /\ NullReached = 0
  BY Numbers DEF PoolInv, Held, Taken, NullReached
<1>2. worker.query \in 1 .. n /\ n = Len(answers)
  BY <1>1, Numbers DEF PoolInv, Ordered, Looked
<1>3. /\ answers' \in Seq({"pending", "ok", "failed"}) /\ Len(answers') = n
      /\ \A q \in 1 .. n : answers'[q] = IF q = worker.query THEN a ELSE answers[q]
  <2>1. answers \in Seq({"pending", "ok", "failed"}) /\ a \in {"pending", "ok", "failed"}
    BY DEF PoolInv, TypeOK
  <2> QED BY <1>2, <2>1, ExceptSeq
<1>4. TypeOK'
  BY <1>3 DEF PoolInv, TypeOK, WorkerType, RowsType
<1>5. /\ Looked' = Looked /\ Taken' = Taken /\ NullSent' = NullSent
      /\ NullPassed' = NullPassed /\ NullReached' = NullReached
  <2>1. Taken' = worker'.job
    BY Numbers DEF Taken
  <2> QED BY <1>1, <2>1 DEF Looked, NullSent, NullPassed, NullReached
<1>6. Counted'
  BY <1>3, <1>5 DEF PoolInv, Counted
<1>7. Ordered'
  BY <1>5, Numbers, PoolAssumption DEF PoolInv, Ordered
<1>8. Ring' /\ Held' /\ Stopping'
  BY <1>5 DEF PoolInv, Ring, Held, Stopping
<1>9. Answered'
  <2>1. ASSUME NEW q \in 1 .. n PROVE answers'[q] = "pending" <=> q > worker.job + 1
    <3>1. CASE q = worker.query
      BY <1>1, <1>3, <3>1, Numbers
    <3>2. CASE q # worker.query
      BY <1>1, <1>3, <3>2, Numbers DEF PoolInv, Answered
    <3> QED BY <3>1, <3>2
  <2> QED BY <2>1 DEF Answered
<1> QED BY <1>4, <1>6, <1>7, <1>8, <1>9 DEF PoolInv

\* A step of the worker that publishes an answer.
Publishes ==
  /\ worker.pc \in {"run", "settle"}
  /\ \E a \in {"ok", "failed"} : answers' = [answers EXCEPT ![worker.query] = a]
  /\ worker' \in WorkerType /\ worker'.pc = "top" /\ worker'.job = worker.job + 1
  /\ UNCHANGED <<queries, main, aQueries, numBackup, numWorker, shutdown, backup>>
  /\ rows' \in RowsType /\ reported' \subseteq Modes \X Nat /\ silent' \subseteq Nat

LEMMA CompletePublishes ==
  ASSUME PoolInv, NEW ok \in BOOLEAN, NEW next \in WorkerType,
         next.job = worker.job, Complete(ok, next)
  PROVE  /\ \E a \in {"ok", "failed"} : answers' = [answers EXCEPT ![worker.query] = a]
         /\ worker' \in WorkerType /\ worker'.pc = "top" /\ worker'.job = worker.job + 1
<1>1. next.job + 1 \in Nat
  BY Numbers
<1>2. worker' \in WorkerType /\ worker'.pc = "top" /\ worker'.job = next.job + 1
  BY <1>1 DEF Complete, WorkerType
<1> QED BY <1>2 DEF Complete

LEMMA SettleRows ==
  ASSUME PoolInv, NEW o \in SettleOutcomes
  PROVE  o.rows \in RowsType /\ o.ok \in BOOLEAN
<1>1. worker.query \in Nat /\ rows \in RowsType
  BY Records
<1>2. Copied(rows, worker.query) \in RowsType
  BY <1>1 DEF Copied, RowsType
<1>3. \A c \in RowsType : Removed(c, worker.query) \in RowsType
  BY DEF Removed, RowsType
<1>4. \A c \in RowsType, ok \in BOOLEAN :
        Outcome(ok, c).rows = c /\ Outcome(ok, c).ok = ok
  BY DEF Outcome
<1>5. CASE worker.success
  <2>1. \/ o = Outcome(TRUE, Removed(rows, worker.query))
        \/ o = Outcome(TRUE, rows) \/ o = Outcome(FALSE, rows)
    BY <1>5 DEF SettleOutcomes, NormalSucceeded
  <2> QED BY <1>1, <1>3, <1>4, <2>1
<1>6. CASE ~ worker.success
  <2>1. PICK c \in {rows, Copied(rows, worker.query)} :
          \/ o = Outcome(FALSE, c) \/ o = Outcome(TRUE, c)
          \/ o = Outcome(TRUE, Removed(c, worker.query))
    BY <1>6 DEF SettleOutcomes, NormalFailed
  <2>2. c \in RowsType /\ Removed(c, worker.query) \in RowsType
    BY <1>1, <1>2, <1>3
  <2> QED BY <1>4, <2>1, <2>2
<1> QED BY <1>5, <1>6

LEMMA WorkerPublishes ==
  ASSUME PoolInv,
         WorkerRead \/ WorkerAdd \/ WorkerPrint \/ WorkerSettle \/ WorkerSettleNothing
  PROVE  Publishes
<1>1. rows \in RowsType /\ reported \subseteq Modes \X Nat /\ silent \subseteq Nat
  BY Records DEF PoolInv, TypeOK
<1>2. worker \in WorkerType /\ worker.success \in BOOLEAN
  BY Records DEF WorkerType
<1>3. CASE WorkerRead
  <2>1. PICK ok \in BOOLEAN : Complete(ok, [worker EXCEPT !.failMode = @ \/ ~ ok])
    BY <1>3 DEF WorkerRead
  <2>2. /\ [worker EXCEPT !.failMode = @ \/ ~ ok] \in WorkerType
        /\ [worker EXCEPT !.failMode = @ \/ ~ ok].job = worker.job
    BY <1>2 DEF WorkerType
  <2> QED BY <1>1, <1>3, <2>1, <2>2, CompletePublishes DEF WorkerRead, Publishes
<1>4. CASE WorkerAdd
  <2>1. /\ [worker EXCEPT !.conns = @ \cup {Kind}] \in WorkerType
        /\ [worker EXCEPT !.conns = @ \cup {Kind}].job = worker.job
    BY <1>2, <1>4 DEF WorkerType, WorkerAdd
  <2> QED BY <1>1, <1>4, <2>1, CompletePublishes DEF WorkerAdd, Publishes
<1>5. CASE WorkerPrint
  BY <1>1, <1>2, <1>5, CompletePublishes DEF WorkerPrint, Publishes
<1>6. CASE WorkerSettle
  <2>1. PICK o \in SettleOutcomes :
          /\ rows' = o.rows
          /\ Complete(worker.success \/ o.ok, worker)
          /\ reported' = reported \cup (IF o.ok THEN {<<SettleMode, worker.query>>} ELSE {})
          /\ silent' = silent \cup
               (IF /\ ~ worker.success /\ o.ok
                   /\ worker.query \in rows.backup \ o.rows.moved
                THEN {worker.query} ELSE {})
    BY <1>6 DEF WorkerSettle
  <2>2. o.rows \in RowsType /\ (worker.success \/ o.ok) \in BOOLEAN
    BY <1>2, SettleRows
  <2>3. <<SettleMode, worker.query>> \in Modes \X Nat /\ worker.query \in Nat
    BY Records DEF SettleMode, Modes
  <2>4. reported' \subseteq Modes \X Nat /\ silent' \subseteq Nat
    BY <1>1, <2>1, <2>3
  <2>5. /\ \E a \in {"ok", "failed"} : answers' = [answers EXCEPT ![worker.query] = a]
        /\ worker' \in WorkerType /\ worker'.pc = "top" /\ worker'.job = worker.job + 1
    BY <1>2, <2>1, <2>2, CompletePublishes
  <2> QED BY <1>6, <2>1, <2>2, <2>4, <2>5 DEF WorkerSettle, Publishes
<1>7. CASE WorkerSettleNothing
  BY <1>1, <1>2, <1>7, CompletePublishes DEF WorkerSettleNothing, Publishes
<1> QED BY <1>3, <1>4, <1>5, <1>6, <1>7

LEMMA WorkerWrites ==
  ASSUME PoolInv, WorkerWrite
  PROVE  PoolInv'
<1>1. /\ worker.pc = "run" /\ worker \in WorkerType
      /\ UNCHANGED <<queries, answers, main, aQueries, numBackup, numWorker, shutdown,
                     backup, silent>>
  BY Records DEF WorkerWrite
<1>2. PICK o \in FirstOutcomes :
        /\ rows' = o.rows
        /\ worker' = [worker EXCEPT !.pc = "settle", !.success = o.ok,
                                    !.failMode = @ \/ ~ o.ok]
        /\ reported' = reported \cup (IF o.ok THEN {<<"NORMAL", worker.query>>} ELSE {})
  BY DEF WorkerWrite
<1>3. o.rows \in RowsType /\ o.ok \in BOOLEAN
  <2>1. Stored(rows, "write", worker.query) \in RowsType /\ rows \in RowsType
    BY Records DEF Stored, RowsType
  <2>2. \A c \in RowsType, ok \in BOOLEAN :
          Outcome(ok, c).rows = c /\ Outcome(ok, c).ok = ok
    BY DEF Outcome
  <2>3. \E c \in {rows, Stored(rows, "write", worker.query)}, ok \in BOOLEAN : o = Outcome(ok, c)
    BY DEF FirstOutcomes, Normal
  <2> QED BY <2>1, <2>2, <2>3
<1>4. reported' \subseteq Modes \X Nat
  <2>1. reported \subseteq Modes \X Nat /\ <<"NORMAL", worker.query>> \in Modes \X Nat
    BY Records DEF PoolInv, TypeOK, Modes
  <2> QED BY <1>2, <2>1
<1>5. /\ worker' \in WorkerType /\ worker'.pc = "settle" /\ worker'.job = worker.job
      /\ worker'.query = worker.query
  BY <1>1, <1>2, <1>3 DEF WorkerType
<1>6. TypeOK'
  BY <1>1, <1>2, <1>3, <1>4, <1>5 DEF PoolInv, TypeOK, WorkerType, RowsType
<1>7. /\ Looked' = Looked /\ Taken' = Taken /\ NullSent' = NullSent
      /\ NullPassed' = NullPassed /\ NullReached' = NullReached
  BY <1>1, <1>5 DEF Looked, Taken, NullSent, NullPassed, NullReached
<1>8. Counted' /\ Ordered' /\ Ring' /\ Held' /\ Stopping' /\ Answered'
  BY <1>1, <1>5, <1>7 DEF PoolInv, Counted, Ordered, Ring, Held, Stopping, Answered
<1> QED BY <1>6, <1>8 DEF PoolInv

LEMMA PoolInvStep ==
  ASSUME PoolInv, [Next]_vars
  PROVE  PoolInv'
<1>1. CASE MainStep
  BY <1>1, InsertStep, MainStops DEF MainStep, Submit
<1>2. CASE BackupStep
  BY <1>2, BackupTakes, BackupHandsOn DEF BackupStep
<1>3. CASE WorkerTop \/ WorkerTake \/ WorkerWrite
  BY <1>3, WorkerTops, WorkerTakes, WorkerWrites
<1>4. CASE WorkerRead \/ WorkerAdd \/ WorkerPrint \/ WorkerSettle \/ WorkerSettleNothing
  <2>1. Publishes
    BY <1>4, WorkerPublishes
  <2> QED BY <2>1, Completes DEF Publishes
<1>5. CASE UNCHANGED vars
  BY <1>5 DEF vars, PoolInv, TypeOK, Counted, Ordered, Ring, Held, Stopping, Answered,
              Looked, Taken, NullSent, NullPassed, NullReached
<1> QED BY <1>1, <1>2, <1>3, <1>4, <1>5 DEF Next, WorkerStep

LEMMA PoolSafe == Spec => []PoolInv
<1>1. Init => PoolInv
  BY PoolInvInit
<1>2. PoolInv /\ [Next]_vars => PoolInv'
  BY PoolInvStep
<1> QED BY <1>1, <1>2, PTL DEF Spec

-----------------------------------------------------------------------------
(* The theorems about the ring.                                            *)

\* The pool keeps its types: in particular neither semaphore falls below zero,
\* and a query is always one that was submitted.
THEOREM PoolTyped == Spec => []TypeOK
<1>1. PoolInv => TypeOK
  BY DEF PoolInv
<1> QED BY <1>1, PoolSafe, PTL

\* No two threads ever use a slot of the ring at the same time, as long as
\* fewer queries are outstanding than there are slots.
THEOREM SlotsExclusive == Spec => []SlotsNotShared
<1>1. ASSUME PoolInv PROVE SlotsNotShared
  <2>1. aQueries[Slot(Len(queries))] = 0
    BY <1>1, NextSlotEmpty
  <2>2. ASSUME backup.pc = "look" PROVE aQueries[Slot(backup.job)] = backup.query
    <3>1. backup.query = backup.job + 1
      BY <1>1, <2>2 DEF PoolInv, Held
    <3>2. /\ backup.query \in 1 .. Len(queries) /\ backup.query > Taken
          /\ backup.query - 1 = backup.job
      BY <1>1, <2>2, <3>1, Numbers DEF PoolInv, Ordered, Looked
    <3> QED BY <1>1, <3>2 DEF PoolInv, Ring
  <2>3. ASSUME worker.pc \in {"run", "settle"}, backup.pc = "look"
        PROVE  worker.query < backup.query
    <3>1. worker.query = worker.job + 1 /\ backup.query = backup.job + 1
      BY <1>1, <2>3 DEF PoolInv, Held
    <3>2. Taken = worker.job + 1
      BY <2>3 DEF Taken
    <3> QED BY <1>1, <3>1, <3>2, Numbers DEF PoolInv, Ordered
  <2> QED BY <2>1, <2>2, <2>3 DEF SlotsNotShared
<1> QED BY <1>1, PoolSafe, PTL

\* The workers stop only during the shutdown and with all queries answered.
THEOREM WorkersStopLast == Spec => []StopsLast
<1>1. ASSUME PoolInv PROVE StopsLast
  <2>1. ASSUME worker.pc = "exited", NEW q \in 1 .. Len(queries)
        PROVE  answers[q] # "pending"
    <3>1. ~ (q > worker.job)
      BY <1>1, <2>1, Numbers DEF PoolInv, Stopping
    <3> QED BY <1>1, <3>1 DEF PoolInv, Answered
  <2> QED BY <1>1, <2>1 DEF StopsLast, PoolInv, Stopping
<1> QED BY <1>1, PoolSafe, PTL

-----------------------------------------------------------------------------
(* The refinement.                                                         *)

LEMMA PublishAnswers ==
  ASSUME PoolInv, Publishes
  PROVE  Queue!Answer
<1>1. worker.query = worker.job + 1 /\ Taken = worker.job + 1
  BY DEF PoolInv, Held, Publishes, Taken
<1>2. worker.query \in 1 .. Len(queries) /\ Len(answers) = Len(queries)
  BY <1>1, Numbers DEF PoolInv, Ordered, Looked
<1>3. \A q \in 1 .. Len(queries) : answers[q] = "pending" <=> q > worker.job
  BY DEF PoolInv, Answered
<1>4. worker.query \in Queue!Pending
  BY <1>1, <1>2, <1>3, Numbers DEF Queue!Pending
<1>5. \A j \in Queue!Pending : worker.query <= j
  BY <1>1, <1>2, <1>3, Numbers DEF Queue!Pending
<1>6. UNCHANGED Door
  BY DEF Publishes, Door
<1>7. PICK a \in {"ok", "failed"} : answers' = [answers EXCEPT ![worker.query] = a]
  BY DEF Publishes
<1> QED BY <1>4, <1>5, <1>6, <1>7 DEF Queue!Answer

LEMMA StepImplements ==
  ASSUME PoolInv, [Next]_vars
  PROVE  [Queue!Next]_Queue!vars
<1>1. CASE \E kind \in Kinds : Submit(kind)
  <2>1. Queue!Submit
    BY <1>1 DEF Submit, Insert, Queue!Submit, Door
  <2> QED BY <2>1 DEF Queue!Next
<1>2. CASE OnShutdown
  <2>1. Queue!Close
    BY <1>2 DEF OnShutdown, Queue!Close, Door
  <2> QED BY <2>1 DEF Queue!Next
<1>3. CASE ShutdownDone
  BY <1>3 DEF ShutdownDone, Queue!vars, Door
<1>4. CASE BackupStep \/ WorkerTop \/ WorkerWrite
  <2>1. UNCHANGED <<answers, main, shutdown>>
    BY <1>4 DEF BackupStep, BackupTake, BackupWrite, BackupSkip, WorkerTop, WorkerWrite
  <2> QED BY <2>1 DEF Queue!vars, Door
<1>5. CASE WorkerTake
  <2> DEFINE q == aQueries[Slot(worker.job)]
  <2>1. CASE q = 0
    <3>1. worker.pc = "wait" /\ UNCHANGED <<answers, main>> /\ shutdown' = FALSE
      BY <1>5, <2>1 DEF WorkerTake
    <3>2. worker.job = Len(queries) /\ backup.pc = "exited"
      BY <1>5, <2>1, WorkerReads, Numbers
    <3>3. main = "stopping" /\ shutdown
      BY <3>1, <3>2 DEF PoolInv, TypeOK, Stopping
    <3>4. Queue!Pending = {}
      BY <3>2, Numbers DEF Queue!Pending, PoolInv, Answered
    <3>5. Queue!Closed
      BY <3>1, <3>3, <3>4 DEF Queue!Closed, Door
    <3> QED BY <3>5 DEF Queue!Next
  <2>2. CASE q # 0
    BY <1>5, <2>2 DEF WorkerTake, Queue!vars, Door
  <2> QED BY <2>1, <2>2
<1>6. CASE WorkerRead \/ WorkerAdd \/ WorkerPrint \/ WorkerSettle \/ WorkerSettleNothing
  BY <1>6, WorkerPublishes, PublishAnswers DEF Queue!Next
<1>7. CASE UNCHANGED vars
  BY <1>7 DEF vars, Queue!vars, Door
<1> QED BY <1>1, <1>2, <1>3, <1>4, <1>5, <1>6, <1>7 DEF Next, MainStep, WorkerStep

\* The pool answers its queries each once and in order, and reports the end of
\* the shutdown only when all are answered: it implements JobQueue, for every
\* size of the ring.
THEOREM PoolImplementsQueue == Spec => ImplementsJobQueue
<1>1. Init => Queue!Init
  BY DEF Init, Queue!Init, Door
<1>2. PoolInv /\ [Next]_vars => [Queue!Next]_Queue!vars
  BY StepImplements
<1> QED BY <1>1, <1>2, PoolSafe, PTL DEF Spec, ImplementsJobQueue, Queue!Spec

-----------------------------------------------------------------------------
(* The ranks.                                                              *)

\* A copy stays in the backup table until the worker settles it, and a write
\* that has succeeded is in the write database.
RankInv ==
  /\ \A q : Kept(q) => q \in 1 .. Len(queries)
  /\ \A q : Kept(q) /\ q > worker.job => q \in rows.backup
  /\ worker.pc = "settle" /\ worker.success => worker.query \in rows.write
  /\ RankKept
  /\ AnswerIsTrue

\* What the settling of a write may do to the tables.
LEMMA SettleEffect ==
  ASSUME PoolInv, NEW o \in SettleOutcomes
  PROVE  /\ o.rows.write = rows.write
         /\ rows.moved \subseteq o.rows.moved
         /\ rows.backup \ {worker.query} \subseteq o.rows.backup
         /\ ~ worker.success /\ ~ o.ok => rows.backup \subseteq o.rows.backup
<1> DEFINE q0 == worker.query
<1>1. rows \in RowsType
  BY Records
<1>2. \A c \in RowsType : /\ Removed(c, q0).write = c.write
                          /\ Removed(c, q0).moved = c.moved
                          /\ Removed(c, q0).backup = c.backup \ {q0}
  BY DEF Removed, RowsType
<1>3. /\ Copied(rows, q0) \in RowsType /\ Copied(rows, q0).write = rows.write
      /\ Copied(rows, q0).backup = rows.backup
      /\ rows.moved \subseteq Copied(rows, q0).moved
  BY <1>1, Records DEF Copied, RowsType
<1>4. \A c, ok : Outcome(ok, c).rows = c /\ Outcome(ok, c).ok = ok
  BY DEF Outcome
<1>5. CASE worker.success
  <2>1. \/ o = Outcome(TRUE, Removed(rows, q0))
        \/ o = Outcome(TRUE, rows) \/ o = Outcome(FALSE, rows)
    BY <1>5 DEF SettleOutcomes, NormalSucceeded
  <2>2. o.rows = rows \/ o.rows = Removed(rows, q0)
    BY <1>4, <2>1
  <2> QED BY <1>1, <1>2, <1>5, <2>2
<1>6. CASE ~ worker.success
  <2>1. PICK c \in {rows, Copied(rows, q0)} :
          \/ o = Outcome(FALSE, c) \/ o = Outcome(TRUE, c) \/ o = Outcome(TRUE, Removed(c, q0))
    BY <1>6 DEF SettleOutcomes, NormalFailed
  <2>2. /\ c \in RowsType /\ c.write = rows.write /\ c.backup = rows.backup
        /\ rows.moved \subseteq c.moved
    BY <1>1, <1>3
  <2>3. CASE o = Outcome(FALSE, c) \/ o = Outcome(TRUE, c)
    <3>1. o.rows = c
      BY <1>4, <2>3
    <3> QED BY <2>2, <3>1
  <2>4. CASE o = Outcome(TRUE, Removed(c, q0))
    <3>1. o.rows = Removed(c, q0) /\ o.ok = TRUE
      BY <1>4, <2>4
    <3>2. /\ o.rows.write = c.write /\ o.rows.moved = c.moved
          /\ o.rows.backup = c.backup \ {q0}
      BY <1>2, <2>2, <3>1
    <3> QED BY <2>2, <3>1, <3>2
  <2> QED BY <2>1, <2>3, <2>4
<1> QED BY <1>5, <1>6

\* Nothing is lost by a step that leaves the tables and the answers alone.
LEMMA RanksStill ==
  ASSUME PoolInv, RankInv, worker'.job = worker.job,
         worker'.pc = "settle" => worker.pc = "settle" /\ UNCHANGED worker,
         UNCHANGED <<queries, answers, rows, reported, silent>>
  PROVE  RankInv'
BY DEF RankInv, Kept, RankKept, AnswerIsTrue

LEMMA RanksInsert ==
  ASSUME PoolInv, RankInv, NEW kind \in Kinds, Insert(kind)
  PROVE  RankInv'
<1> DEFINE n == Len(queries)
<1>1. /\ queries \in Seq(Queries) /\ answers \in Seq({"pending", "ok", "failed"})
      /\ Len(answers) = n /\ n \in Nat /\ kind \in Queries
  BY Numbers, PoolAssumption DEF PoolInv, TypeOK
<1>2. /\ Len(queries') = n + 1
      /\ \A q \in 1 .. n : queries'[q] = queries[q] /\ answers'[q] = answers[q]
  BY <1>1, AppendProperties DEF Insert
<1>3. UNCHANGED <<rows, reported, silent, worker>>
  BY DEF Insert
<1>4. \A q : Kept(q)' <=> Kept(q)
  BY <1>3 DEF Kept
<1>5. \A q \in 1 .. n + 1 : Kept(q) => q \in 1 .. n
  BY DEF RankInv
<1>6. RankKept' /\ AnswerIsTrue'
  BY <1>2, <1>3, <1>4, <1>5 DEF RankInv, RankKept, AnswerIsTrue
<1>7. 1 .. n \subseteq 1 .. n + 1
  BY <1>1
<1> QED BY <1>2, <1>3, <1>4, <1>6, <1>7 DEF RankInv

LEMMA RanksBackup ==
  ASSUME PoolInv, RankInv, BackupWrite
  PROVE  RankInv'
<1> DEFINE q0 == backup.query
<1>1. PICK o \in BackupFirst(rows, q0) :
        /\ rows' = o.rows
        /\ reported' = reported \cup (IF o.ok THEN {<<"BACKUP_FIRST", q0>>} ELSE {})
  BY DEF BackupWrite
<1>2. UNCHANGED <<queries, answers, worker, silent>> /\ backup.pc = "look"
  BY DEF BackupWrite
<1>3. q0 \in 1 .. Len(queries)
  BY <1>2, Numbers DEF PoolInv, Held, Ordered, Looked
<1>4. /\ rows'.write = rows.write /\ rows'.moved = rows.moved
      /\ rows.backup \subseteq rows'.backup
      /\ o.ok => q0 \in rows'.backup
  <2>1. /\ Stored(rows, "backup", q0).write = rows.write
        /\ Stored(rows, "backup", q0).moved = rows.moved
        /\ Stored(rows, "backup", q0).backup = rows.backup \cup {q0}
    BY Records DEF Stored, RowsType
  <2>2. o = Outcome(TRUE, Stored(rows, "backup", q0)) \/ o = Outcome(FALSE, rows)
    BY <1>1 DEF BackupFirst
  <2>3. \/ o.ok = TRUE /\ o.rows = Stored(rows, "backup", q0)
        \/ o.ok = FALSE /\ o.rows = rows
    BY <2>2 DEF Outcome
  <2> QED BY <1>1, <2>1, <2>3
<1>5. \A q : Kept(q)' => Kept(q) \/ (q = q0 /\ q \in rows'.backup)
  BY <1>1, <1>4 DEF Kept
<1>6. answers[q0] = "pending"
  <2>1. q0 > worker.job
    BY <1>2, Numbers DEF PoolInv, Held, Ordered
  <2> QED BY <1>3, <2>1 DEF PoolInv, Answered
<1>7. RankKept'
  BY <1>2, <1>4, <1>5 DEF RankInv, RankKept
<1>8. AnswerIsTrue'
  BY <1>2, <1>4, <1>5, <1>6 DEF RankInv, AnswerIsTrue
<1> QED BY <1>2, <1>3, <1>4, <1>5, <1>7, <1>8 DEF RankInv

LEMMA RanksWrite ==
  ASSUME PoolInv, RankInv, WorkerWrite
  PROVE  RankInv'
<1> DEFINE q0 == worker.query
<1>1. PICK o \in FirstOutcomes :
        /\ rows' = o.rows
        /\ worker' = [worker EXCEPT !.pc = "settle", !.success = o.ok,
                                    !.failMode = @ \/ ~ o.ok]
        /\ reported' = reported \cup (IF o.ok THEN {<<"NORMAL", q0>>} ELSE {})
  BY DEF WorkerWrite
<1>2. UNCHANGED <<queries, answers, silent>>
  BY DEF WorkerWrite
<1>3. worker'.job = worker.job /\ worker'.query = q0 /\ worker'.success = o.ok
  BY <1>1, Records DEF WorkerType
<1>4. /\ rows.write \subseteq rows'.write /\ rows'.moved = rows.moved
      /\ rows'.backup = rows.backup
      /\ o.ok => q0 \in rows'.write
  <2>1. /\ Stored(rows, "write", q0).write = rows.write \cup {q0}
        /\ Stored(rows, "write", q0).moved = rows.moved
        /\ Stored(rows, "write", q0).backup = rows.backup
    BY Records DEF Stored, RowsType
  <2>2. \/ o = Outcome(TRUE, Stored(rows, "write", q0)) \/ o = Outcome(FALSE, rows)
        \/ o = Outcome(FALSE, Stored(rows, "write", q0))
    BY <1>1 DEF FirstOutcomes, Normal
  <2>3. \/ o.rows = Stored(rows, "write", q0)
        \/ o.ok = FALSE /\ o.rows = rows
    BY <2>2 DEF Outcome
  <2> QED BY <1>1, <2>1, <2>3
<1>5. \A q : Kept(q)' => Kept(q)
  BY <1>1 DEF Kept
<1> QED BY <1>2, <1>3, <1>4, <1>5 DEF RankInv, RankKept, AnswerIsTrue

\* What an answer is worth when the worker publishes it.
LEMMA RanksPublish ==
  ASSUME PoolInv, RankInv, Publishes,
         \A q : Kept(q)' => Kept(q),
         rows.write \subseteq rows'.write, rows.moved \subseteq rows'.moved,
         silent \subseteq silent',
         rows.backup \ {worker.query} \subseteq rows'.backup,
         Kept(worker.query) =>
           /\ worker.query \in rows'.write \cup rows'.backup \cup rows'.moved \cup silent'
           /\ answers'[worker.query] = "failed" => worker.query \in rows'.backup
           /\ answers'[worker.query] = "ok" /\ queries[worker.query] = "SaveScore"
                => worker.query \in rows'.write \cup rows'.moved \cup silent'
  PROVE  RankInv'
<1> DEFINE n == Len(queries)
           q0 == worker.query
<1>1. q0 = worker.job + 1 /\ worker'.job = worker.job + 1 /\ worker'.pc = "top"
      /\ queries' = queries
  BY DEF PoolInv, Held, Publishes
<1>2. \A q \in 1 .. n : q # q0 => answers'[q] = answers[q]
  BY Numbers DEF Publishes, PoolInv, TypeOK
<1>3. \A q : Kept(q)' /\ q > worker.job + 1 => q \in rows'.backup
  <2>1. ASSUME NEW q, Kept(q)', q > worker.job + 1 PROVE q \in rows'.backup
    <3>1. q \in 1 .. n
      BY <2>1 DEF RankInv
    <3>2. q # q0 /\ q > worker.job
      BY <1>1, <2>1, <3>1, Numbers
    <3> QED BY <2>1, <3>2 DEF RankInv
  <2> QED BY <2>1
<1>4. RankKept'
  <2>1. ASSUME NEW q \in 1 .. n, Kept(q)'
        PROVE  q \in rows'.write \cup rows'.backup \cup rows'.moved \cup silent'
    BY <2>1 DEF RankInv, RankKept
  <2> QED BY <1>1, <2>1 DEF RankKept
<1>5. AnswerIsTrue'
  <2>1. ASSUME NEW q \in 1 .. n, Kept(q)'
        PROVE  /\ answers'[q] = "failed" => q \in rows'.backup
               /\ answers'[q] = "ok" /\ queries[q] = "SaveScore"
                    => q \in rows'.write \cup rows'.moved \cup silent'
    <3>1. CASE q = q0
      BY <2>1, <3>1
    <3>2. CASE q # q0
      BY <1>2, <2>1, <3>2 DEF RankInv, AnswerIsTrue
    <3> QED BY <3>1, <3>2
  <2> QED BY <1>1, <2>1 DEF AnswerIsTrue
<1> QED BY <1>1, <1>3, <1>4, <1>5 DEF RankInv

\* The answer a completed query gets.
LEMMA CompleteAnswer ==
  ASSUME PoolInv, worker.pc \in {"run", "settle"}, NEW ok \in BOOLEAN, NEW next, Complete(ok, next)
  PROVE  answers'[worker.query] = IF ok THEN "ok" ELSE "failed"
<1>1. worker.query = worker.job + 1 /\ Taken = worker.job + 1
  BY DEF PoolInv, Held, Taken
<1>2. worker.query \in 1 .. Len(answers)
  BY <1>1, Numbers DEF PoolInv, Ordered, Looked
<1>3. answers \in Seq({"pending", "ok", "failed"})
  BY DEF PoolInv, TypeOK
<1> QED BY <1>2, <1>3 DEF Complete

LEMMA RanksRun ==
  ASSUME PoolInv, RankInv, WorkerRead \/ WorkerAdd \/ WorkerPrint
  PROVE  RankInv'
<1>1. Publishes
  BY WorkerPublishes
<1>2. UNCHANGED <<rows, reported, silent>> /\ queries[worker.query] # "SaveScore"
  BY DEF WorkerRead, WorkerAdd, WorkerPrint, Kind, Adds
<1>3. worker.query > worker.job
  BY <1>1, Numbers DEF Publishes, PoolInv, Held
<1>4. Kept(worker.query) => worker.query \in rows.backup
  BY <1>3 DEF RankInv
<1>5. \A q : Kept(q)' => Kept(q)
  BY <1>2 DEF Kept
<1> QED BY <1>1, <1>2, <1>4, <1>5, RanksPublish

LEMMA RanksSettleNothing ==
  ASSUME PoolInv, RankInv, WorkerSettleNothing
  PROVE  RankInv'
<1>1. Publishes
  BY WorkerPublishes
<1>2. /\ UNCHANGED <<rows, reported, silent>> /\ worker.pc = "settle"
      /\ Complete(worker.success, worker)
  BY DEF WorkerSettleNothing
<1>3. worker.query > worker.job
  BY <1>1, Numbers DEF Publishes, PoolInv, Held
<1>4. Kept(worker.query) => worker.query \in rows.backup
  BY <1>3 DEF RankInv
<1>5. \A q : Kept(q)' => Kept(q)
  BY <1>2 DEF Kept
<1>6. answers'[worker.query] = IF worker.success THEN "ok" ELSE "failed"
  BY <1>2, CompleteAnswer, Records DEF WorkerType
<1>7. worker.success => worker.query \in rows.write
  BY <1>2 DEF RankInv
<1> QED BY <1>1, <1>2, <1>4, <1>5, <1>6, <1>7, RanksPublish

LEMMA RanksSettle ==
  ASSUME PoolInv, RankInv, WorkerSettle
  PROVE  RankInv'
<1> DEFINE q0 == worker.query
<1>1. Publishes
  BY WorkerPublishes
<1>2. PICK o \in SettleOutcomes :
        /\ rows' = o.rows
        /\ Complete(worker.success \/ o.ok, worker)
        /\ reported' = reported \cup (IF o.ok THEN {<<SettleMode, q0>>} ELSE {})
        /\ silent' = silent \cup
             (IF /\ ~ worker.success /\ o.ok
                 /\ q0 \in rows.backup \ o.rows.moved
              THEN {q0} ELSE {})
  BY DEF WorkerSettle
<1>3. worker.pc = "settle" /\ worker.success \in BOOLEAN /\ o.ok \in BOOLEAN
  BY SettleRows, Records DEF WorkerSettle, WorkerType
<1>4. /\ rows'.write = rows.write /\ rows.moved \subseteq rows'.moved
      /\ rows.backup \ {q0} \subseteq rows'.backup
      /\ ~ worker.success /\ ~ o.ok => rows.backup \subseteq rows'.backup
  BY <1>2, SettleEffect
<1>5. Kept(q0) => q0 \in rows.backup
  <2>1. q0 > worker.job
    BY <1>1, Numbers DEF Publishes, PoolInv, Held
  <2> QED BY <2>1 DEF RankInv
<1>6. worker.success => q0 \in rows.write
  BY <1>3 DEF RankInv
<1>7. answers'[q0] = IF worker.success \/ o.ok THEN "ok" ELSE "failed"
  BY <1>2, <1>3, CompleteAnswer
<1>8. silent \subseteq silent'
  BY <1>2
<1>9. ~ worker.success /\ o.ok /\ Kept(q0) => q0 \in rows'.moved \cup silent'
  BY <1>2, <1>5
<1>10. \A q : Kept(q)' => Kept(q)
  <2>1. SettleMode # "BACKUP_FIRST"
    BY DEF SettleMode
  <2> QED BY <1>2, <2>1 DEF Kept
<1>11. Kept(q0) =>
         /\ q0 \in rows'.write \cup rows'.backup \cup rows'.moved \cup silent'
         /\ answers'[q0] = "failed" => q0 \in rows'.backup
         /\ answers'[q0] = "ok" /\ queries[q0] = "SaveScore"
              => q0 \in rows'.write \cup rows'.moved \cup silent'
  BY <1>3, <1>4, <1>5, <1>6, <1>7, <1>9
<1> QED BY <1>1, <1>4, <1>8, <1>10, <1>11, RanksPublish

LEMMA RankInvStep ==
  ASSUME PoolInv, RankInv, [Next]_vars
  PROVE  RankInv'
<1>1. CASE \E kind \in Kinds : Submit(kind)
  BY <1>1, RanksInsert DEF Submit
<1>2. CASE OnShutdown \/ ShutdownDone \/ BackupTake \/ BackupSkip
  <2>1. UNCHANGED <<queries, answers, rows, reported, silent, worker>>
    BY <1>2 DEF OnShutdown, ShutdownDone, BackupTake, BackupSkip
  <2> QED BY <2>1, RanksStill
<1>3. CASE WorkerTop \/ WorkerTake
  <2>1. UNCHANGED <<queries, answers, rows, reported, silent>>
    BY <1>3 DEF WorkerTop, WorkerTake
  <2>2. worker'.job = worker.job /\ worker'.pc # "settle"
    BY <1>3, Records DEF WorkerTop, WorkerTake, WorkerType
  <2> QED BY <2>1, <2>2, RanksStill
<1>4. CASE BackupWrite \/ WorkerWrite
  BY <1>4, RanksBackup, RanksWrite
<1>5. CASE WorkerRead \/ WorkerAdd \/ WorkerPrint
  BY <1>5, RanksRun
<1>6. CASE WorkerSettle \/ WorkerSettleNothing
  BY <1>6, RanksSettle, RanksSettleNothing
<1>7. CASE UNCHANGED vars
  <2>1. UNCHANGED <<queries, answers, rows, reported, silent, worker>>
    BY <1>7 DEF vars
  <2> QED BY <2>1, RanksStill
<1> QED BY <1>1, <1>2, <1>3, <1>4, <1>5, <1>6, <1>7
        DEF Next, MainStep, BackupStep, WorkerStep

LEMMA RanksSafe == Spec => []RankInv
<1>1. Init => RankInv
  <2>1. ASSUME Init PROVE RankInv
    <3>1. /\ \A q : ~ Kept(q)
          /\ worker.pc = "top"
      BY <2>1 DEF Init, Kept
    <3> QED BY <3>1 DEF RankInv, RankKept, AnswerIsTrue
  <2> QED BY <2>1
<1>2. PoolInv /\ RankInv /\ [Next]_vars => RankInv'
  BY RankInvStep
<1> QED BY <1>1, <1>2, PoolSafe, PTL DEF Spec

\* No rank that reached the backup table is ever in no table, but for a copy
\* that SaveScore did not notice to fail: for every sequence of queries, every
\* failure of the databases and at every moment of a shutdown.
THEOREM RanksNotLost == Spec => []RankKept
<1>1. RankInv => RankKept
  BY DEF RankInv
<1> QED BY <1>1, RanksSafe, PTL

\* A failed write is still in the backup table, and a score reported as saved is
\* where it counts, with the same exception.
THEOREM AnswersTrue == Spec => []AnswerIsTrue
<1>1. RankInv => AnswerIsTrue
  BY DEF RankInv
<1> QED BY <1>1, RanksSafe, PTL
-----------------------------------------------------------------------------
(* Progress.                                                               *)

\* A thread that is not waiting on its semaphore, or that need not wait there,
\* has a step to take.
BackupGoesOn == backup.pc = "look" \/ (backup.pc = "wait" /\ numBackup > 0)
WorkerGoesOn == worker.pc \in {"top", "run", "settle"}
                \/ (worker.pc = "wait" /\ numWorker > 0)

\* While a query has no answer, or the shutdown waits for its end, one of the
\* two threads has a step to take.
NeverStuck ==
  \/ \E q \in 1 .. Len(queries) : answers[q] = "pending"
  \/ main = "stopping" /\ shutdown
  => BackupGoesOn \/ WorkerGoesOn

\* The steps the two threads have still to take: for each query two of the
\* backup worker and at most four of the worker, and the end of both.
BackupLeft == 2 * (Len(queries) - backup.job)
              + (IF backup.pc = "wait" THEN 1 ELSE 0)
WorkerLeft == 4 * (Len(queries) - worker.job)
              + (CASE worker.pc = "top"    -> 2
                   [] worker.pc = "wait"   -> 1
                   [] worker.pc = "run"    -> 0
                   [] worker.pc = "settle" -> -1
                   [] OTHER                -> 0)
StepsLeft == BackupLeft + WorkerLeft

\* Every step of a thread is one step less, and only a new query is more.
StepsRunOut ==
  [][/\ StepsLeft \in Nat
     /\ BackupStep \/ WorkerStep => StepsLeft' < StepsLeft
     /\ queries' = queries => StepsLeft' <= StepsLeft]_vars

\* The pool never stops half way: while a query has no answer, or OnShutdown
\* waits, the semaphores do not leave both threads asleep.
THEOREM PoolNeverStuck == Spec => []NeverStuck
<1>1. PoolInv => NeverStuck
  <2> SUFFICES ASSUME PoolInv, ~ BackupGoesOn, ~ WorkerGoesOn
               PROVE  /\ ~ \E q \in 1 .. Len(queries) : answers[q] = "pending"
                      /\ ~ (main = "stopping" /\ shutdown)
    BY DEF NeverStuck
  <2>1. /\ backup.pc = "exited" \/ (backup.pc = "wait" /\ numBackup = 0)
        /\ worker.pc = "exited" \/ (worker.pc = "wait" /\ numWorker = 0)
    BY Numbers, Records DEF BackupGoesOn, WorkerGoesOn, BackupType, WorkerType
  <2>2. worker.job = Len(queries) /\ ~ (main = "stopping" /\ shutdown)
    <3>1. CASE worker.pc = "exited"
      BY <3>1 DEF PoolInv, Stopping
    <3>2. CASE worker.pc = "wait" /\ numWorker = 0
      <4>1. Taken = worker.job /\ NullReached = 0
        BY <3>2, Numbers DEF Taken, NullReached
      <4>2. backup.job = worker.job /\ NullPassed = 0
        BY <3>2, <4>1, Numbers DEF PoolInv, Counted, Ordered
      <4>3. backup.pc = "wait" /\ numBackup = 0 /\ Looked = backup.job
        BY <2>1, <4>2, Numbers DEF NullPassed, Looked
      <4>4. Len(queries) = backup.job /\ NullSent = 0
        BY <4>2, <4>3, Numbers DEF PoolInv, Counted, Ordered
      <4>5. main = "running"
        BY <4>4 DEF NullSent
      <4> QED BY <4>2, <4>4, <4>5
    <3> QED BY <2>1, <3>1, <3>2
  <2>3. \A q \in 1 .. Len(queries) : ~ (q > worker.job)
    BY <2>2, Numbers
  <2> QED BY <2>2, <2>3 DEF PoolInv, Answered
<1> QED BY <1>1, PoolSafe, PTL

\* What is left is a natural number.
LEMMA StepsLeftNat ==
  ASSUME PoolInv
  PROVE  BackupLeft \in Nat /\ WorkerLeft \in Nat
<1>1. /\ backup.job \in Nat /\ worker.job \in Nat /\ Len(queries) \in Nat
      /\ backup.job <= Len(queries)
      /\ worker.job + (IF worker.pc \in {"run", "settle"} THEN 1 ELSE 0) <= Len(queries)
  BY Numbers DEF PoolInv, Ordered, Looked, Taken
<1>2. BackupLeft \in Nat
  BY <1>1 DEF BackupLeft
<1>3. WorkerLeft \in Nat
  BY <1>1 DEF WorkerLeft
<1> QED BY <1>2, <1>3

\* A step of the backup worker is one less for it.
LEMMA BackupStepLess ==
  ASSUME PoolInv, BackupStep
  PROVE  /\ BackupLeft' < BackupLeft /\ BackupLeft' \in Int
         /\ WorkerLeft' = WorkerLeft /\ queries' = queries
<1>1. /\ backup \in BackupType /\ backup.job \in Nat /\ Len(queries) \in Nat
      /\ worker' = worker /\ queries' = queries
  BY Records, Numbers DEF BackupStep, BackupTake, BackupWrite, BackupSkip
<1>2. CASE BackupTake
  <2> DEFINE q == aQueries[Slot(backup.job)]
  <2>1. /\ backup.pc = "wait"
        /\ \/ backup' = [backup EXCEPT !.pc = "exited"]
           \/ backup' = [backup EXCEPT !.pc = "look", !.query = q]
    BY <1>2 DEF BackupTake
  <2> HIDE DEF q
  <2>2. backup'.pc \in {"exited", "look"} /\ backup'.job = backup.job
    BY <1>1, <2>1 DEF BackupType
  <2> QED BY <1>1, <2>1, <2>2 DEF BackupLeft, WorkerLeft
<1>3. CASE BackupWrite \/ BackupSkip
  <2>1. backup.pc = "look" /\ \E b : HandOn(b)
    BY <1>3 DEF BackupWrite, BackupSkip
  <2>2. backup'.pc = "wait" /\ backup'.job = backup.job + 1
    BY <1>1, <2>1 DEF HandOn, BackupType
  <2> QED BY <1>1, <2>1, <2>2 DEF BackupLeft, WorkerLeft
<1> QED BY <1>2, <1>3 DEF BackupStep

\* A step of the worker is one less for it, an answer two or more.
LEMMA WorkerStepLess ==
  ASSUME PoolInv, WorkerStep
  PROVE  /\ WorkerLeft' < WorkerLeft /\ WorkerLeft' \in Int
         /\ BackupLeft' = BackupLeft /\ queries' = queries
<1>1. /\ worker \in WorkerType /\ worker.job \in Nat /\ Len(queries) \in Nat
      /\ backup' = backup /\ queries' = queries
  BY Records, Numbers
     DEF WorkerStep, WorkerTop, WorkerTake, WorkerRead, WorkerWrite, WorkerAdd,
         WorkerPrint, WorkerSettle, WorkerSettleNothing
<1>2. CASE WorkerTop
  BY <1>1, <1>2 DEF WorkerTop, WorkerLeft, BackupLeft, WorkerType
<1>3. CASE WorkerTake
  <2> DEFINE q == aQueries[Slot(worker.job)]
  <2>1. /\ worker.pc = "wait"
        /\ \/ worker' = [worker EXCEPT !.pc = "exited"]
           \/ worker' = [worker EXCEPT !.pc = "run", !.query = q]
    BY <1>3 DEF WorkerTake
  <2> HIDE DEF q
  <2>2. worker'.pc \in {"exited", "run"} /\ worker'.job = worker.job
    BY <1>1, <2>1 DEF WorkerType
  <2> QED BY <1>1, <2>1, <2>2 DEF BackupLeft, WorkerLeft
<1>4. CASE WorkerWrite
  BY <1>1, <1>4 DEF WorkerWrite, WorkerLeft, BackupLeft, WorkerType
<1>5. CASE \/ WorkerRead \/ WorkerAdd \/ WorkerPrint \/ WorkerSettle
           \/ WorkerSettleNothing
  <2>1. worker.pc \in {"run", "settle"}
    BY <1>5 DEF WorkerRead, WorkerAdd, WorkerPrint, WorkerSettle,
                WorkerSettleNothing
  <2>2. worker'.pc = "top" /\ worker'.job = worker.job + 1
    BY <1>1, <1>5 DEF WorkerRead, WorkerAdd, WorkerPrint, WorkerSettle,
                      WorkerSettleNothing, Complete, WorkerType
  <2> QED BY <1>1, <2>1, <2>2 DEF WorkerLeft, BackupLeft
<1> QED BY <1>2, <1>3, <1>4, <1>5 DEF WorkerStep

\* The threads take finitely many steps between two queries, whatever the
\* databases answer.  With PoolNeverStuck and the fairness of the threads this
\* is why every query is answered and every shutdown ends.
THEOREM PoolRunsDown == Spec => StepsRunOut
<1>1. PoolInv /\ PoolInv' /\ [Next]_vars =>
        [/\ StepsLeft \in Nat
         /\ BackupStep \/ WorkerStep => StepsLeft' < StepsLeft
         /\ queries' = queries => StepsLeft' <= StepsLeft]_vars
  <2> SUFFICES ASSUME PoolInv, Next
               PROVE  /\ StepsLeft \in Nat
                      /\ BackupStep \/ WorkerStep => StepsLeft' < StepsLeft
                      /\ queries' = queries => StepsLeft' <= StepsLeft
    OBVIOUS
  <2>1. BackupLeft \in Nat /\ WorkerLeft \in Nat /\ StepsLeft \in Nat
    BY StepsLeftNat DEF StepsLeft
  <2>2. ASSUME BackupStep \/ WorkerStep PROVE StepsLeft' < StepsLeft
    BY <2>1, <2>2, BackupStepLess, WorkerStepLess DEF StepsLeft
  <2>3. StepsLeft' \in Int \/ MainStep
    BY <2>1, BackupStepLess, WorkerStepLess DEF StepsLeft, Next
  <2>4. CASE MainStep
    <3>1. ASSUME NEW kind \in Kinds, Submit(kind) PROVE queries' # queries
      <4>1. queries \in Seq(Queries) /\ queries' = Append(queries, kind)
        BY <3>1 DEF PoolInv, TypeOK, Submit, Insert
      <4>2. Len(queries') = Len(queries) + 1 /\ Len(queries) \in Nat
        BY <4>1
      <4> QED BY <4>2
    <3>2. ASSUME OnShutdown \/ ShutdownDone PROVE StepsLeft' = StepsLeft
      BY <3>2 DEF OnShutdown, ShutdownDone, StepsLeft, BackupLeft, WorkerLeft
    <3>3. ASSUME queries' = queries PROVE StepsLeft' <= StepsLeft
      BY <2>1, <2>4, <3>1, <3>2, <3>3 DEF MainStep
    <3> QED BY <2>1, <2>2, <3>3
  <2> QED BY <2>1, <2>2, <2>3, <2>4 DEF Next
<1> QED BY <1>1, PoolSafe, PTL DEF Spec, StepsRunOut
=============================================================================
