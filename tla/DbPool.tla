------------------------------- MODULE DbPool -------------------------------
(***************************************************************************)
(* The database pool of the server: the main thread puts queries into a    *)
(* ring, the backup worker looks at each of them first and stores writes   *)
(* in the backup table of a local file, then the worker runs it on the     *)
(* database and settles the backup copy.  Two semaphores pass the queries  *)
(* on; a null query in the ring tells both workers to stop.                *)
(*                                                                         *)
(* Query i is the i-th one ever submitted; the ring holds these numbers,   *)
(* with 0 for a null pointer.  Storing a query and signalling it are one   *)
(* step: no worker looks at the slot before it has the signal.             *)
(***************************************************************************)
EXTENDS Integers, Sequences

CONSTANTS
  Size,           \* the number of slots, std::size(m_aQueries)
  Backlog,        \* the most queries that are ever without an answer
  MaxQueries,     \* bound: the most queries ever submitted
  Kinds           \* the kinds of queries submitted

\* SaveScore and SaveTeamScore are the writes the game submits; an Add kind
\* names the mode under which a database is registered.
Writes  == {"SaveScore", "SaveTeamScore"}
Adds    == {"AddRead", "AddWrite", "AddBackup"}
Queries == Writes \cup Adds \cup {"Read", "Print"}

\* The pool never looks whether its ring is full: that Backlog < Size, and that
\* the game keeps to Backlog (FewOutstanding), is assumed of the environment.
ASSUME PoolAssumption ==
  /\ Size \in Nat /\ Backlog \in Nat /\ MaxQueries \in Nat
  /\ Backlog < Size
  /\ Kinds \subseteq Queries

VARIABLES
  queries,        \* the kind of each query submitted so far
  answers,        \* the result the game sees: m_Completed and m_Success
  main,           \* "running", "stopping" in OnShutdown, "stopped" after it
  aQueries,       \* CSharedData::m_aQueries
  numBackup,      \* CSharedData::m_NumBackup
  numWorker,      \* CSharedData::m_NumWorker
  shutdown,       \* CSharedData::m_Shutdown
  backup,         \* CBackup: pc, JobNum, the query it looks at, its connection
  worker,         \* CWorker: pc, JobNum, the query taken, its connections,
                  \* FailMode, and whether the write at hand has succeeded
  rows,           \* the ranks stored: in the write database, in the backup
                  \* table, and in the final table of the backup file
  reported,       \* history: <<w, query>> for calls that returned success
  silent          \* history: ranks not copied by a call that returned success

vars == <<queries, answers, main, aQueries, numBackup, numWorker, shutdown,
          backup, worker, rows, reported, silent>>

Modes == {"BACKUP_FIRST", "NORMAL", "NORMAL_SUCCEEDED", "NORMAL_FAILED"}

TypeOK ==
  /\ queries \in Seq(Queries)
  /\ answers \in Seq({"pending", "ok", "failed"})
  /\ main \in {"running", "stopping", "stopped"}
  /\ aQueries \in [0 .. Size - 1 -> Nat]
  /\ numBackup \in Nat /\ numWorker \in Nat
  /\ shutdown \in BOOLEAN
  /\ backup \in [pc : {"wait", "look", "exited"}, job : Nat, query : Nat,
                 conn : BOOLEAN]
  /\ worker \in [pc : {"top", "wait", "run", "settle", "exited"}, job : Nat,
                 query : Nat, conns : SUBSET Adds, failMode : BOOLEAN,
                 success : BOOLEAN]
  /\ rows \in [{"write", "backup", "moved"} -> SUBSET Nat]
  /\ reported \subseteq Modes \X Nat
  /\ silent \subseteq Nat

-----------------------------------------------------------------------------
(* The calls of ExecSqlFunc: what may become of the rows, and what the call *)
(* returns.  Connecting and preparing may fail, and so may the execution of *)
(* a prepared statement.                                                    *)

Outcome(ok, r) == [ok |-> ok, rows |-> r]

Stored(r, table, q)  == [r EXCEPT ![table] = @ \cup {q}]
Removed(r, q)        == [r EXCEPT !.backup = @ \ {q}]
Copied(r, q)         == [r EXCEPT !.moved = @ \cup ({q} \cap r.backup)]

\* A variant of BackupFirst that takes SQLite's error flag for success.
BackupFirstInverted(r, q) ==
  {Outcome(FALSE, Stored(r, "backup", q)), Outcome(TRUE, r)}

BackupFirst(r, q) == {Outcome(TRUE, Stored(r, "backup", q)), Outcome(FALSE, r)}

\* The answer of the write database may also get lost after the commit.  A team
\* rank counts as stored too when the team already has a better one.
Normal(r, q) == {Outcome(TRUE, Stored(r, "write", q)), Outcome(FALSE, r),
                 Outcome(FALSE, Stored(r, "write", q))}

\* SaveScore ignores the result of its DELETE; SaveTeamScore looks for the id
\* of the team rank where the backup row holds the id of the game.
NormalSucceeded(kind, r, q) ==
  IF kind = "SaveScore"
  THEN {Outcome(TRUE, Removed(r, q)), Outcome(TRUE, r), Outcome(FALSE, r)}
  ELSE {Outcome(TRUE, r), Outcome(FALSE, r)}

\* SaveScore copies and removes, and notices only statements that cannot be
\* prepared; no row matches the statements of SaveTeamScore.
NormalFailed(kind, r, q) ==
  IF kind = "SaveScore"
  THEN UNION {{Outcome(FALSE, c), Outcome(TRUE, c), Outcome(TRUE, Removed(c, q))} :
                c \in {r, Copied(r, q)}}
  ELSE {Outcome(TRUE, r), Outcome(FALSE, r)}

-----------------------------------------------------------------------------
(* The main thread.                                                        *)

Init ==
  /\ queries = <<>> /\ answers = <<>>
  /\ main = "running"
  /\ aQueries = [s \in 0 .. Size - 1 |-> 0]
  /\ numBackup = 0 /\ numWorker = 0
  /\ shutdown = FALSE
  /\ backup = [pc |-> "wait", job |-> 0, query |-> 0, conn |-> FALSE]
  /\ worker = [pc |-> "top", job |-> 0, query |-> 0, conns |-> {},
               failMode |-> FALSE, success |-> FALSE]
  /\ rows = [t \in {"write", "backup", "moved"} |-> {}]
  /\ reported = {} /\ silent = {}

Slot(n) == n % Size

\* Execute, ExecuteWrite, the two Register functions and Print do the same
\* with different queries.  None of them looks at what the slot holds.
Insert(kind) ==
  /\ main = "running"
  /\ Len(queries) < MaxQueries
  /\ queries' = Append(queries, kind)
  /\ answers' = Append(answers, "pending")
  /\ aQueries' = [aQueries EXCEPT ![Slot(Len(queries))] = Len(queries) + 1]
  /\ numBackup' = numBackup + 1
  /\ UNCHANGED <<main, numWorker, shutdown, backup, worker, rows, reported, silent>>

\* A variant of OnShutdown that wakes both workers.
OnShutdownBoth ==
  /\ main = "running"
  /\ main' = "stopping"
  /\ shutdown' = TRUE
  /\ numBackup' = numBackup + 1
  /\ numWorker' = numWorker + 1
  /\ UNCHANGED <<queries, answers, aQueries, backup, worker, rows, reported, silent>>

\* OnShutdown up to its loop.
OnShutdown ==
  /\ main = "running"
  /\ main' = "stopping"
  /\ shutdown' = TRUE
  /\ numBackup' = numBackup + 1
  /\ UNCHANGED <<queries, answers, aQueries, numWorker, backup, worker, rows,
                 reported, silent>>

\* The loop of OnShutdown ends.
ShutdownDone ==
  /\ main = "stopping"
  /\ ~ shutdown
  /\ main' = "stopped"
  /\ UNCHANGED <<queries, answers, aQueries, numBackup, numWorker, shutdown,
                 backup, worker, rows, reported, silent>>

-----------------------------------------------------------------------------
(* The backup worker.                                                      *)

\* A variant of BackupTake that signals the worker before it looks.
BackupTakeEarly ==
  /\ backup.pc = "wait"
  /\ numBackup > 0
  /\ numBackup' = numBackup - 1
  /\ numWorker' = numWorker + 1
  /\ LET q == aQueries[Slot(backup.job)]
     IN  backup' = IF q = 0 THEN [backup EXCEPT !.pc = "exited"]
                            ELSE [backup EXCEPT !.pc = "look", !.query = q]
  /\ UNCHANGED <<queries, answers, main, aQueries, shutdown, worker, rows,
                 reported, silent>>

\* A variant of BackupTake that does not pass the null query on.
BackupTakeSilently ==
  /\ backup.pc = "wait"
  /\ numBackup > 0
  /\ numBackup' = numBackup - 1
  /\ LET q == aQueries[Slot(backup.job)]
     IN  backup' = IF q = 0 THEN [backup EXCEPT !.pc = "exited"]
                            ELSE [backup EXCEPT !.pc = "look", !.query = q]
  /\ UNCHANGED <<queries, answers, main, aQueries, numWorker, shutdown, worker,
                 rows, reported, silent>>

\* It waits for a query and looks at it; a null query ends the thread.
BackupTake ==
  /\ backup.pc = "wait"
  /\ numBackup > 0
  /\ numBackup' = numBackup - 1
  /\ LET q == aQueries[Slot(backup.job)]
     IN  IF q = 0
         THEN /\ backup' = [backup EXCEPT !.pc = "exited"]
              /\ numWorker' = numWorker + 1
         ELSE /\ backup' = [backup EXCEPT !.pc = "look", !.query = q]
              /\ UNCHANGED numWorker
  /\ UNCHANGED <<queries, answers, main, aQueries, shutdown, worker, rows,
                 reported, silent>>

\* A variant of HandOn that signals only what it connected or wrote.
HandOnIfConnected(connected) ==
  /\ backup' = [backup EXCEPT !.pc = "wait", !.job = @ + 1, !.conn = connected]
  /\ numWorker' = numWorker + (IF connected THEN 1 ELSE 0)

\* It hands the query on to the worker.
HandOn(connected) ==
  /\ backup' = [backup EXCEPT !.pc = "wait", !.job = @ + 1, !.conn = connected]
  /\ numWorker' = numWorker + 1

BackupWrite ==
  /\ backup.pc = "look"
  /\ queries[backup.query] \in Writes
  /\ backup.conn
  /\ \E o \in BackupFirst(rows, backup.query) :
       /\ rows' = o.rows
       /\ reported' = reported \cup
            (IF o.ok THEN {<<"BACKUP_FIRST", backup.query>>} ELSE {})
  /\ HandOn(TRUE)
  /\ UNCHANGED <<queries, answers, main, aQueries, numBackup, shutdown, worker,
                 silent>>

BackupSkip ==
  /\ backup.pc = "look"
  /\ ~ (queries[backup.query] \in Writes /\ backup.conn)
  /\ HandOn(backup.conn \/ queries[backup.query] = "AddBackup")
  /\ UNCHANGED <<queries, answers, main, aQueries, numBackup, shutdown, worker,
                 rows, reported, silent>>

-----------------------------------------------------------------------------
(* The worker.                                                             *)

\* At the top of its loop it leaves the fail mode if no query waits.
WorkerTop ==
  /\ worker.pc = "top"
  /\ worker' = [worker EXCEPT !.pc = "wait", !.failMode = @ /\ numWorker # 0]
  /\ UNCHANGED <<queries, answers, main, aQueries, numBackup, numWorker, shutdown,
                 backup, rows, reported, silent>>

\* A variant of WorkerTake that does not wait for the signal.
WorkerTakeAtOnce ==
  /\ worker.pc = "wait"
  /\ numWorker' = numWorker - 1
  /\ LET q == aQueries[Slot(worker.job)]
     IN  IF q = 0
         THEN /\ worker' = [worker EXCEPT !.pc = "exited"]
              /\ shutdown' = FALSE
              /\ UNCHANGED aQueries
         ELSE /\ worker' = [worker EXCEPT !.pc = "run", !.query = q]
              /\ aQueries' = [aQueries EXCEPT ![Slot(worker.job)] = 0]
              /\ UNCHANGED shutdown
  /\ UNCHANGED <<queries, answers, main, numBackup, backup, rows, reported, silent>>

\* A variant of WorkerTake that leaves the query it takes in its slot.
WorkerTakeCopies ==
  /\ worker.pc = "wait"
  /\ numWorker > 0
  /\ numWorker' = numWorker - 1
  /\ LET q == aQueries[Slot(worker.job)]
     IN  IF q = 0
         THEN /\ worker' = [worker EXCEPT !.pc = "exited"]
              /\ shutdown' = FALSE
         ELSE /\ worker' = [worker EXCEPT !.pc = "run", !.query = q]
              /\ UNCHANGED shutdown
  /\ UNCHANGED <<queries, answers, main, aQueries, numBackup, backup, rows,
                 reported, silent>>

\* It moves the next query out of the ring; a null query ends the thread and
\* tells the main thread so.
WorkerTake ==
  /\ worker.pc = "wait"
  /\ numWorker > 0
  /\ numWorker' = numWorker - 1
  /\ LET q == aQueries[Slot(worker.job)]
     IN  IF q = 0
         THEN /\ worker' = [worker EXCEPT !.pc = "exited"]
              /\ shutdown' = FALSE
              /\ UNCHANGED aQueries
         ELSE /\ worker' = [worker EXCEPT !.pc = "run", !.query = q]
              /\ aQueries' = [aQueries EXCEPT ![Slot(worker.job)] = 0]
              /\ UNCHANGED shutdown
  /\ UNCHANGED <<queries, answers, main, numBackup, backup, rows, reported, silent>>

Kind == queries[worker.query]

\* The end of the loop: the result is published.
Complete(ok, next) ==
  /\ answers' = [answers EXCEPT ![worker.query] = IF ok THEN "ok" ELSE "failed"]
  /\ worker' = [next EXCEPT !.pc = "top", !.job = @ + 1]

\* The read databases are tried one after the other, with a look at m_Shutdown
\* before each: a read that begins before the shutdown may succeed or fail.
WorkerRead ==
  /\ worker.pc = "run"
  /\ Kind = "Read"
  /\ \E ok \in BOOLEAN :
       /\ ok => "AddRead" \in worker.conns /\ ~ worker.failMode /\ ~ shutdown
       /\ Complete(ok, [worker EXCEPT !.failMode = @ \/ ~ ok])
  /\ UNCHANGED <<queries, main, aQueries, numBackup, numWorker, shutdown, backup,
                 rows, reported, silent>>

HasBackup == "AddBackup" \in worker.conns

\* The worker leaves a write to the backup in a hurry or in trouble.
SkipsWrite == HasBackup /\ (shutdown \/ worker.failMode)

\* A variant of FirstOutcomes that takes a write left to the backup for done.
FirstOutcomesSkipped ==
  IF SkipsWrite \/ "AddWrite" \notin worker.conns
  THEN {Outcome(SkipsWrite, rows)}
  ELSE Normal(rows, worker.query)

\* What the first of its two calls may return.
FirstOutcomes ==
  IF SkipsWrite \/ "AddWrite" \notin worker.conns
  THEN {Outcome(FALSE, rows)}
  ELSE Normal(rows, worker.query)

WorkerWrite ==
  /\ worker.pc = "run"
  /\ Kind \in Writes
  /\ \E o \in FirstOutcomes :
       /\ rows' = o.rows
       /\ worker' = [worker EXCEPT !.pc = "settle", !.success = o.ok,
                                   !.failMode = @ \/ ~ o.ok]
       /\ reported' = reported \cup
            (IF o.ok THEN {<<"NORMAL", worker.query>>} ELSE {})
  /\ UNCHANGED <<queries, answers, main, aQueries, numBackup, numWorker, shutdown,
                 backup, silent>>

\* The second call of a write, on the backup file if there is one.
SettleMode == IF worker.success THEN "NORMAL_SUCCEEDED" ELSE "NORMAL_FAILED"

SettleOutcomes ==
  IF worker.success THEN NormalSucceeded(Kind, rows, worker.query)
                    ELSE NormalFailed(Kind, rows, worker.query)

WorkerSettle ==
  /\ worker.pc = "settle"
  /\ HasBackup
  /\ \E o \in SettleOutcomes :
       /\ rows' = o.rows
       /\ Complete(worker.success \/ o.ok, worker)
       /\ reported' = reported \cup
            (IF o.ok THEN {<<SettleMode, worker.query>>} ELSE {})
       /\ silent' = silent \cup
            (IF /\ ~ worker.success /\ o.ok
                /\ worker.query \in rows.backup \ o.rows.moved
             THEN {worker.query} ELSE {})
  /\ UNCHANGED <<queries, main, aQueries, numBackup, numWorker, shutdown, backup>>

WorkerSettleNothing ==
  /\ worker.pc = "settle"
  /\ ~ HasBackup
  /\ Complete(worker.success, worker)
  /\ UNCHANGED <<queries, main, aQueries, numBackup, numWorker, shutdown, backup,
                 rows, reported, silent>>

WorkerAdd ==
  /\ worker.pc = "run"
  /\ Kind \in Adds
  /\ Complete(TRUE, [worker EXCEPT !.conns = @ \cup {Kind}])
  /\ UNCHANGED <<queries, main, aQueries, numBackup, numWorker, shutdown, backup,
                 rows, reported, silent>>

WorkerPrint ==
  /\ worker.pc = "run"
  /\ Kind = "Print"
  /\ Complete(TRUE, worker)
  /\ UNCHANGED <<queries, main, aQueries, numBackup, numWorker, shutdown, backup,
                 rows, reported, silent>>

-----------------------------------------------------------------------------
(* The environment: what the game asks the pool for, and when.              *)

\* The assumption on the game, which no line of the code enforces: it leaves
\* fewer than Backlog queries in the ring or being run when it adds another.
FewOutstanding == Len(queries) - worker.job < Backlog

\* At most one backup database is registered, when the server starts, before
\* anybody can play or ask for ranks.
MayRegister(kind) ==
  kind = "AddBackup" =>
    \A i \in DOMAIN queries : queries[i] \in {"AddRead", "AddWrite", "Print"}

Submit(kind) == FewOutstanding /\ MayRegister(kind) /\ Insert(kind)

-----------------------------------------------------------------------------
MainStep == (\E kind \in Kinds : Submit(kind)) \/ OnShutdown \/ ShutdownDone

BackupStep == BackupTake \/ BackupWrite \/ BackupSkip

WorkerStep == \/ WorkerTop \/ WorkerTake
              \/ WorkerRead \/ WorkerWrite \/ WorkerAdd \/ WorkerPrint
              \/ WorkerSettle \/ WorkerSettleNothing

Next == MainStep \/ BackupStep \/ WorkerStep

Spec == Init /\ [][Next]_vars

\* Every call of a database returns, the threads are scheduled, and the main
\* thread sees the end of its loop; nobody has to ask for anything.
FairSpec == /\ Spec
            /\ WF_vars(BackupStep) /\ WF_vars(WorkerStep) /\ WF_vars(ShutdownDone)

-----------------------------------------------------------------------------
(* Safety.                                                                 *)

Kept(q) == <<"BACKUP_FIRST", q>> \in reported

\* The three threads never meet in a slot: as long as the game keeps to its
\* backlog the main thread only fills an empty one, and the worker never takes
\* (and frees) the query that the backup worker holds a plain pointer to.
SlotsNotShared ==
  /\ main = "running" /\ FewOutstanding => aQueries[Slot(Len(queries))] = 0
  /\ backup.pc = "look" => aQueries[Slot(backup.job)] = backup.query
  /\ worker.pc \in {"run", "settle"} /\ backup.pc = "look" => worker.query < backup.query

\* "Not loose ranks": a rank that reached the backup table stays in one of the
\* tables at every moment, also if the server is killed then, unless the copy
\* into the final table failed and SaveScore did not notice.
RankKept ==
  \A q \in 1 .. Len(queries) :
    Kept(q) => q \in rows.write \cup rows.backup \cup rows.moved \cup silent

\* A write that could be stored nowhere but in the backup is still there when
\* the game is told that it failed; and a score the game is told to be saved is
\* in one of the tables that count, or its copy failed unnoticed.
AnswerIsTrue ==
  \A q \in 1 .. Len(queries) :
    /\ Kept(q) /\ answers[q] = "failed" => q \in rows.backup
    /\ Kept(q) /\ answers[q] = "ok" /\ queries[q] = "SaveScore"
         => q \in rows.write \cup rows.moved \cup silent

\* The workers stop only when the server does, and only when every query has
\* been worked through.
StopsLast ==
  /\ backup.pc = "exited" => main # "running" /\ backup.job = Len(queries)
  /\ worker.pc = "exited" => /\ backup.pc = "exited"
                             /\ \A q \in 1 .. Len(queries) : answers[q] # "pending"

\* "Succeeded writing -> remove copy from backup": after a settling call that
\* reported success no copy is left behind.
BackupSettled ==
  \A q \in 1 .. Len(queries) :
    <<"NORMAL_SUCCEEDED", q>> \in reported => q \notin rows.backup

-----------------------------------------------------------------------------
(* The pool implements JobQueue.                                           *)

Door == IF main = "running" THEN "open"
        ELSE IF main = "stopping" /\ shutdown THEN "closing" ELSE "closed"

Queue == INSTANCE JobQueue WITH answers <- answers, door <- Door

\* Queries are answered each once and in order, and m_Shutdown falls back only
\* when all of them are.
ImplementsJobQueue == Queue!Spec

-----------------------------------------------------------------------------
(* Liveness.                                                               *)

\* Every query is answered, whatever the databases do.
QueriesAnswered ==
  \A q \in 1 .. MaxQueries :
    (q <= Len(queries)) ~> (q <= Len(answers) /\ answers[q] # "pending")

\* The server gets out of OnShutdown.
ShutdownEnds == main = "stopping" ~> main = "stopped"
=============================================================================
