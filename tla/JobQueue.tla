------------------------------ MODULE JobQueue ------------------------------
(***************************************************************************)
(* What the database pool promises to the game: queries are answered one   *)
(* at a time, each once and in the order they were submitted, and the pool *)
(* is closed only when no query is left without an answer.                 *)
(***************************************************************************)
EXTENDS Naturals, Sequences

VARIABLES
  answers,        \* for every query submitted so far: "pending", "ok", "failed"
  door            \* "open", "closing" or "closed"

vars == <<answers, door>>

Pending == {i \in 1 .. Len(answers) : answers[i] = "pending"}

Init == answers = <<>> /\ door = "open"

Submit == /\ door = "open"
          /\ answers' = Append(answers, "pending")
          /\ UNCHANGED door

Answer == /\ \E i \in Pending, a \in {"ok", "failed"} :
               /\ \A j \in Pending : i <= j
               /\ answers' = [answers EXCEPT ![i] = a]
          /\ UNCHANGED door

Close == door = "open" /\ door' = "closing" /\ UNCHANGED answers

Closed == /\ door = "closing"
          /\ Pending = {}
          /\ door' = "closed"
          /\ UNCHANGED answers

Next == Submit \/ Answer \/ Close \/ Closed

Spec == Init /\ [][Next]_vars
=============================================================================
