----------------------------- MODULE VitalChannel -----------------------------
(***************************************************************************)
(* What a connection promises about vital chunks (MSGFLAG_VITAL): each     *)
(* side receives the chunks of the other one in the order in which they    *)
(* were queued, none twice and none left out, until somebody closes the    *)
(* connection.  The promise is void in a direction whose sender has run    *)
(* out of memory for chunks that are not acknowledged.                     *)
(***************************************************************************)
EXTENDS Naturals

CONSTANTS Peers, Other(_), First

VARIABLES
  queued,     \* queued[p]: number of vital chunks that p has queued
  delivered,  \* delivered[p]: the last chunk that p was handed, 0 at first
  broken,     \* broken[p]: a chunk of p may be missing
  open        \* open[p]: p takes part in the connection

vars == <<queued, delivered, broken, open>>

Init ==
  /\ queued = First
  /\ delivered = [p \in Peers |-> First[Other(p)]]
  /\ broken = [p \in Peers |-> FALSE]
  /\ open = [p \in Peers |-> TRUE]

Queue(p) ==
  /\ open[p]
  /\ queued' = [queued EXCEPT ![p] = @ + 1]
  /\ \E b \in BOOLEAN : broken' = [broken EXCEPT ![p] = @ \/ b]
  /\ UNCHANGED <<delivered, open>>

Deliver(p) ==
  /\ open[p]
  /\ \E n \in 1 .. queued[Other(p)] :
       /\ ~broken[Other(p)] => n = delivered[p] + 1
       /\ delivered' = [delivered EXCEPT ![p] = n]
  /\ UNCHANGED <<queued, broken, open>>

Close(p) ==
  /\ open' = [open EXCEPT ![p] = FALSE]
  /\ UNCHANGED <<queued, delivered, broken>>

Next == \E p \in Peers : Queue(p) \/ Deliver(p) \/ Close(p)

Spec == Init /\ [][Next]_vars
================================================================================
