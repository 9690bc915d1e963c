-------------------------------- MODULE MCVote --------------------------------
(* Instances of Vote for TLC: slots are numbers because the count goes by them. *)
EXTENDS Vote

MCClients == 1 .. 2

CONSTANTS a, b  \* the addresses

(* Both slots are taken at first, the second perhaps by a player of long standing;
   the first may become one.  The addresses are alike, so the first player is at
   a, and with sv_vote_majority nobody reads what an older vote left. *)
MCInit ==
  /\ Init
  /\ \A i \in Clients : Present(i)
  /\ player[1].addr = a /\ player[1].age = "grown"
  /\ majority => ~willPass

MCLiveSpec ==
  MCInit /\ [][Next]_vars /\ WF_vars(Clock) /\ WF_vars(timeLeft = 0 /\ Tick)
================================================================================
