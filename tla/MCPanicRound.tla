---------------------------- MODULE MCPanicRound ----------------------------
(* Instances of PanicRound for the model checker. *)
EXTENDS PanicRound, TLC

\* The code never orders the client slots, except by a random choice.
Symmetry == Permutations(Clients)
=============================================================================
