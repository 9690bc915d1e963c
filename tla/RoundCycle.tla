----------------------------- MODULE RoundCycle -----------------------------
(***************************************************************************)
(* What a round of ZombPanic promises to the people who play it: zombies   *)
(* are chosen, then the warm-up runs out, then the round is played until   *)
(* somebody has won it, and then the next one begins.  A round may be      *)
(* abandoned at any time; it is never played without chosen zombies and    *)
(* never taken up again once it has been won.                              *)
(***************************************************************************)
CONSTANT Sides    \* who can win

VARIABLES
  stage,          \* "lobby", "warmup", "play" or "over"
  won             \* the sides that have won the round

vars == <<stage, won>>

Init == stage = "lobby" /\ won = {}

ChooseZombies == stage = "lobby" /\ stage' = "warmup" /\ UNCHANGED won

Begin == stage = "warmup" /\ stage' = "play" /\ UNCHANGED won

Finish == /\ stage = "play"
          /\ stage' = "over"
          /\ won' \in (SUBSET Sides) \ {{}}

Restart == stage' = "lobby" /\ won' = {}

Next == ChooseZombies \/ Begin \/ Finish \/ Restart

Spec == Init /\ [][Next]_vars
=============================================================================
