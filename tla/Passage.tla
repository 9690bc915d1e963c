------------------------------ MODULE Passage -------------------------------
(***************************************************************************)
(* What the hold points of a map promise to the two sides: everybody       *)
(* passes once the way has been opened, and the zombies are held back for  *)
(* a while, but only on a way that somebody has begun to open, and, when   *)
(* the times say so, until the humans can go ahead.  Every way moves on    *)
(* stage by stage and never back, except that all of them are shut at      *)
(* once.                                                                   *)
(***************************************************************************)
CONSTANTS
  Ways,           \* the ways of the map
  HumansFirst     \* do the times let the humans go ahead?

VARIABLES
  way,            \* way -> "shut", "opening" or "open"
  hold            \* way -> "free", "warned", "held" or "released"

vars == <<way, hold>>

Init ==
  /\ way = [n \in Ways |-> "shut"]
  /\ hold = [n \in Ways |-> "free"]

\* The stages in which a step may leave a way and the zombies held on it.
WayOn(s) == CASE s = "shut"    -> {"shut", "opening"}
              [] s = "opening" -> {"opening", "open"}
              [] OTHER         -> {s}

HoldOn(s) == CASE s = "free"   -> {"free", "warned"}
               [] s = "warned" -> {"warned", "held"}
               [] s = "held"   -> {"held", "released"}
               [] OTHER        -> {s}

\* Some ways move on.  Zombies are warned and held on a way that is not shut,
\* and released, if the humans go first, on one that is open.
MoveOn ==
  /\ way' \in [Ways -> {"shut", "opening", "open"}]
  /\ hold' \in [Ways -> {"free", "warned", "held", "released"}]
  /\ \A n \in Ways :
       /\ way'[n] \in WayOn(way[n])
       /\ hold'[n] \in HoldOn(hold[n])
       /\ hold'[n] # "free" => way'[n] # "shut"
       /\ HumansFirst /\ hold'[n] = "released" => way'[n] = "open"

ShutAll ==
  /\ way' = [n \in Ways |-> "shut"]
  /\ hold' = [n \in Ways |-> "free"]

Next == MoveOn \/ ShutAll

Spec == Init /\ [][Next]_vars
=============================================================================
