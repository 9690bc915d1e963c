----------------------------- MODULE PanicDoor ------------------------------
(***************************************************************************)
(* The doors of a ZombPanic map.  The door with number n stops everybody   *)
(* until it opens; the zombie door with the same number (index             *)
(* n + MAX_DOORS/2 of m_Door) stops zombies from the moment it closes to   *)
(* the moment it reopens.  Whoever stands on the hold point of n starts    *)
(* the door; a human starts the zombie door as well.                       *)
(*                                                                         *)
(* A timer is the number of ticks until Server()->Tick() reaches m_Tick,   *)
(* and Off stands for m_Tick = 0.  The numbers are those a map may use,    *)
(* 1 .. MAX_DOORS/2 - 1: nothing in the code checks them.                  *)
(***************************************************************************)
EXTENDS Integers

CONSTANTS
  Numbers,        \* the door numbers of the map
  OpenTime,       \* panic_door_time, in ticks
  CloseTime,      \* panic_zombie_door_delay, in ticks
  ReopenTime      \* panic_zombie_door_time, in ticks

ASSUME TimesAssumption ==
  /\ OpenTime \in Nat \ {0}
  /\ CloseTime \in Nat \ {0}
  /\ ReopenTime \in Nat \ {0}

Off == -1

VARIABLES
  phase,          \* "world" (characters move) or "doors" (IGameController::Tick)
  door,           \* number -> "closed" or "open"
  timer,          \* number -> ticks left, or Off
  zdoor,          \* number -> state of the zombie door
  ztimer          \* number -> ticks left of the zombie door, or Off

vars == <<phase, door, timer, zdoor, ztimer>>

TypeOK ==
  /\ phase \in {"world", "doors"}
  /\ door \in [Numbers -> {"closed", "open"}]
  /\ timer \in [Numbers -> Nat \cup {Off}]
  /\ zdoor \in [Numbers -> {"open", "closing", "closed", "reopened"}]
  /\ ztimer \in [Numbers -> Nat \cup {Off}]

ResetDoors ==
  /\ door' = [n \in Numbers |-> "closed"]
  /\ timer' = [n \in Numbers |-> Off]
  /\ zdoor' = [n \in Numbers |-> "open"]
  /\ ztimer' = [n \in Numbers |-> Off]

Init ==
  /\ phase = "world"
  /\ door = [n \in Numbers |-> "closed"]
  /\ timer = [n \in Numbers |-> Off]
  /\ zdoor = [n \in Numbers |-> "open"]
  /\ ztimer = [n \in Numbers |-> Off]

\* A variant of OnDoorHoldPoint: the countdown starts anew for everyone who
\* steps on the hold point.
OnDoorHoldPointAgain(n) ==
  timer' = IF door[n] = "closed"
           THEN [timer EXCEPT ![n] = OpenTime - 1] ELSE timer

OnDoorHoldPoint(n) ==
  timer' = IF timer[n] = Off /\ door[n] = "closed"
           THEN [timer EXCEPT ![n] = OpenTime - 1] ELSE timer

OnZombieDoorHoldPoint(n) ==
  IF zdoor[n] = "open"
  THEN /\ zdoor' = [zdoor EXCEPT ![n] = "closing"]
       /\ ztimer' = [ztimer EXCEPT ![n] = CloseTime - 1]
  ELSE UNCHANGED <<zdoor, ztimer>>

\* A variant of HoldPoint: a human starts the zombie door only.
HoldPointEither(n, human) ==
  /\ phase = "world"
  /\ IF human THEN OnZombieDoorHoldPoint(n) ELSE UNCHANGED <<zdoor, ztimer>>
  /\ IF human THEN UNCHANGED timer ELSE OnDoorHoldPoint(n)
  /\ UNCHANGED <<phase, door>>

\* A living character is on the hold point of n (CCharacter::HandleTiles).
HoldPoint(n, human) ==
  /\ phase = "world"
  /\ IF human THEN OnZombieDoorHoldPoint(n) ELSE UNCHANGED <<zdoor, ztimer>>
  /\ OnDoorHoldPoint(n)
  /\ UNCHANGED <<phase, door>>

EndWorldTick ==
  /\ phase = "world"
  /\ phase' = "doors"
  /\ UNCHANGED <<door, timer, zdoor, ztimer>>

\* StartRound, from the console between two ticks or from the controller's own
\* tick before it looks at the doors.
StartRound ==
  /\ ResetDoors
  /\ UNCHANGED phase

\* A variant of Elapse that does not switch a due timer off.
ElapseOn(t) == t - 1

\* One tick less, unless the timer is off or due.
Elapse(t) == IF t > 0 THEN t - 1 ELSE Off

\* Variants of NextZombieTimer: a zombie door that closes has no timer; its timer
\* is that of the state it leaves.
NextZombieTimerLost(n) == Elapse(ztimer[n])
NextZombieTimerStale(n) == IF ztimer[n] = 0 /\ zdoor[n] = "closing"
                           THEN CloseTime - 1 ELSE Elapse(ztimer[n])

\* A zombie door that closes now reopens ReopenTime later, and the first of
\* these ticks is over when the timer is read again.
NextZombieTimer(n) == IF ztimer[n] = 0 /\ zdoor[n] = "closing"
                      THEN ReopenTime - 1 ELSE Elapse(ztimer[n])

NextZombieDoor(n) == IF ztimer[n] = 0 /\ zdoor[n] = "closing" THEN "closed"
                     ELSE IF ztimer[n] = 0 /\ zdoor[n] = "closed" THEN "reopened"
                     ELSE zdoor[n]

\* The loop over m_Door at the end of IGameController::Tick, and the next tick.
DoorsTick ==
  /\ phase = "doors"
  /\ phase' = "world"
  /\ door' = [n \in Numbers |-> IF timer[n] = 0 THEN "open" ELSE door[n]]
  /\ timer' = [n \in Numbers |-> Elapse(timer[n])]
  /\ zdoor' = [n \in Numbers |-> NextZombieDoor(n)]
  /\ ztimer' = [n \in Numbers |-> NextZombieTimer(n)]

Next ==
  \/ \E n \in Numbers, human \in BOOLEAN : HoldPoint(n, human)
  \/ EndWorldTick
  \/ StartRound
  \/ DoorsTick

Spec == Init /\ [][Next]_vars

\* The server loop never stops ticking.
FairSpec == Spec /\ WF_vars(EndWorldTick) /\ WF_vars(DoorsTick)
-----------------------------------------------------------------------------
\* A zombie door never shuts the zombies out of a way that nobody has started
\* to open: the door with the same number is open or about to open.
ZombieDoorNeedsDoor ==
  \A n \in Numbers : zdoor[n] # "open" => door[n] = "open" \/ timer[n] # Off

\* With door times like the default ones (10, 3 and 10 seconds) the zombies are
\* let in again only when the humans' way on is open, in whichever order humans
\* and zombies come to the hold point.
ZombiesReleasedLast ==
  OpenTime <= CloseTime + ReopenTime =>
    \A n \in Numbers : zdoor[n] = "reopened" => door[n] = "open"

\* The doors of a number as people meet them: the way through the door, and what
\* the zombie door does to the zombies.
Passable(n) == IF door[n] = "open" THEN "open"
               ELSE IF timer[n] # Off THEN "opening" ELSE "shut"

Holding(n) == CASE zdoor[n] = "open"    -> "free"
                [] zdoor[n] = "closing" -> "warned"
                [] zdoor[n] = "closed"  -> "held"
                [] OTHER                -> "released"

P == INSTANCE Passage WITH
       Ways <- Numbers,
       HumansFirst <- OpenTime <= CloseTime + ReopenTime,
       way <- [n \in Numbers |-> Passable(n)],
       hold <- [n \in Numbers |-> Holding(n)]

\* The four arrays of the controller, written from two places in a tick and reset
\* from a third, keep the promise of Passage: each way goes through its stages in
\* their order, no stage is skipped or repeated while the round lasts, and the
\* zombies are warned, held and released on it only when the way is that far.
ImplementsPassage == P!Spec

\* A door whose countdown has begun opens, unless the round starts anew.
DoorOpens ==
  \A n \in Numbers : timer[n] # Off ~> timer[n] = Off

\* Zombies are never locked out for ever.
ZombieDoorReopens ==
  \A n \in Numbers : zdoor[n] = "closing" ~> zdoor[n] \in {"reopened", "open"}
=============================================================================
