-------------------------- MODULE PanicDoorProofs ---------------------------
(***************************************************************************)
(* Theorems about PanicDoor, for every set of doors and all door times.    *)
(* The argument compares the two countdowns of a number: the one of the    *)
(* door is started no later than the one of the zombie door, so it is      *)
(* ahead of it by at least the difference of their times.                  *)
(***************************************************************************)
EXTENDS PanicDoor, TLAPS

\* How far the countdown of the door may be behind that of the zombie door.
Ahead(n) ==
  CASE zdoor[n] = "closing"  -> timer[n] <= ztimer[n] + OpenTime - CloseTime
    [] zdoor[n] = "closed"   -> timer[n] <= ztimer[n] + OpenTime - CloseTime
                                                      - ReopenTime
    [] zdoor[n] = "reopened" -> ~ (OpenTime <= CloseTime + ReopenTime)
    [] OTHER                 -> TRUE

\* The inductive invariant: timers run only in the states that need them, and
\* a zombie door that is not open any more has a door ahead of it.
DoorInv ==
  /\ TypeOK
  /\ \A n \in Numbers :
       /\ timer[n] # Off => door[n] = "closed" /\ timer[n] < OpenTime
       /\ ztimer[n] # Off <=> zdoor[n] \in {"closing", "closed"}
       /\ zdoor[n] # "open" => \/ door[n] = "open"
                               \/ timer[n] # Off /\ Ahead(n)

\* All doors of a new round are as they are built.
LEMMA InitDoors == Init => DoorInv
BY DEF Init, DoorInv, TypeOK, Off, Ahead

\* Every step keeps the door of a number ahead of its zombie door.
LEMMA StepDoors == DoorInv /\ [Next]_vars => DoorInv'
<1> SUFFICES ASSUME DoorInv, [Next]_vars PROVE DoorInv'
  OBVIOUS
<1> USE TimesAssumption DEF TimesAssumption, DoorInv, TypeOK, Off, Ahead
<1>1. ASSUME NEW n \in Numbers, NEW human \in BOOLEAN, HoldPoint(n, human)
      PROVE  DoorInv'
  BY <1>1 DEF HoldPoint, OnZombieDoorHoldPoint, OnDoorHoldPoint
<1>2. CASE EndWorldTick
  BY <1>2 DEF EndWorldTick
<1>3. CASE StartRound
  BY <1>3 DEF StartRound, ResetDoors
<1>4. CASE DoorsTick
  BY <1>4 DEF DoorsTick, NextZombieTimer, NextZombieDoor, Elapse
<1>5. CASE UNCHANGED vars
  BY <1>5 DEF vars
<1> QED BY <1>1, <1>2, <1>3, <1>4, <1>5 DEF Next

\* DoorInv holds in every state.
LEMMA DoorInvariant == Spec => []DoorInv
BY InitDoors, StepDoors, PTL DEF Spec

\* The doors and their timers keep their types.
THEOREM DoorsTyped == Spec => []TypeOK
<1>1. DoorInv => TypeOK
  BY DEF DoorInv
<1> QED BY <1>1, DoorInvariant, PTL

\* Whatever doors a map has, none shuts the zombies out of a way nobody has
\* started to open.
THEOREM ZombieDoorHasDoor == Spec => []ZombieDoorNeedsDoor
<1>1. DoorInv => ZombieDoorNeedsDoor
  BY DEF DoorInv, ZombieDoorNeedsDoor
<1> QED BY <1>1, DoorInvariant, PTL

\* For all door times of which the first is at most the sum of the others, the
\* humans' way on is open before the zombies are let in again.
THEOREM HumansGoFirst == Spec => []ZombiesReleasedLast
<1>1. DoorInv => ZombiesReleasedLast
  BY DEF DoorInv, ZombiesReleasedLast, Ahead
<1> QED BY <1>1, DoorInvariant, PTL

\* The doors of a new round are ways that are shut, with no zombie held back.
LEMMA ResetShuts ==
  ASSUME NEW n \in Numbers, ResetDoors
  PROVE  Passable(n)' = "shut" /\ Holding(n)' = "free"
BY DEF ResetDoors, Passable, Holding, Off

\* What a step of Passage says about one way.
StageStep(n) ==
  /\ Passable(n)' \in P!WayOn(Passable(n))
  /\ Holding(n)' \in P!HoldOn(Holding(n))
  /\ Holding(n)' # "free" => Passable(n)' # "shut"
  /\ OpenTime <= CloseTime + ReopenTime /\ Holding(n)' = "released" =>
       Passable(n)' = "open"

\* Somebody on a hold point takes one way to its next stage at the most.
LEMMA HoldPointStage ==
  ASSUME DoorInv, DoorInv', NEW m \in Numbers, NEW human \in BOOLEAN,
         HoldPoint(m, human), NEW n \in Numbers
  PROVE  StageStep(n)
<1> USE TimesAssumption DEF TimesAssumption, DoorInv, TypeOK, Off
<1>1. Passable(n)' \in P!WayOn(Passable(n))
  BY DEF HoldPoint, OnDoorHoldPoint, Passable, P!WayOn
<1>2. Holding(n)' \in P!HoldOn(Holding(n))
  BY DEF HoldPoint, OnZombieDoorHoldPoint, Holding, P!HoldOn
<1>3. Holding(n)' # "free" => Passable(n)' # "shut"
  BY DEF Holding, Passable
<1>4. OpenTime <= CloseTime + ReopenTime /\ Holding(n)' = "released" =>
        Passable(n)' = "open"
  BY DEF Holding, Passable, Ahead
<1> QED BY <1>1, <1>2, <1>3, <1>4 DEF StageStep

\* A tick of the controller takes every way to its next stage at the most.
LEMMA DoorsTickStage ==
  ASSUME DoorInv, DoorInv', DoorsTick, NEW n \in Numbers
  PROVE  StageStep(n)
<1> USE TimesAssumption DEF TimesAssumption, DoorInv, TypeOK, Off
<1>1. Passable(n)' \in P!WayOn(Passable(n))
  BY DEF DoorsTick, Elapse, Passable, P!WayOn
<1>2. Holding(n)' \in P!HoldOn(Holding(n))
  BY DEF DoorsTick, NextZombieDoor, Holding, P!HoldOn
<1>3. Holding(n)' # "free" => Passable(n)' # "shut"
  BY DEF Holding, Passable
<1>4. OpenTime <= CloseTime + ReopenTime /\ Holding(n)' = "released" =>
        Passable(n)' = "open"
  BY DEF Holding, Passable, Ahead
<1> QED BY <1>1, <1>2, <1>3, <1>4 DEF StageStep

\* If every way takes such a step, Passage moves on.
LEMMA StagesMoveOn ==
  ASSUME \A n \in Numbers : StageStep(n)
  PROVE  P!MoveOn
<1>1. \A n \in Numbers :
        /\ Passable(n)' \in {"shut", "opening", "open"}
        /\ Holding(n)' \in {"free", "warned", "held", "released"}
  BY DEF Passable, Holding
<1> QED BY <1>1 DEF P!MoveOn, StageStep

\* For every set of doors and all door times the handlers of the hold points, the
\* loop in Tick and ResetDoors implement Passage.
THEOREM DoorsImplementPassage == Spec => ImplementsPassage
<1>1. Init => P!Init
  BY DEF Init, P!Init, Passable, Holding, Off
<1>2. DoorInv /\ DoorInv' /\ [Next]_vars => [P!Next]_(P!vars)
  <2> SUFFICES ASSUME DoorInv, DoorInv', [Next]_vars
               PROVE  P!Next \/ UNCHANGED P!vars
    OBVIOUS
  <2>1. ASSUME NEW m \in Numbers, NEW human \in BOOLEAN, HoldPoint(m, human)
        PROVE  P!Next
    BY <2>1, HoldPointStage, StagesMoveOn DEF P!Next
  <2>2. CASE EndWorldTick
    BY <2>2 DEF EndWorldTick, P!vars, Passable, Holding
  <2>3. CASE StartRound
    BY <2>3, ResetShuts DEF StartRound, P!Next, P!ShutAll
  <2>4. CASE DoorsTick
    BY <2>4, DoorsTickStage, StagesMoveOn DEF P!Next
  <2>5. CASE UNCHANGED vars
    BY <2>5 DEF vars, P!vars, Passable, Holding
  <2> QED BY <2>1, <2>2, <2>3, <2>4, <2>5 DEF Next
<1> QED BY <1>1, <1>2, DoorInvariant, PTL DEF Spec, ImplementsPassage, P!Spec
=============================================================================
