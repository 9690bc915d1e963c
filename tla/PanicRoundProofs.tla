-------------------------- MODULE PanicRoundProofs --------------------------
(***************************************************************************)
(* Theorems about PanicRound, for every set of client slots and every      *)
(* setting.  The argument:                                                 *)
(*   - the types are inductive together with the number of picks left;     *)
(*   - while the zombies are chosen nobody comes or goes, so the two       *)
(*     players that started the selection are still there, and the zombies *)
(*     made so far are those RandomZombie remembers;                       *)
(*   - a round whose zombies are not chosen is still warming up, and while *)
(*     it warms up nobody becomes a zombie but by RandomZombie.            *)
(***************************************************************************)
EXTENDS PanicRound, FiniteSetTheorems, TLAPS

(* What a theorem assumes of the settings and of the remote console.  A     *)
(* theorem without one of these holds for all settings and commands.        *)

\* There is a warm-up.
WarmupOn == SvWarmup > 0

\* "restart n" is not used to end the warm-up at once.
NoRestartNow == "restart_in" \in Rcon => 0 \notin RestartTimes

\* "restart n" is not used at all.
NoRestartIn == "restart_in" \notin Rcon

\* The world is not paused by hand.
NoPause == "pause_game" \notin Rcon

\* The teams are not swapped or shuffled.
TeamsKept == Rcon \cap {"swap_teams", "shuffle_teams"} = {}
-----------------------------------------------------------------------------
(* Cardinalities. *)

\* The players who are not spectators are finitely many.
LEMMA PlayersFinite ==
  /\ IsFiniteSet(Zombies) /\ IsFiniteSet(Humans)
  /\ NumPlayers \in Nat /\ NumZombies \in Nat
<1>1. Zombies \in SUBSET Clients /\ Humans \in SUBSET Clients
  BY DEF Zombies, Humans, OnTeam
<1>2. /\ IsFiniteSet(Zombies) /\ IsFiniteSet(Humans)
      /\ IsFiniteSet(Zombies \cup Humans)
  <2>1. Zombies \cup Humans \in SUBSET Clients
    BY <1>1
  <2> QED BY <1>1, <2>1, FS_Subset, ConstantsAssumption DEF ConstantsAssumption
<1> QED BY <1>2, FS_CardinalityType DEF NumPlayers, NumZombies

\* Two elements outlast the removal of one, three that of two.
LEMMA RemoveTwo ==
  ASSUME NEW S, IsFiniteSet(S), NEW a, NEW b
  PROVE  /\ Cardinality(S) >= 2 => S \ {a} # {}
         /\ Cardinality(S) >= 3 => S \ {a, b} # {}
<1> DEFINE T == S \ {a}
           U == T \ {b}
<1>1. Cardinality(S) \in Nat
  BY FS_CardinalityType
<1>2. IsFiniteSet(T) /\ Cardinality(T) >= Cardinality(S) - 1
  BY <1>1, FS_RemoveElement
<1>3. Cardinality(T) \in Nat
  BY <1>2, FS_CardinalityType
<1>4. U = S \ {a, b}
  OBVIOUS
<1> HIDE DEF T
<1>5. Cardinality(U) >= Cardinality(T) - 1
  <2>1. Cardinality(T \ {b}) = IF b \in T THEN Cardinality(T) - 1
                                         ELSE Cardinality(T)
    BY <1>2, FS_RemoveElement, Zenon
  <2> QED BY <1>3, <2>1
<1>6. Cardinality(S) >= 2 => T # {}
  BY <1>1, <1>2, <1>3, FS_EmptySet
<1> HIDE DEF U
<1>7. Cardinality(S) >= 3 => U # {}
  <2>1. U = {} => Cardinality(U) = 0
    BY FS_EmptySet
  <2> QED BY <1>1, <1>2, <1>3, <1>5, <2>1
<1> QED BY <1>4, <1>6, <1>7 DEF T

\* Two different elements are two.
LEMMA PairCardinality ==
  ASSUME NEW a, NEW b, a # b
  PROVE  Cardinality({a, b}) = 2
<1>1. IsFiniteSet({a}) /\ Cardinality({a}) = 1
  BY FS_Singleton
<1>2. Cardinality({a} \cup {b}) = Cardinality({a}) + 1
  BY <1>1, FS_AddElement
<1>3. {a} \cup {b} = {a, b}
  OBVIOUS
<1> QED BY <1>1, <1>2, <1>3

\* A selection chooses at least one zombie.
LEMMA ZAtStartPositive == ZAtStart \in Nat \ {0}
<1>1. NumPlayers \div ZombieRatio \in Nat
  BY PlayersFinite, ConstantsAssumption DEF ConstantsAssumption
<1> QED BY <1>1 DEF ZAtStart
-----------------------------------------------------------------------------
(* Types. *)

\* TypeOK is inductive once a selection is known to have picks left.
TypeInv == TypeOK /\ (phase = "select" => picks > 0)

\* The constructed game context has its types.
LEMMA InitType == Init => TypeInv
<1> SUFFICES ASSUME Init PROVE TypeInv
  OBVIOUS
<1> USE ConstantsAssumption DEF ConstantsAssumption, Init
<1>1. /\ phase \in Phases /\ phase # "select"
      /\ client \in [Clients -> {"empty", "ready", "ingame"}]
      /\ team \in [Clients -> Teams]
  BY DEF Phases, Teams
<1>2. /\ asleep \in [Clients -> BOOLEAN]
      /\ chr \in [Clients -> {"none", "alive", "dead"}]
  OBVIOUS
<1>3. warmup \in Nat /\ lastWarmup \in Nat /\ selected \in BOOLEAN
  OBVIOUS
<1>4. /\ picks \in Nat
      /\ lastZombie \in Clients \cup {None}
      /\ lastZombie2 \in Clients \cup {None}
  OBVIOUS
<1>5. /\ resetRequested \in BOOLEAN /\ worldPaused \in BOOLEAN
      /\ gameOver \in Nat \cup {-1}
  OBVIOUS
<1>6. elapsed \in 0 .. WinCheckLimit /\ roundCount \in 0 .. RoundsPerMap
  OBVIOUS
<1>7. winners \subseteq {RED, BLUE} /\ mapReload \in BOOLEAN
  OBVIOUS
<1> QED BY <1>1, <1>2, <1>3, <1>4, <1>5, <1>6, <1>7 DEF TypeInv, TypeOK

\* StartRound keeps the types of what it sets.
LEMMA StartRoundType ==
  ASSUME TypeOK, StartRound
  PROVE  /\ team' \in [Clients -> Teams] /\ asleep' \in [Clients -> BOOLEAN]
         /\ client' = client /\ chr' = chr
         /\ warmup' \in Nat /\ lastWarmup' \in Nat /\ selected' \in BOOLEAN
         /\ resetRequested' \in BOOLEAN /\ worldPaused' \in BOOLEAN
         /\ gameOver' = -1 /\ elapsed' \in 0 .. WinCheckLimit /\ winners' = {}
<1>1. team' \in [Clients -> Teams] /\ asleep' \in [Clients -> BOOLEAN]
  BY DEF TypeOK, StartRound, ResetZombies, Teams, BLUE, SPECTATORS
<1>2. elapsed' \in 0 .. WinCheckLimit /\ warmup' \in Nat /\ lastWarmup' \in Nat
  BY ConstantsAssumption DEF ConstantsAssumption, StartRound, DoWarmup
<1> QED BY <1>1, <1>2 DEF StartRound

\* The map rotation leaves the round count below its limit.
LEMMA CycleMapType ==
  ASSUME TypeOK, NEW rounds \in 0 .. RoundsPerMap, CycleMap(rounds)
  PROVE  roundCount' \in 0 .. RoundsPerMap /\ mapReload' \in BOOLEAN
BY ConstantsAssumption DEF ConstantsAssumption, TypeOK, CycleMap

\* Connections and team messages keep the types.
LEMMA MessagesType ==
  ASSUME TypeInv, Messages
  PROVE  TypeInv'
<1> USE DEF TypeInv, TypeOK, Phases, players, choice, clock, ending, maps
<1>1. CASE \E c \in Clients, spec \in BOOLEAN : OnClientConnected(c, spec)
  BY <1>1 DEF OnClientConnected, GetAutoTeam, Teams, SPECTATORS, RED, BLUE
<1>2. CASE \E c \in Clients : OnClientEnter(c)
  BY <1>2 DEF OnClientEnter
<1>3. CASE \E c \in Clients : OnClientDrop(c)
  BY <1>3 DEF OnClientDrop, Teams, SPECTATORS
<1>4. CASE \E c \in Clients, t \in Teams : SetTeamMessage(c, t)
  BY <1>4 DEF SetTeamMessage, DoTeamChange, SetTeams
<1> QED BY <1>1, <1>2, <1>3, <1>4 DEF Messages

\* The remote console keeps the types.
LEMMA ConsoleType ==
  ASSUME TypeInv, Console
  PROVE  TypeInv'
<1> USE DEF TypeInv, TypeOK, Phases, players, choice, clock, ending, maps
<1>1. CASE ConRestart
  BY <1>1, StartRoundType DEF ConRestart
<1>2. CASE \E ticks \in RestartTimes : ConRestartIn(ticks)
  BY <1>2, ConstantsAssumption DEF ConstantsAssumption, ConRestartIn, DoWarmup
<1>3. CASE ConPause
  BY <1>3 DEF ConPause
<1>4. CASE \E c \in Clients, t \in Teams : ConSetTeam(c, t)
  BY <1>4 DEF ConSetTeam, DoTeamChange, SetTeams
<1>5. CASE \E t \in Teams : ConSetTeamAll(t)
  BY <1>5 DEF ConSetTeamAll, SetTeams
<1>6. CASE ConSwapTeams
  BY <1>6 DEF ConSwapTeams, SetTeams, Teams, SPECTATORS, RED, BLUE
<1>7. CASE ConShuffleTeams
  BY <1>7 DEF ConShuffleTeams, Teams, SPECTATORS, RED, BLUE
<1>8. CASE \E c \in Clients : ConKillPlayer(c)
  BY <1>8 DEF ConKillPlayer, Teams, RED
<1>9. CASE ConSkipMap
  BY <1>9, CycleMapType DEF ConSkipMap
<1> QED BY <1>1, <1>2, <1>3, <1>4, <1>5, <1>6, <1>7, <1>8, <1>9 DEF Console

\* A step of the tick keeps the types.
LEMMA TickType ==
  ASSUME TypeInv, Tick
  PROVE  TypeInv'
<1> USE DEF TypeInv, TypeOK, Phases, players, choice, clock, ending, maps
<1>1. CASE BeginTick
  <2>1. elapsed' \in 0 .. WinCheckLimit
    BY <1>1, ConstantsAssumption DEF ConstantsAssumption, BeginTick
  <2>2. gameOver' \in Nat \cup {-1}
    BY <1>1 DEF BeginTick
  <2> QED BY <1>1, <2>1, <2>2 DEF BeginTick
<1>2. CASE \E c \in Clients, respawn \in BOOLEAN : Die(c, respawn)
  BY <1>2 DEF Die, Teams, RED
<1>3. CASE EndWorldTick
  BY <1>3 DEF EndWorldTick
<1>4. CASE SkipWarmup
  BY <1>4 DEF SkipWarmup
<1>5. CASE CountDown
  BY <1>5 DEF CountDown
<1>6. CASE BeginSelection
  BY <1>6, StartRoundType, ZAtStartPositive DEF BeginSelection
<1>7. CASE \E c \in Clients : RandomZombie(c)
  BY <1>7 DEF RandomZombie, Teams, RED
<1>8. CASE TooFewPlayers
  <2>1. roundCount' \in 0 .. RoundsPerMap
    BY <1>8, ConstantsAssumption DEF ConstantsAssumption, TooFewPlayers
  <2>2. CASE StartRound
    BY <1>8, <2>1, <2>2, StartRoundType DEF TooFewPlayers
  <2>3. CASE ~ StartRound
    BY <1>8, <2>1, <2>3 DEF TooFewPlayers
  <2> QED BY <2>2, <2>3
<1>9. CASE WakeUp
  BY <1>9 DEF WakeUp
<1>10. CASE GameOverWaits
  BY <1>10 DEF GameOverWaits
<1>11. CASE NextRound
  <2>1. roundCount' \in 0 .. RoundsPerMap /\ mapReload' \in BOOLEAN
    <3>1. RoundsPerMap \in Nat
      BY ConstantsAssumption DEF ConstantsAssumption
    <3>2. CASE roundCount + 1 >= RoundsPerMap
      BY <1>11, <3>1, <3>2, CycleMapType DEF NextRound
    <3>3. CASE ~ (roundCount + 1 >= RoundsPerMap)
      BY <1>11, <3>1, <3>3 DEF NextRound
    <3> QED BY <3>2, <3>3
  <2> QED BY <1>11, <2>1, StartRoundType DEF NextRound
<1>12. CASE DoWinCheck
  <2>1. EndRoundWinners \subseteq {RED, BLUE}
    BY DEF EndRoundWinners
  <2> QED BY <1>12, <2>1 DEF DoWinCheck, EndRound
<1>13. CASE PlayersTick
  BY <1>13 DEF PlayersTick
<1> QED BY <1>1, <1>2, <1>3, <1>4, <1>5, <1>6, <1>7, <1>8, <1>9, <1>10, <1>11,
           <1>12, <1>13 DEF Tick

\* A new map, or a map that cannot be loaded, keeps the types.
LEMMA LoadMapType ==
  ASSUME TypeInv, LoadMap
  PROVE  TypeInv'
<1> USE DEF TypeInv, TypeOK, Phases
<1>1. CASE NewMap
  <2>1. /\ client' \in [Clients -> {"empty", "ready", "ingame"}]
        /\ team' \in [Clients -> Teams]
        /\ asleep' \in [Clients -> BOOLEAN]
        /\ chr' \in [Clients -> {"none", "alive", "dead"}]
    BY <1>1 DEF NewMap, Teams
  <2>2. /\ warmup' \in Nat /\ lastWarmup' \in Nat
        /\ elapsed' \in 0 .. WinCheckLimit /\ roundCount' \in 0 .. RoundsPerMap
    BY <1>1, ConstantsAssumption DEF ConstantsAssumption, NewMap, DoWarmup
  <2> QED BY <1>1, <2>1, <2>2 DEF NewMap, LoadMap
<1>2. CASE ~ NewMap
  BY <1>2 DEF LoadMap, players, choice, clock, ending
<1> QED BY <1>1, <1>2

\* The types, with the picks left, hold in every state.
LEMMA TypeInvariant == Spec => []TypeInv
<1>1. Init => TypeInv
  BY InitType
<1>2. TypeInv /\ [Next]_vars => TypeInv'
  <2> SUFFICES ASSUME TypeInv, [Next]_vars PROVE TypeInv'
    OBVIOUS
  <2>1. CASE Next
    BY <2>1, MessagesType, ConsoleType, TickType, LoadMapType DEF Next
  <2>2. CASE UNCHANGED vars
    BY <2>2 DEF TypeInv, TypeOK, vars, players, choice, clock, ending, maps
  <2> QED BY <2>1, <2>2
<1> QED BY <1>1, <1>2, PTL DEF Spec

\* Every variable stays in its range whatever the clients, the administrator
\* and the clock do: the counters of the round, the picks and the map rotation
\* never leave theirs.
THEOREM TypeCorrect == Spec => []TypeOK
<1>1. TypeInv => TypeOK
  BY DEF TypeInv
<1> QED BY <1>1, TypeInvariant, PTL
-----------------------------------------------------------------------------
(* The selection of the initial zombies. *)

\* What a step may do to the number of picks left.
LEMMA PickSteps ==
  ASSUME [Next]_vars
  PROVE  \/ BeginSelection
         \/ \E c \in Clients : RandomZombie(c)
         \/ phase' # "select" /\ phase # "select" /\ picks' \in {0, picks}
         \/ UNCHANGED vars
<1> USE DEF choice
<1>1. CASE Messages
  BY <1>1 DEF Messages, OnClientConnected, OnClientEnter, OnClientDrop,
              SetTeamMessage
<1>2. CASE Console
  BY <1>2 DEF Console, ConRestart, ConRestartIn, ConPause, ConSetTeam,
              ConSetTeamAll, ConSwapTeams, ConShuffleTeams, ConKillPlayer,
              ConSkipMap
<1>3. CASE Tick
  BY <1>3 DEF Tick, BeginTick, Die, EndWorldTick, SkipWarmup, CountDown,
              TooFewPlayers, WakeUp, GameOverWaits, NextRound, DoWinCheck,
              PlayersTick
<1>4. CASE LoadMap
  BY <1>4 DEF LoadMap, NewMap
<1> QED BY <1>1, <1>2, <1>3, <1>4 DEF Next

\* A selection begins without zombies, and the players stay who they are.
LEMMA BeginSelectionPlayers ==
  ASSUME TypeOK, BeginSelection
  PROVE  Zombies' = {} /\ NumPlayers' = NumPlayers
<1>1. (Zombies \cup Humans)' = Zombies \cup Humans
  BY DEF BeginSelection, StartRound, ResetZombies, TypeOK, Teams,
         Zombies, Humans, OnTeam, HasPlayer, SPECTATORS, RED, BLUE
<1>2. Zombies' = {}
  BY DEF BeginSelection, StartRound, ResetZombies, Zombies, OnTeam,
         SPECTATORS, RED, BLUE
<1> QED BY <1>1, <1>2 DEF NumPlayers

\* A pick adds its player to the zombies; a spectator may have been picked.
LEMMA PickPlayers ==
  ASSUME TypeOK, NEW c \in Clients, RandomZombie(c)
  PROVE  /\ Zombies' = Zombies \cup {c}
         /\ NumPlayers' \in Nat /\ NumPlayers <= NumPlayers'
<1>1. Zombies' = Zombies \cup {c}
  BY DEF RandomZombie, Eligible, TypeOK, Zombies, OnTeam, HasPlayer
<1>2. Zombies \cup Humans \subseteq (Zombies \cup Humans)'
  BY DEF RandomZombie, TypeOK, Zombies, Humans, OnTeam, HasPlayer
<1>3. IsFiniteSet((Zombies \cup Humans)')
  <2>1. (Zombies \cup Humans)' \in SUBSET Clients
    BY DEF Zombies, Humans, OnTeam
  <2> QED BY <2>1, FS_Subset, ConstantsAssumption DEF ConstantsAssumption
<1>4. NumPlayers <= NumPlayers' /\ NumPlayers' \in Nat
  BY <1>2, <1>3, FS_Subset, FS_CardinalityType DEF NumPlayers
<1> QED BY <1>1, <1>4

\* The two players that started the selection are there until it ends.
SelectionInv == phase = "select" => NumPlayers >= 2

\* No step of a selection loses a player.
LEMMA SelectionStep ==
  ASSUME TypeOK, SelectionInv, [Next]_vars
  PROVE  SelectionInv'
<1> SUFFICES ASSUME phase' = "select" PROVE NumPlayers' >= 2
  BY DEF SelectionInv
<1>1. CASE BeginSelection
  BY <1>1, BeginSelectionPlayers, PlayersFinite DEF BeginSelection
<1>2. ASSUME NEW c \in Clients, RandomZombie(c) PROVE NumPlayers' >= 2
  <2>1. NumPlayers >= 2
    BY <1>2 DEF RandomZombie, SelectionInv
  <2> QED BY <1>2, <2>1, PickPlayers, PlayersFinite
<1>3. CASE UNCHANGED vars
  BY <1>3 DEF vars, players, SelectionInv, NumPlayers, Zombies, Humans, OnTeam,
              HasPlayer
<1> QED BY <1>1, <1>2, <1>3, PickSteps

\* Whatever the settings and the administrator do, RandomZombie finds a player:
\* of two one is left when the last zombie is out, of three one is left when
\* the last two are.
THEOREM SelectionSafe == Spec => []SelectionHasCandidate
<1>1. Init => SelectionInv
  BY DEF Init, SelectionInv
<1>2. TypeOK /\ SelectionInv /\ [Next]_vars => SelectionInv'
  BY SelectionStep
<1>3. SelectionInv => SelectionHasCandidate
  <2> SUFFICES ASSUME SelectionInv, phase = "select" PROVE Eligible # {}
    BY DEF SelectionHasCandidate
  <2> DEFINE P == Zombies \cup Humans
  <2>1. IsFiniteSet(P) /\ P \subseteq {c \in Clients : HasPlayer(c)}
    <3>1. P \in SUBSET Clients
      BY DEF Zombies, Humans, OnTeam
    <3>2. IsFiniteSet(P)
      BY <3>1, FS_Subset, ConstantsAssumption DEF ConstantsAssumption
    <3> QED BY <3>2 DEF Zombies, Humans, OnTeam
  <2>2. Cardinality(P) = NumPlayers /\ NumPlayers \in Nat /\ NumPlayers >= 2
    BY PlayersFinite DEF NumPlayers, SelectionInv
  <2>3. CASE NumPlayers > 2
    <3>1. P \ {lastZombie, lastZombie2} # {}
      BY <2>1, <2>2, <2>3, RemoveTwo
    <3> QED BY <2>1, <3>1 DEF Eligible
  <2>4. CASE ~ (NumPlayers > 2)
    <3>1. P \ {lastZombie} # {}
      BY <2>1, <2>2, RemoveTwo
    <3> QED BY <2>1, <2>4, <3>1 DEF Eligible
  <2> QED BY <2>3, <2>4
<1> QED BY <1>1, <1>2, <1>3, TypeCorrect, PTL DEF Spec
-----------------------------------------------------------------------------
(* Every pick of a selection is new. *)

\* With fewer than four times the ratio of players a selection makes at most
\* three zombies, three only out of more than two players, and the zombies made
\* so far are the last ones RandomZombie remembers.
PickInv ==
  /\ phase # "select" => picks = 0
  /\ phase = "select" /\ NumPlayers < 4 * ZombieRatio =>
       /\ picks + NumZombies <= 3
       /\ picks + NumZombies = 3 => NumPlayers > 2
       /\ \/ Zombies = {}
          \/ Zombies = {lastZombie}
          \/ Zombies = {lastZombie, lastZombie2} /\ lastZombie # lastZombie2

\* With that few players the player picked was no zombie.
LEMMA PickIsNew ==
  ASSUME TypeInv, PickInv, NEW c \in Clients, RandomZombie(c),
         NumPlayers < 4 * ZombieRatio
  PROVE  NumZombies' = NumZombies + 1
<1>1. phase = "select" /\ picks \in Nat \ {0} /\ c \in Eligible
  BY DEF RandomZombie, TypeInv, TypeOK
<1>2. c \notin Zombies
  <2>1. CASE Zombies = {} \/ Zombies = {lastZombie}
    BY <1>1, <2>1 DEF Eligible
  <2>2. CASE Zombies = {lastZombie, lastZombie2} /\ lastZombie # lastZombie2
    <3>1. NumZombies = 2
      BY <2>2, PairCardinality DEF NumZombies
    <3>2. NumPlayers > 2
      BY <1>1, <3>1, PlayersFinite DEF PickInv
    <3> QED BY <1>1, <2>2, <3>2 DEF Eligible
  <2> QED BY <1>1, <2>1, <2>2 DEF PickInv
<1>3. Cardinality(Zombies \cup {c}) = Cardinality(Zombies) + 1
  BY <1>2, PlayersFinite, FS_AddElement
<1> QED BY <1>3, PickPlayers DEF NumZombies, TypeInv

\* A step keeps the invariant: the zombie of three that is forgotten last is
\* the one that no pick is left to repeat.
LEMMA PickStep ==
  ASSUME TypeInv, PickInv, [Next]_vars
  PROVE  PickInv'
<1>1. CASE BeginSelection
  <2>1. phase' = "select" /\ picks' = ZAtStart
    BY <1>1 DEF BeginSelection
  <2>2. Zombies' = {} /\ NumPlayers' = NumPlayers /\ NumZombies' = 0
    BY <1>1, BeginSelectionPlayers, FS_EmptySet DEF NumZombies, TypeInv
  <2>3. ASSUME NumPlayers < 4 * ZombieRatio
        PROVE  ZAtStart <= 3 /\ (ZAtStart = 3 => NumPlayers > 2)
    <3>1. NumPlayers \in Nat /\ ZombieRatio \in Nat /\ ZombieRatio >= 2
      BY PlayersFinite, ConstantsAssumption DEF ConstantsAssumption
    <3> DEFINE q == NumPlayers \div ZombieRatio
    <3>2. q \in Nat /\ ZombieRatio * q <= NumPlayers
      BY <3>1
    <3>3. ZAtStart = IF q = 0 THEN 1 ELSE q
      BY DEF ZAtStart
    <3> HIDE DEF q
    <3>4. q <= 3
      <4> SUFFICES ASSUME q >= 4 PROVE FALSE
        BY <3>2
      <4>1. ZombieRatio * q >= ZombieRatio * 4
        BY <3>1, <3>2
      <4> QED BY <2>3, <3>1, <3>2, <4>1
    <3>5. q = 3 => NumPlayers > 2
      BY <3>1, <3>2
    <3> QED BY <3>2, <3>3, <3>4, <3>5
  <2> QED BY <2>1, <2>2, <2>3, ZAtStartPositive DEF PickInv
<1>2. ASSUME NEW c \in Clients, RandomZombie(c) PROVE PickInv'
  <2>1. /\ phase = "select" /\ picks \in Nat \ {0} /\ picks' = picks - 1
        /\ lastZombie' = c /\ lastZombie2' = lastZombie /\ c # lastZombie
        /\ phase' = IF picks = 1 THEN "wake" ELSE "select"
    BY <1>2 DEF RandomZombie, Eligible, TypeInv, TypeOK
  <2>2. /\ Zombies' = Zombies \cup {c}
        /\ NumPlayers \in Nat /\ NumPlayers' \in Nat /\ NumPlayers <= NumPlayers'
        /\ NumZombies \in Nat
    BY <1>2, PickPlayers, PlayersFinite DEF TypeInv
  <2>3. CASE picks = 1
    BY <2>1, <2>3 DEF PickInv
  <2>4. CASE picks # 1
    <3> SUFFICES ASSUME NumPlayers' < 4 * ZombieRatio
                 PROVE  /\ picks' + NumZombies' <= 3
                        /\ picks' + NumZombies' = 3 => NumPlayers' > 2
                        /\ \/ Zombies' = {lastZombie'}
                           \/ /\ Zombies' = {lastZombie', lastZombie2'}
                              /\ lastZombie' # lastZombie2'
      BY <2>1, <2>4 DEF PickInv
    <3>1. NumPlayers < 4 * ZombieRatio
      BY <2>2, ConstantsAssumption DEF ConstantsAssumption
    <3>2. NumZombies' = NumZombies + 1
      BY <1>2, <3>1, PickIsNew
    <3>3. /\ picks + NumZombies <= 3
          /\ picks + NumZombies = 3 => NumPlayers > 2
          /\ \/ Zombies = {}
             \/ Zombies = {lastZombie}
             \/ Zombies = {lastZombie, lastZombie2} /\ lastZombie # lastZombie2
      BY <2>1, <3>1 DEF PickInv
    <3>4. Zombies = {} \/ Zombies = {lastZombie}
      <4> SUFFICES ASSUME Zombies = {lastZombie, lastZombie2},
                          lastZombie # lastZombie2
                   PROVE  FALSE
        BY <3>3
      <4>1. NumZombies = 2
        BY PairCardinality DEF NumZombies
      <4> QED BY <2>1, <2>4, <3>3, <4>1
    <3> QED BY <2>1, <2>2, <3>2, <3>3, <3>4
  <2> QED BY <2>3, <2>4
<1>3. CASE phase' # "select" /\ phase # "select" /\ picks' \in {0, picks}
  BY <1>3 DEF PickInv
<1>4. CASE UNCHANGED vars
  BY <1>4 DEF vars, players, choice, PickInv, NumPlayers, NumZombies, Zombies,
              Humans, OnTeam, HasPlayer
<1> QED BY <1>1, <1>2, <1>3, <1>4, PickSteps

\* Whatever the settings and the administrator do, every pick of a selection of
\* up to three turns another player: the zombies made so far are exactly those
\* RandomZombie leaves out, since nothing but a pick happens in between, and
\* with three to choose there are always enough players to leave two out.
THEOREM PicksAreNew == Spec => EveryPickIsNew
<1>1. Init => PickInv
  BY DEF Init, PickInv
<1>2. TypeInv /\ PickInv /\ [Next]_vars => PickInv'
  BY PickStep
<1>3. TypeInv /\ PickInv /\ [Next]_vars =>
        [picks' = picks - 1 /\ NumPlayers < 4 * ZombieRatio =>
           NumZombies' = NumZombies + 1]_vars
  <2> SUFFICES ASSUME TypeInv, PickInv, [Next]_vars, picks' = picks - 1,
                      NumPlayers < 4 * ZombieRatio
               PROVE  NumZombies' = NumZombies + 1
    OBVIOUS
  <2>1. picks \in Nat
    BY DEF TypeInv, TypeOK
  <2>2. ~ BeginSelection
    BY <2>1, ZAtStartPositive DEF BeginSelection, PickInv
  <2>3. ~ UNCHANGED vars
    BY <2>1 DEF vars, choice
  <2>4. ~ (phase # "select" /\ picks' \in {0, picks})
    BY <2>1 DEF PickInv
  <2> QED BY <2>2, <2>3, <2>4, PickSteps, PickIsNew
<1> QED BY <1>1, <1>2, <1>3, TypeInvariant, PTL DEF Spec, EveryPickIsNew
-----------------------------------------------------------------------------
(* The warm-up and the zombies. *)

\* A round without chosen zombies warms up, and a selection happens during a
\* warm-up.
WarmupInv ==
  /\ selected \/ warmup > 0
  /\ phase = "select" => warmup > 0 /\ ~ selected

\* StartRound begins a warm-up without zombies.
LEMMA StartRoundRound ==
  ASSUME WarmupOn, StartRound
  PROVE  warmup' > 0 /\ ~ selected' /\ Zombies' = {}
<1>1. warmup' > 0 /\ ~ selected'
  BY DEF WarmupOn, StartRound, DoWarmup
<1>2. \A c \in Clients : team'[c] # RED
  BY DEF StartRound, ResetZombies, SPECTATORS, RED, BLUE
<1> QED BY <1>1, <1>2 DEF Zombies, OnTeam

\* The warm-up waits for the selection, whatever a step does: only the end of
\* a selection chooses, and only the countdown, which waits for it, ends it.
LEMMA WarmupStep ==
  ASSUME WarmupOn, NoRestartNow, TypeInv, WarmupInv, [Next]_vars
  PROVE  WarmupInv'
<1> USE DEF WarmupInv, choice, clock
<1>1. CASE Messages
  BY <1>1 DEF Messages, OnClientConnected, OnClientEnter, OnClientDrop,
              SetTeamMessage
<1>2. CASE Console
  <2>1. CASE ConRestart
    BY <2>1, StartRoundRound DEF ConRestart
  <2>2. CASE \E ticks \in RestartTimes : ConRestartIn(ticks)
    BY <2>2, ConstantsAssumption
       DEF ConstantsAssumption, NoRestartNow, ConRestartIn, DoWarmup
  <2> QED BY <1>2, <2>1, <2>2 DEF Console, ConPause, ConSetTeam, ConSetTeamAll,
                                  ConSwapTeams, ConShuffleTeams, ConKillPlayer,
                                  ConSkipMap
<1>3. CASE Tick
  <2>1. CASE BeginSelection \/ NextRound
    BY <2>1, StartRoundRound DEF BeginSelection, NextRound
  <2>2. CASE \E c \in Clients : RandomZombie(c)
    BY <2>2 DEF RandomZombie, TypeInv, TypeOK
  <2>3. CASE TooFewPlayers
    BY <2>3, StartRoundRound DEF TooFewPlayers
  <2>4. CASE CountDown
    BY <2>4 DEF CountDown
  <2> QED BY <1>3, <2>1, <2>2, <2>3, <2>4
          DEF Tick, BeginTick, Die, EndWorldTick, SkipWarmup, WakeUp,
              GameOverWaits, DoWinCheck, PlayersTick
<1>4. CASE LoadMap
  BY <1>4 DEF LoadMap, NewMap, DoWarmup, WarmupOn
<1>5. CASE UNCHANGED vars
  BY <1>5 DEF vars
<1> QED BY <1>1, <1>2, <1>3, <1>4, <1>5 DEF Next

\* WarmupInv holds in every state.
LEMMA WarmupInvariant ==
  ASSUME WarmupOn, NoRestartNow PROVE Spec => []WarmupInv
<1>1. Init => WarmupInv
  BY DEF Init, WarmupInv, WarmupOn
<1> QED BY <1>1, WarmupStep, TypeInvariant, PTL DEF Spec

\* The warm-up never runs out before the zombies are chosen, whoever joins,
\* leaves, dies or is moved in between, and also when the administrator pauses
\* the world or restarts with another warm-up.
THEOREM SelectionBeforePlay ==
  ASSUME WarmupOn, NoRestartNow PROVE Spec => []PlayFollowsSelection
<1>1. WarmupInv => PlayFollowsSelection
  BY DEF WarmupInv, PlayFollowsSelection
<1> QED BY <1>1, WarmupInvariant, PTL

\* During a warm-up nobody becomes a zombie on request.
LEMMA NoTeamChangeToZombies ==
  ASSUME TypeOK, warmup > 0, NEW c \in Clients, NEW t \in Teams,
         TeamChangeAllowed(c, t)
  PROVE  t # RED
BY DEF TypeOK, TeamChangeAllowed

\* Connections and team messages make no zombie before the selection.
LEMMA MessagesRound ==
  ASSUME TypeOK, WarmupInv, NoZombieBeforeSelection, Messages
  PROVE  NoZombieBeforeSelection'
<1> USE DEF WarmupInv, NoZombieBeforeSelection, choice, clock, Zombies, OnTeam,
            HasPlayer
<1>1. CASE \E c \in Clients, spec \in BOOLEAN : OnClientConnected(c, spec)
  BY <1>1 DEF OnClientConnected, TypeOK, GetAutoTeam, SPECTATORS, RED, BLUE
<1>2. CASE \E c \in Clients : OnClientEnter(c)
  BY <1>2 DEF OnClientEnter, TypeOK
<1>3. CASE \E c \in Clients : OnClientDrop(c)
  BY <1>3 DEF OnClientDrop, TypeOK
<1>4. ASSUME NEW c \in Clients, NEW t \in Teams, SetTeamMessage(c, t)
      PROVE  NoZombieBeforeSelection'
  <2>1. team' = [team EXCEPT ![c] = t] /\ TeamChangeAllowed(c, t)
    BY <1>4 DEF SetTeamMessage, DoTeamChange, SetTeams
  <2>2. warmup > 0 => t # RED
    BY <2>1, NoTeamChangeToZombies
  <2> QED BY <1>4, <2>1, <2>2 DEF SetTeamMessage, TypeOK
<1> QED BY <1>1, <1>2, <1>3, <1>4 DEF Messages

\* Without swapping or shuffling the remote console makes none either.
LEMMA ConsoleRound ==
  ASSUME WarmupOn, TeamsKept, TypeOK, WarmupInv, NoZombieBeforeSelection,
         Console
  PROVE  NoZombieBeforeSelection'
<1> USE DEF WarmupInv, NoZombieBeforeSelection, choice, clock, players
<1>1. CASE ConRestart
  BY <1>1, StartRoundRound DEF ConRestart
<1>2. ASSUME NEW c \in Clients, NEW t \in Teams, ConSetTeam(c, t)
      PROVE  NoZombieBeforeSelection'
  <2>1. \/ team' = team
        \/ team' = [team EXCEPT ![c] = t] /\ (warmup > 0 => t # RED)
    BY <1>2, NoTeamChangeToZombies DEF ConSetTeam, DoTeamChange, SetTeams
  <2> QED BY <1>2, <2>1 DEF ConSetTeam, TypeOK, Zombies, OnTeam, HasPlayer
<1>3. ASSUME NEW t \in Teams, ConSetTeamAll(t)
      PROVE  NoZombieBeforeSelection'
  <2>1. PICK movers \in SUBSET {c \in Clients : TeamChangeAllowed(c, t)} :
          team' = [c \in Clients |-> IF c \in movers THEN t ELSE team[c]]
    <3> DEFINE asked == {c \in Clients : HasPlayer(c) /\ TeamChangeAllowed(c, t)}
    <3>1. PICK stays \in SUBSET asked :
            SetTeams([c \in Clients |-> IF c \in asked \ stays
                                        THEN t ELSE team[c]])
      BY <1>3 DEF ConSetTeamAll
    <3> WITNESS asked \ stays \in SUBSET {c \in Clients : TeamChangeAllowed(c, t)}
    <3> QED BY <3>1 DEF SetTeams
  <2>2. movers # {} /\ warmup > 0 => t # RED
    BY NoTeamChangeToZombies
  <2> QED BY <1>3, <2>1, <2>2 DEF ConSetTeamAll, TypeOK, Zombies, OnTeam,
                                  HasPlayer
<1>4. CASE \E c \in Clients : ConKillPlayer(c)
  BY <1>4 DEF ConKillPlayer, TypeOK, Zombies, OnTeam, HasPlayer
<1>5. CASE \/ ConSkipMap \/ ConPause
           \/ \E ticks \in RestartTimes : ConRestartIn(ticks)
  BY <1>5 DEF ConSkipMap, ConPause, ConRestartIn, Zombies, OnTeam, HasPlayer
<1> QED BY <1>1, <1>2, <1>3, <1>4, <1>5
        DEF TeamsKept, Console, ConSwapTeams, ConShuffleTeams

\* A step of the tick makes none.
LEMMA TickRound ==
  ASSUME WarmupOn, TypeInv, WarmupInv, NoZombieBeforeSelection, Tick
  PROVE  NoZombieBeforeSelection'
<1> USE DEF WarmupInv, NoZombieBeforeSelection, choice, clock, players
<1>1. CASE BeginTick
  BY <1>1 DEF BeginTick, Zombies, OnTeam, HasPlayer
<1>2. CASE \E c \in Clients, respawn \in BOOLEAN : Die(c, respawn)
  BY <1>2 DEF Die, TypeInv, TypeOK, Zombies, OnTeam, HasPlayer
<1>3. CASE EndWorldTick \/ SkipWarmup \/ GameOverWaits
  BY <1>3 DEF EndWorldTick, SkipWarmup, GameOverWaits, Zombies, OnTeam,
              HasPlayer
<1>4. CASE CountDown
  BY <1>4 DEF CountDown, Zombies, OnTeam, HasPlayer
<1>5. CASE BeginSelection
  BY <1>5, StartRoundRound DEF BeginSelection
<1>6. CASE \E c \in Clients : RandomZombie(c)
  BY <1>6 DEF RandomZombie, TypeInv, TypeOK
<1>7. CASE TooFewPlayers
  <2>1. CASE StartRound
    BY <1>7, <2>1, StartRoundRound DEF TooFewPlayers
  <2>2. CASE ~ StartRound
    BY <1>7, <2>2 DEF TooFewPlayers, Zombies, OnTeam, HasPlayer
  <2> QED BY <2>1, <2>2
<1>8. CASE WakeUp
  BY <1>8 DEF WakeUp, Zombies, OnTeam, HasPlayer
<1>9. CASE NextRound
  BY <1>9, StartRoundRound DEF NextRound
<1>10. CASE DoWinCheck \/ PlayersTick
  BY <1>10 DEF DoWinCheck, PlayersTick, Zombies, OnTeam, HasPlayer
<1> QED BY <1>1, <1>2, <1>3, <1>4, <1>5, <1>6, <1>7, <1>8, <1>9, <1>10 DEF Tick

\* A new map begins without zombies.
LEMMA LoadMapRound ==
  ASSUME NoZombieBeforeSelection, LoadMap
  PROVE  NoZombieBeforeSelection'
<1> USE DEF LoadMap, NoZombieBeforeSelection
<1>1. CASE NewMap
  BY <1>1 DEF NewMap, Zombies, OnTeam, HasPlayer
<1>2. CASE ~ NewMap
  BY <1>2 DEF players, choice, clock, Zombies, OnTeam, HasPlayer
<1> QED BY <1>1, <1>2

\* Nobody is a zombie before the initial zombies are chosen: none is left over
\* from the last round, and nobody becomes one by joining, by asking, by dying
\* or by set_team, also when the administrator pauses the world or restarts
\* with another warm-up.
THEOREM NoEarlyZombie ==
  ASSUME WarmupOn, NoRestartNow, TeamsKept
  PROVE  Spec => []NoZombieBeforeSelection
<1>1. Init => NoZombieBeforeSelection
  BY DEF Init, NoZombieBeforeSelection, Zombies, OnTeam, HasPlayer
<1>2. TypeInv /\ WarmupInv /\ NoZombieBeforeSelection /\ [Next]_vars =>
        NoZombieBeforeSelection'
  <2> SUFFICES ASSUME TypeInv, WarmupInv, NoZombieBeforeSelection, [Next]_vars
               PROVE  NoZombieBeforeSelection'
    OBVIOUS
  <2>1. CASE Next
    BY <2>1, MessagesRound, ConsoleRound, TickRound, LoadMapRound
       DEF Next, TypeInv
  <2>2. CASE UNCHANGED vars
    BY <2>2 DEF vars, players, choice, clock, Zombies, OnTeam, HasPlayer,
                NoZombieBeforeSelection
  <2> QED BY <2>1, <2>2
<1> QED BY <1>1, <1>2, TypeInvariant, WarmupInvariant, PTL DEF Spec
-----------------------------------------------------------------------------
(* The end of the round. *)

\* What a step does to the end of the round, the pause and the warm-up.
LEMMA EndingSteps ==
  ASSUME TypeOK, [Next]_vars
  PROVE  \/ gameOver' = -1 /\ ~ worldPaused'
         \/ warmup = 0 /\ warmup' = 0 /\ gameOver' # -1 /\ worldPaused'
         \/ /\ UNCHANGED worldPaused
            /\ (gameOver' = -1 <=> gameOver = -1)
            /\ warmup' = warmup \/ warmup > 0
         \/ UNCHANGED <<gameOver, warmup>> /\ ConPause
         \/ /\ UNCHANGED <<gameOver, worldPaused>>
            /\ \E ticks \in RestartTimes : ConRestartIn(ticks)
<1> USE DEF choice, clock, players, ending
<1>1. ASSUME StartRound PROVE gameOver' = -1 /\ ~ worldPaused'
  BY <1>1 DEF StartRound
<1>2. CASE Messages
  BY <1>2 DEF Messages, OnClientConnected, OnClientEnter, OnClientDrop,
              SetTeamMessage
<1>3. CASE Console
  <2>1. \/ ConRestart \/ ConPause
        \/ \E ticks \in RestartTimes : ConRestartIn(ticks)
        \/ UNCHANGED <<gameOver, worldPaused, warmup>>
    BY <1>3 DEF Console, ConSetTeam, ConSetTeamAll, ConSwapTeams,
                ConShuffleTeams, ConKillPlayer, ConSkipMap
  <2> QED BY <1>1, <2>1 DEF ConRestart, ConPause, ConRestartIn
<1>4. CASE Tick
  <2>1. CASE BeginTick
    BY <2>1 DEF BeginTick, TypeOK
  <2>2. CASE CountDown
    BY <2>2 DEF CountDown
  <2>3. CASE DoWinCheck
    BY <2>3 DEF DoWinCheck, EndRound
  <2>4. CASE BeginSelection \/ NextRound
    BY <1>1, <2>4 DEF BeginSelection, NextRound
  <2>5. CASE TooFewPlayers
    BY <1>1, <2>5 DEF TooFewPlayers
  <2>6. \/ BeginTick \/ CountDown \/ DoWinCheck \/ BeginSelection
        \/ NextRound \/ TooFewPlayers
        \/ UNCHANGED <<gameOver, worldPaused, warmup>>
    BY <1>4 DEF Tick, Die, EndWorldTick, SkipWarmup, RandomZombie, WakeUp,
                GameOverWaits, PlayersTick
  <2> QED BY <2>1, <2>2, <2>3, <2>4, <2>5, <2>6
<1>5. CASE LoadMap
  BY <1>5 DEF LoadMap, NewMap
<1>6. CASE UNCHANGED vars
  BY <1>6 DEF vars
<1> QED BY <1>2, <1>3, <1>4, <1>5, <1>6 DEF Next

\* No warm-up runs while a finished round is shown.
OverIsIdle == gameOver # -1 => warmup = 0

\* Only "restart n" can start one then.
LEMMA OverIdles == ASSUME NoRestartIn PROVE Spec => []OverIsIdle
<1>1. Init => OverIsIdle
  BY DEF Init, OverIsIdle
<1>2. TypeOK /\ OverIsIdle /\ [Next]_vars => OverIsIdle'
  BY EndingSteps DEF OverIsIdle, NoRestartIn, ConRestartIn, TypeOK
<1> QED BY <1>1, <1>2, TypeCorrect, PTL DEF Spec

\* The world is paused exactly while a finished round is shown, and no warm-up
\* runs then: EndRound, StartRound, the map change and the countdown agree in
\* every order, unless the administrator sets the pause or the warm-up by hand.
THEOREM GameOverPausesWorld ==
  ASSUME NoPause, NoRestartIn PROVE Spec => []GameOverStopsWorld
<1> DEFINE Paused == gameOver # -1 <=> worldPaused
<1>1. Init => Paused
  BY DEF Init
<1>2. TypeOK /\ Paused /\ [Next]_vars => Paused'
  <2> SUFFICES ASSUME TypeOK, Paused, [Next]_vars PROVE Paused'
    OBVIOUS
  <2> QED BY EndingSteps DEF NoPause, ConPause
<1>3. Paused /\ OverIsIdle => GameOverStopsWorld
  BY DEF OverIsIdle, GameOverStopsWorld
<1> QED BY <1>1, <1>2, <1>3, TypeCorrect, OverIdles, PTL DEF Spec

\* Nobody has won a round that is not over.
NoEarlyWinners == gameOver = -1 => winners = {}

\* Only the win check ends a round.
LEMMA OnlyWinCheckEnds ==
  ASSUME TypeOK, [Next]_vars
  PROVE  \/ gameOver' = -1 /\ winners' = {}
         \/ gameOver = -1 /\ DoWinCheck
         \/ (gameOver' = -1 <=> gameOver = -1) /\ winners' = winners
         \/ gameOver # -1 /\ gameOver' # -1
<1> USE DEF choice, clock, players, ending
<1>1. ASSUME StartRound PROVE gameOver' = -1 /\ winners' = {}
  BY <1>1 DEF StartRound
<1>2. CASE Messages
  BY <1>2 DEF Messages, OnClientConnected, OnClientEnter, OnClientDrop,
              SetTeamMessage
<1>3. CASE Console
  BY <1>1, <1>3 DEF Console, ConRestart, ConRestartIn, ConPause, ConSetTeam,
                    ConSetTeamAll, ConSwapTeams, ConShuffleTeams, ConKillPlayer,
                    ConSkipMap
<1>4. CASE Tick
  <2>1. CASE BeginTick
    BY <2>1 DEF BeginTick, TypeOK
  <2>2. CASE DoWinCheck
    BY <2>2 DEF DoWinCheck
  <2>3. CASE BeginSelection \/ NextRound \/ TooFewPlayers
    BY <1>1, <2>3 DEF BeginSelection, NextRound, TooFewPlayers
  <2>4. \/ BeginTick \/ DoWinCheck \/ BeginSelection \/ NextRound
        \/ TooFewPlayers
        \/ UNCHANGED <<gameOver, winners>>
    BY <1>4 DEF Tick, Die, EndWorldTick, SkipWarmup, CountDown, RandomZombie,
                WakeUp, GameOverWaits, PlayersTick
  <2> QED BY <2>1, <2>2, <2>3, <2>4
<1>5. CASE LoadMap
  BY <1>5 DEF LoadMap, NewMap
<1>6. CASE UNCHANGED vars
  BY <1>6 DEF vars
<1> QED BY <1>2, <1>3, <1>4, <1>5, <1>6 DEF Next

\* Whatever the settings and the administrator do, a round is won by the
\* zombies when no human is left and by the humans otherwise: the time limit of
\* EndRound, sixty times shorter, is over whenever that of DoWinCheck is.
THEOREM WinnersAgree == Spec => WinnerMatchesTeams
<1> DEFINE Agree == gameOver = -1 /\ gameOver' # -1 =>
                      winners' = (IF Humans = {} THEN {RED} ELSE {BLUE})
                                 \cup (IF Zombies = {} THEN {BLUE} ELSE {})
<1>1. Init => NoEarlyWinners
  BY DEF Init, NoEarlyWinners
<1>2. TypeOK /\ NoEarlyWinners /\ [Next]_vars => NoEarlyWinners'
  <2> SUFFICES ASSUME TypeOK, NoEarlyWinners, [Next]_vars, gameOver' = -1
               PROVE  winners' = {}
    BY DEF NoEarlyWinners
  <2>1. CASE DoWinCheck
    BY <2>1 DEF DoWinCheck, EndRound, ending, NoEarlyWinners
  <2> QED BY <2>1, OnlyWinCheckEnds DEF NoEarlyWinners
<1>3. TypeOK /\ NoEarlyWinners /\ [Next]_vars => [Agree]_vars
  <2> SUFFICES ASSUME TypeOK, NoEarlyWinners, [Next]_vars,
                      gameOver = -1, gameOver' # -1
               PROVE  winners' = (IF Humans = {} THEN {RED} ELSE {BLUE})
                                 \cup (IF Zombies = {} THEN {BLUE} ELSE {})
    OBVIOUS
  <2>1. DoWinCheck
    BY OnlyWinCheckEnds
  <2>2. /\ winners' = EndRoundWinners
        /\ elapsed >= WinCheckLimit \/ Humans = {} \/ Zombies = {}
    BY <2>1 DEF DoWinCheck, EndRound, ending, NoEarlyWinners
  <2>3. elapsed >= WinCheckLimit => elapsed >= EndRoundLimit
    BY ConstantsAssumption DEF ConstantsAssumption, TypeOK
  <2>4. RED # BLUE
    BY DEF RED, BLUE
  <2> HIDE DEF RED, BLUE
  <2>5. CASE Humans = {}
    BY <2>2, <2>4, <2>5 DEF EndRoundWinners
  <2>6. CASE Humans # {}
    BY <2>2, <2>3, <2>4, <2>6 DEF EndRoundWinners
  <2> QED BY <2>5, <2>6
<1> QED BY <1>1, <1>2, <1>3, TypeCorrect, PTL DEF Spec, WinnerMatchesTeams
-----------------------------------------------------------------------------
(* In play. *)

\* In play nobody becomes human on request.
LEMMA NoTeamChangeToHumans ==
  ASSUME warmup = 0, NEW c \in Clients, NEW t \in Teams, TeamChangeAllowed(c, t)
  PROVE  t # BLUE
BY DEF TeamChangeAllowed

\* A step that starts a round is not a step in play.
LEMMA StartRoundWarmsUp ==
  ASSUME WarmupOn, StartRound
  PROVE  warmup' # 0
BY DEF WarmupOn, StartRound, DoWarmup

\* No step in play makes anyone human: not joining, not a change of team, asked
\* for or ordered, and not a death; only swapping and shuffling the teams do.
THEOREM NoCure ==
  ASSUME WarmupOn, TeamsKept PROVE Spec => NoNewHumansInPlay
<1> DEFINE Stay == warmup = 0 /\ warmup' = 0 => Humans' \subseteq Humans
<1>1. TypeOK /\ [Next]_vars => [Stay]_vars
  <2> SUFFICES ASSUME TypeOK, [Next]_vars, warmup = 0, warmup' = 0
               PROVE  Humans' \subseteq Humans
    OBVIOUS
  <2> USE DEF Humans, OnTeam, HasPlayer, players
  <2>1. CASE Messages
    <3>1. CASE \E c \in Clients, spec \in BOOLEAN : OnClientConnected(c, spec)
      BY <3>1 DEF OnClientConnected, TypeOK, GetAutoTeam, SPECTATORS, RED, BLUE
    <3>2. CASE \E c \in Clients : OnClientEnter(c) \/ OnClientDrop(c)
      BY <3>2 DEF OnClientEnter, OnClientDrop, TypeOK
    <3>3. ASSUME NEW c \in Clients, NEW t \in Teams, SetTeamMessage(c, t)
          PROVE  Humans' \subseteq Humans
      <4>1. team' = [team EXCEPT ![c] = t] /\ t # BLUE
        BY <3>3, NoTeamChangeToHumans
           DEF SetTeamMessage, DoTeamChange, SetTeams
      <4> QED BY <3>3, <4>1 DEF SetTeamMessage, TypeOK
    <3> QED BY <2>1, <3>1, <3>2, <3>3 DEF Messages
  <2>2. CASE Console
    <3>1. ASSUME NEW c \in Clients, NEW t \in Teams, ConSetTeam(c, t)
          PROVE  Humans' \subseteq Humans
      <4>1. \/ team' = team
            \/ team' = [team EXCEPT ![c] = t] /\ t # BLUE
        BY <3>1, NoTeamChangeToHumans DEF ConSetTeam, DoTeamChange, SetTeams
      <4> QED BY <3>1, <4>1 DEF ConSetTeam, TypeOK
    <3>2. ASSUME NEW t \in Teams, ConSetTeamAll(t)
          PROVE  Humans' \subseteq Humans
      <4>1. \A c \in Clients : \/ team'[c] = team[c]
                               \/ team'[c] = t /\ TeamChangeAllowed(c, t)
        BY <3>2 DEF ConSetTeamAll, SetTeams
      <4> QED BY <3>2, <4>1, NoTeamChangeToHumans DEF ConSetTeamAll
    <3>3. CASE \E c \in Clients : ConKillPlayer(c)
      BY <3>3 DEF ConKillPlayer, TypeOK, RED, BLUE
    <3>4. CASE ConSkipMap
      BY <3>4 DEF ConSkipMap
    <3>5. ~ ConRestart
      BY StartRoundWarmsUp DEF ConRestart
    <3> QED BY <2>2, <3>1, <3>2, <3>3, <3>4, <3>5
            DEF TeamsKept, Console, ConRestartIn, ConPause, ConSwapTeams,
                ConShuffleTeams
  <2>3. CASE Tick
    <3>1. CASE \E c \in Clients, respawn \in BOOLEAN : Die(c, respawn)
      BY <3>1 DEF Die, TypeOK, RED, BLUE
    <3>2. CASE \E c \in Clients : RandomZombie(c)
      BY <3>2 DEF RandomZombie, TypeOK, RED, BLUE
    <3>3. ~ BeginSelection /\ ~ NextRound /\ ~ TooFewPlayers
      BY StartRoundWarmsUp DEF BeginSelection, NextRound, TooFewPlayers
    <3> QED BY <2>3, <3>1, <3>2, <3>3
            DEF Tick, BeginTick, EndWorldTick, SkipWarmup, CountDown, WakeUp,
                GameOverWaits, DoWinCheck, PlayersTick
  <2>4. CASE LoadMap
    BY <2>4 DEF LoadMap, NewMap
  <2>5. CASE UNCHANGED vars
    BY <2>5 DEF vars
  <2> QED BY <2>1, <2>2, <2>3, <2>4, <2>5 DEF Next
<1> QED BY <1>1, TypeCorrect, PTL DEF Spec, NoNewHumansInPlay

\* A change of team in play leaves a zombie behind.
LEMMA ZombieLeftBehind ==
  ASSUME TypeOK, warmup = 0, Zombies # {}, NEW c \in Clients, NEW t \in Teams,
         TeamChangeAllowed(c, t), team' = [team EXCEPT ![c] = t],
         client' = client
  PROVE  Zombies' # {}
<1> USE DEF Zombies, OnTeam, HasPlayer, TypeOK
<1>1. CASE c \in Zombies
  <2>1. NumZombies >= 2
    BY <1>1, PlayersFinite DEF TeamChangeAllowed
  <2>2. Zombies \ {c} # {}
    BY <2>1, PlayersFinite, RemoveTwo DEF NumZombies
  <2> QED BY <2>2
<1>2. CASE c \notin Zombies
  BY <1>2
<1> QED BY <1>1, <1>2

\* The zombies vanish in play only when the last one disconnects: it may not
\* become a spectator, alone or with all the others.
THEOREM LastZombieKept ==
  ASSUME WarmupOn, TeamsKept PROVE Spec => LastZombieStays
<1> DEFINE Kept == warmup = 0 /\ warmup' = 0 /\ Zombies # {} /\ Zombies' = {} =>
                     \E c \in Zombies : client'[c] = "empty"
<1>1. TypeOK /\ [Next]_vars => [Kept]_vars
  <2> SUFFICES ASSUME TypeOK, [Next]_vars, warmup = 0, warmup' = 0,
                      Zombies # {}, Zombies' = {}
               PROVE  \E c \in Zombies : client'[c] = "empty"
    OBVIOUS
  <2> USE DEF Zombies, OnTeam, HasPlayer, players
  <2>1. CASE \E c \in Clients : OnClientDrop(c)
    BY <2>1 DEF OnClientDrop, TypeOK
  <2>2. ~ \E c \in Clients, t \in Teams : SetTeamMessage(c, t)
    <3> SUFFICES ASSUME NEW c \in Clients, NEW t \in Teams, SetTeamMessage(c, t)
                 PROVE  FALSE
      OBVIOUS
    <3>1. /\ team' = [team EXCEPT ![c] = t] /\ client' = client
          /\ TeamChangeAllowed(c, t)
      BY DEF SetTeamMessage, DoTeamChange, SetTeams
    <3> QED BY <3>1, ZombieLeftBehind
  <2>3. ~ \E c \in Clients, t \in Teams : ConSetTeam(c, t)
    <3> SUFFICES ASSUME NEW c \in Clients, NEW t \in Teams, ConSetTeam(c, t)
                 PROVE  FALSE
      OBVIOUS
    <3>1. /\ client' = client
          /\ \/ team' = team
             \/ team' = [team EXCEPT ![c] = t] /\ TeamChangeAllowed(c, t)
      BY DEF ConSetTeam, DoTeamChange, SetTeams
    <3> QED BY <3>1, ZombieLeftBehind
  <2>4. ~ \E t \in Teams : ConSetTeamAll(t)
    <3> SUFFICES ASSUME NEW t \in Teams, ConSetTeamAll(t)
                 PROVE  FALSE
      OBVIOUS
    <3> DEFINE asked == {c \in Clients : HasPlayer(c) /\ TeamChangeAllowed(c, t)}
    <3>1. PICK stays \in SUBSET asked :
            /\ IF t = SPECTATORS /\ warmup = 0 /\ asked \cap Zombies # {}
               THEN stays \subseteq Zombies /\ Cardinality(stays) = 1
               ELSE stays = {}
            /\ SetTeams([c \in Clients |-> IF c \in asked \ stays
                                          THEN t ELSE team[c]])
      BY DEF ConSetTeamAll
    <3>2. client' = client
      BY DEF ConSetTeamAll
    <3>3. CASE asked \cap Zombies = {}
      BY <3>1, <3>2, <3>3 DEF SetTeams
    <3>4. CASE asked \cap Zombies # {}
      <4>1. t = SPECTATORS
        BY <3>4 DEF TeamChangeAllowed
      <4>2. stays \subseteq Zombies /\ stays # {}
        BY <3>1, <3>4, <4>1, FS_EmptySet
      <4> QED BY <3>1, <3>2, <4>2 DEF SetTeams
    <3> QED BY <3>3, <3>4
  <2>5. ~ \E c \in Clients : ConKillPlayer(c)
    BY DEF ConKillPlayer, TypeOK, RED, BLUE
  <2>6. ~ \E c \in Clients, respawn \in BOOLEAN : Die(c, respawn)
    BY DEF Die, TypeOK, RED, BLUE
  <2>7. ~ \E c \in Clients : RandomZombie(c)
    BY DEF RandomZombie, TypeOK
  <2>8. ~ \E c \in Clients, spec \in BOOLEAN : OnClientConnected(c, spec)
    BY DEF OnClientConnected, TypeOK
  <2>9. ~ \E c \in Clients : OnClientEnter(c)
    BY DEF OnClientEnter, TypeOK
  <2>10. ~ ConRestart /\ ~ BeginSelection /\ ~ NextRound /\ ~ TooFewPlayers
    BY StartRoundWarmsUp DEF ConRestart, BeginSelection, NextRound,
                             TooFewPlayers
  <2>11. ~ (ConSkipMap \/ BeginTick \/ EndWorldTick \/ SkipWarmup \/ CountDown
            \/ WakeUp \/ GameOverWaits \/ DoWinCheck \/ PlayersTick)
    BY DEF ConSkipMap, BeginTick, EndWorldTick, SkipWarmup, CountDown, WakeUp,
           GameOverWaits, DoWinCheck, PlayersTick
  <2>12. ~ LoadMap
    BY DEF LoadMap, NewMap, DoWarmup, WarmupOn
  <2>13. ~ UNCHANGED vars
    BY DEF vars
  <2> QED BY <2>1, <2>2, <2>3, <2>4, <2>5, <2>6, <2>7, <2>8, <2>9, <2>10, <2>11,
             <2>12, <2>13
          DEF TeamsKept, Next, Messages, Console, Tick, ConRestartIn,
              ConPause, ConSwapTeams, ConShuffleTeams
<1> QED BY <1>1, TypeCorrect, PTL DEF Spec, LastZombieStays
-----------------------------------------------------------------------------
(* The round implements RoundCycle. *)

\* What a step does to the variables the cycle of rounds is about.
LEMMA CycleSteps ==
  ASSUME NoRestartIn, [Next]_vars
  PROVE  \/ UNCHANGED <<gameOver, winners, selected, warmup>>
         \/ gameOver' = -1 /\ winners' = {} /\ ~ selected'
         \/ BeginTick
         \/ CountDown
         \/ \E c \in Clients : RandomZombie(c)
         \/ DoWinCheck
<1> USE DEF choice, clock, players, ending
<1>1. ASSUME StartRound PROVE gameOver' = -1 /\ winners' = {} /\ ~ selected'
  BY <1>1 DEF StartRound
<1>2. CASE Messages
  BY <1>2 DEF Messages, OnClientConnected, OnClientEnter, OnClientDrop,
              SetTeamMessage
<1>3. CASE Console
  BY <1>1, <1>3 DEF Console, NoRestartIn, ConRestart, ConRestartIn, ConPause,
                    ConSetTeam, ConSetTeamAll, ConSwapTeams, ConShuffleTeams,
                    ConKillPlayer, ConSkipMap
<1>4. CASE Tick
  <2>1. CASE BeginSelection \/ NextRound \/ TooFewPlayers
    BY <1>1, <2>1 DEF BeginSelection, NextRound, TooFewPlayers
  <2> QED BY <1>4, <2>1 DEF Tick, Die, EndWorldTick, SkipWarmup, WakeUp,
                            GameOverWaits, PlayersTick
<1>5. CASE LoadMap
  BY <1>5 DEF LoadMap, NewMap
<1>6. CASE UNCHANGED vars
  BY <1>6 DEF vars
<1> QED BY <1>2, <1>3, <1>4, <1>5, <1>6 DEF Next

\* The server implements the cycle of rounds unless "restart n" is used: no order
\* of connections, team changes, deaths, ticks and commands skips a stage, and
\* no round ends without a winner.
THEOREM RoundImplementsCycle ==
  ASSUME WarmupOn, NoRestartIn PROVE Spec => ImplementsRoundCycle
<1> DEFINE Inv == TypeInv /\ WarmupInv /\ OverIsIdle
           Agree == gameOver = -1 /\ gameOver' # -1 =>
                      winners' = (IF Humans = {} THEN {RED} ELSE {BLUE})
                                 \cup (IF Zombies = {} THEN {BLUE} ELSE {})
<1>1. Init => Cycle!Init
  BY DEF Init, Cycle!Init, Stage
<1>2. Inv /\ [Next]_vars /\ [Agree]_vars => [Cycle!Next]_Cycle!vars
  <2> SUFFICES ASSUME Inv, [Next]_vars, [Agree]_vars
               PROVE  Cycle!Next \/ UNCHANGED <<Stage, winners>>
    BY DEF Cycle!vars
  <2> USE DEF Stage, choice, clock, ending
  <2>1. CASE UNCHANGED <<gameOver, winners, selected, warmup>>
    BY <2>1
  <2>2. CASE gameOver' = -1 /\ winners' = {} /\ ~ selected'
    BY <2>2 DEF Cycle!Next, Cycle!Restart
  <2>3. CASE BeginTick
    BY <2>3 DEF BeginTick, TypeInv, TypeOK
  <2>4. CASE CountDown
    <3>1. /\ gameOver = -1 /\ gameOver' = -1 /\ selected /\ selected'
          /\ warmup > 0 /\ warmup' \in Nat /\ winners' = winners
      BY <2>4 DEF CountDown, OverIsIdle, TypeInv, TypeOK
    <3> QED BY <3>1 DEF Cycle!Next, Cycle!Begin
  <2>5. CASE \E c \in Clients : RandomZombie(c)
    <3>1. /\ gameOver' = gameOver /\ winners' = winners /\ warmup' = warmup
          /\ warmup > 0 /\ gameOver = -1 /\ ~ selected
      BY <2>5 DEF RandomZombie, WarmupInv, OverIsIdle
    <3> QED BY <3>1 DEF Cycle!Next, Cycle!ChooseZombies, TypeInv, TypeOK
  <2>6. CASE DoWinCheck
    <3>1. selected' = selected /\ warmup' = warmup
      BY <2>6 DEF DoWinCheck
    <3>2. CASE gameOver' = gameOver /\ winners' = winners
      BY <3>1, <3>2
    <3>3. CASE ~ (gameOver' = gameOver /\ winners' = winners)
      <4>1. gameOver = -1 /\ warmup = 0 /\ EndRound
        BY <2>6, <3>3 DEF DoWinCheck
      <4>2. selected /\ gameOver' = 0
        BY <4>1 DEF WarmupInv, EndRound
      <4>3. Agree
        <5>1. ~ UNCHANGED vars
          BY <4>1, <4>2 DEF vars
        <5> QED BY <5>1
      <4>4. winners' # {} /\ winners' \subseteq {RED, BLUE}
        BY <4>1, <4>2, <4>3
      <4>5. Stage = "play" /\ Stage' = "over"
        BY <4>1, <4>2
      <4>6. winners' \in (SUBSET {RED, BLUE}) \ {{}}
        BY <4>4
      <4>7. Cycle!Finish
        BY ONLY <4>5, <4>6 DEF Cycle!Finish
      <4> QED BY <4>7 DEF Cycle!Next
    <3> QED BY <3>2, <3>3
  <2> QED BY <2>1, <2>2, <2>3, <2>4, <2>5, <2>6, CycleSteps
<1>3. Spec => [][Agree]_vars
  BY WinnersAgree DEF WinnerMatchesTeams
<1>4. NoRestartNow
  BY DEF NoRestartIn, NoRestartNow
<1> QED BY <1>1, <1>2, <1>3, TypeInvariant, WarmupInvariant, OverIdles, <1>4,
           PTL DEF Spec, ImplementsRoundCycle, Cycle!Spec
=============================================================================
