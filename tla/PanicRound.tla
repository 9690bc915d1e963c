----------------------------- MODULE PanicRound -----------------------------
(***************************************************************************)
(* The round of the ZombPanic game mode: the client slots of the server,   *)
(* the teams, the warm-up that chooses and wakes the initial zombies, the  *)
(* win check, the game-over pause, the restart, and the map change.        *)
(*                                                                         *)
(* One server tick is the sequence of steps                                *)
(*    net -> world -> warmup (-> select -> wake) -> gameover -> wincheck   *)
(*        -> players -> net                                                *)
(* of CGameContext::OnTick (world, game controller, players), and the      *)
(* messages and remote-console commands arrive between two ticks (net).    *)
(* Ticks are counted in an abstract unit; the model is of a server with    *)
(* sv_spectable 0, sv_self_kill 0 and sv_inactivekick_time 0, the defaults *)
(* (no /pause, no self kill and no activity check).                        *)
(***************************************************************************)
EXTENDS Integers, FiniteSets

CONSTANTS
  Clients,          \* the client slots, MAX_CLIENTS of them
  None,             \* the client id -1
  SvWarmup,         \* sv_warmup, in ticks
  WinCheckLimit,    \* the time limit as DoWinCheck computes it, in ticks
  EndRoundLimit,    \* the time limit as EndRound computes it, in ticks
  GameOverTicks,    \* the ten seconds between the end of a round and the next
  ZombieRatio,      \* panic_zombie_ratio
  RoundsPerMap,     \* sv_rounds_per_map
  Rotations,        \* what the map rotation may yield, see CycleMap
  Rcon,             \* the remote-console commands that may be issued
  RestartTimes      \* the arguments (ticks) "restart" is given

SPECTATORS == "spectators"
RED        == "red"       \* the zombies
BLUE       == "blue"      \* the humans
Teams      == {SPECTATORS, RED, BLUE}

RconCommands == {"restart", "restart_in", "pause_game", "set_team",
                 "set_team_all", "swap_teams", "shuffle_teams", "kill_pl",
                 "skip_map"}

Phases == {"net", "world", "warmup", "select", "wake", "gameover",
           "wincheck", "players", "crashed"}

ASSUME ConstantsAssumption ==
  /\ IsFiniteSet(Clients)
  /\ None \notin Clients
  /\ SvWarmup \in Nat
  /\ WinCheckLimit \in Nat \ {0}
  /\ EndRoundLimit \in Nat
  /\ EndRoundLimit <= WinCheckLimit
  /\ GameOverTicks \in Nat
  /\ ZombieRatio \in Nat \ {0, 1}
  /\ RoundsPerMap \in Nat \ {0}
  /\ Rotations \subseteq {"none", "same", "other"}
  /\ Rcon \subseteq RconCommands
  /\ RestartTimes \subseteq Nat

VARIABLES
  phase,            \* where the server is in its tick
  client,           \* slot -> "empty", "ready" (connected) or "ingame"
  team,             \* slot -> CPlayer::m_Team
  asleep,           \* slot -> CPlayer::m_Paused is PAUSE_PAUSED
  chr,              \* slot -> CPlayer::m_pCharacter: "none", "alive", "dead"
  warmup,           \* m_Warmup
  lastWarmup,       \* m_LastWarmup
  selected,         \* m_ZombiesSelected
  picks,            \* the initial zombies RandomZombie still has to choose
  lastZombie,       \* m_LastZombie
  lastZombie2,      \* m_LastZombie2
  resetRequested,   \* CGameWorld::m_ResetRequested
  worldPaused,      \* CGameWorld::m_Paused
  gameOver,         \* -1, or the ticks since m_GameOverTick
  elapsed,          \* the unpaused ticks since m_RoundStartTick, up to the limit
  winners,          \* the teams whose m_aTeamscore is 999
  roundCount,       \* m_RoundCount, up to RoundsPerMap
  mapReload         \* CServer::m_MapReload

players == <<client, team, asleep, chr>>
choice  == <<selected, picks, lastZombie, lastZombie2>>
clock   == <<warmup, lastWarmup>>
ending  == <<worldPaused, gameOver, winners>>
maps    == <<roundCount, mapReload>>
vars    == <<phase, players, choice, clock, resetRequested, ending, elapsed,
             maps>>

TypeOK ==
  /\ phase \in Phases
  /\ client \in [Clients -> {"empty", "ready", "ingame"}]
  /\ team \in [Clients -> Teams]
  /\ asleep \in [Clients -> BOOLEAN]
  /\ chr \in [Clients -> {"none", "alive", "dead"}]
  /\ warmup \in Nat
  /\ lastWarmup \in Nat
  /\ selected \in BOOLEAN
  /\ picks \in Nat
  /\ lastZombie \in Clients \cup {None}
  /\ lastZombie2 \in Clients \cup {None}
  /\ resetRequested \in BOOLEAN
  /\ worldPaused \in BOOLEAN
  /\ gameOver \in Nat \cup {-1}
  /\ elapsed \in 0 .. WinCheckLimit
  /\ winners \subseteq {RED, BLUE}
  /\ roundCount \in 0 .. RoundsPerMap
  /\ mapReload \in BOOLEAN
-----------------------------------------------------------------------------
(* Who is there.  A player object exists as soon as its client is ready, so *)
(* a client that has not entered the game yet is counted with the others.   *)

HasPlayer(c) == client[c] # "empty"
OnTeam(t)    == {c \in Clients : HasPlayer(c) /\ team[c] = t}
Zombies      == OnTeam(RED)
Humans       == OnTeam(BLUE)
NumPlayers   == Cardinality(Zombies \cup Humans)
NumZombies   == Cardinality(Zombies)
NumHumans    == Cardinality(Humans)

\* The team of a player who joins now.
GetAutoTeam == IF warmup = 0 THEN RED ELSE BLUE

\* The number of initial zombies of a round.
ZAtStart == IF NumPlayers \div ZombieRatio = 0
            THEN 1 ELSE NumPlayers \div ZombieRatio

\* Variants of Eligible: both last zombies are always left out; the zombie just
\* chosen is not left out.
EligibleSkipsBoth == {c \in Clients : /\ HasPlayer(c)
                                      /\ c # lastZombie
                                      /\ c # lastZombie2}
EligibleMayRepeat == {c \in Clients : /\ HasPlayer(c)
                                      /\ ~ (NumPlayers > 2 /\ c = lastZombie2)}

\* Spectators are not left out.
Eligible == {c \in Clients : /\ HasPlayer(c)
                             /\ c # lastZombie
                             /\ ~ (NumPlayers > 2 /\ c = lastZombie2)}
-----------------------------------------------------------------------------
(* The round. *)

\* A variant of DoWarmup with the test of the sign the wrong way round.
DoWarmupNegated(ticks) ==
  /\ warmup' = 0
  /\ lastWarmup' = 0

DoWarmup(ticks) ==
  /\ warmup' = ticks
  /\ lastWarmup' = ticks

\* A variant of ResetZombies that only wakes the players.
ResetZombiesWakeOnly ==
  /\ team' = team
  /\ asleep' = [c \in Clients |-> asleep[c] /\ chr[c] # "alive"]

\* Everyone who plays is human again; CPlayer::Pause wakes only a character
\* that is alive.
ResetZombies ==
  /\ team' = [c \in Clients |-> IF team[c] = SPECTATORS
                                THEN SPECTATORS ELSE BLUE]
  /\ asleep' = [c \in Clients |-> asleep[c] /\ chr[c] # "alive"]

StartRound ==
  /\ resetRequested' = TRUE
  /\ elapsed' = 0
  /\ gameOver' = -1
  /\ worldPaused' = FALSE
  /\ DoWarmup(SvWarmup)
  /\ ResetZombies
  /\ winners' = {}
  /\ selected' = FALSE
  /\ UNCHANGED <<client, chr>>

\* A variant that leaves the time limit to DoWinCheck.
EndRoundWinnersNoLimit ==
  {t \in {RED, BLUE} : \/ t = RED /\ Humans = {}
                       \/ t = BLUE /\ Zombies = {}}

EndRoundWinners ==
  {t \in {RED, BLUE} :
     \/ /\ t = RED
        /\ Humans = {}
     \/ /\ t = BLUE
        /\ Zombies = {} \/ (Humans # {} /\ elapsed >= EndRoundLimit)}

\* A variant of EndRound that lets the world run on.
EndRoundRunsOn ==
  /\ winners' = winners \cup EndRoundWinners
  /\ UNCHANGED worldPaused
  /\ gameOver' = 0

EndRound ==
  /\ winners' = winners \cup EndRoundWinners
  /\ worldPaused' = TRUE
  /\ gameOver' = 0

\* The next map is queued or in the rotation and differs from the current one
\* ("other"), is the current one again ("same"), or there is none ("none").
CycleMap(rounds) ==
  \E r \in Rotations :
    /\ roundCount' = IF r = "none" THEN rounds ELSE 0
    /\ mapReload' = (r = "other" \/ (r = "none" /\ mapReload))
-----------------------------------------------------------------------------
(* Between two ticks: connections and messages. *)

\* The map is loaded and the client asks for its player.  It starts as a
\* spectator when it was one before a map change or in a tournament.
OnClientConnected(c, spec) ==
  /\ phase = "net"
  /\ client[c] = "empty"
  /\ client' = [client EXCEPT ![c] = "ready"]
  /\ team' = [team EXCEPT ![c] = IF spec THEN SPECTATORS ELSE GetAutoTeam]
  /\ UNCHANGED <<phase, asleep, chr, choice, clock, resetRequested, ending,
                 elapsed, maps>>

OnClientEnter(c) ==
  /\ phase = "net"
  /\ client[c] = "ready"
  /\ client' = [client EXCEPT ![c] = "ingame"]
  /\ UNCHANGED <<phase, team, asleep, chr, choice, clock, resetRequested,
                 ending, elapsed, maps>>

OnClientDrop(c) ==
  /\ phase = "net"
  /\ HasPlayer(c)
  /\ client' = [client EXCEPT ![c] = "empty"]
  /\ team' = [team EXCEPT ![c] = SPECTATORS]
  /\ asleep' = [asleep EXCEPT ![c] = FALSE]
  /\ chr' = [chr EXCEPT ![c] = "none"]
  /\ UNCHANGED <<phase, choice, clock, resetRequested, ending, elapsed, maps>>

\* Variants of TeamChangeAllowed: anyone may become human in play; the only
\* zombie may leave.
TeamChangeCures(c, t) ==
  /\ t # team[c]
  /\ ~ (team[c] = RED /\ t # SPECTATORS)
  /\ ~ (t = RED /\ warmup > 0)
  /\ ~ (team[c] = RED /\ NumZombies < 2 /\ warmup = 0)
TeamChangeFreesLastZombie(c, t) ==
  /\ t # team[c]
  /\ ~ (team[c] = RED /\ t # SPECTATORS)
  /\ ~ (warmup = 0 /\ t = BLUE)
  /\ ~ (t = RED /\ warmup > 0)
  /\ ~ (team[c] = BLUE /\ t # SPECTATORS /\ warmup = 0)

\* The refusals of CGameControllerDDRace::DoTeamChange.
TeamChangeAllowed(c, t) ==
  /\ t # team[c]
  /\ ~ (team[c] = RED /\ t # SPECTATORS)
  /\ ~ (warmup = 0 /\ t = BLUE)
  /\ ~ (t = RED /\ warmup > 0)
  /\ ~ (team[c] = BLUE /\ t # SPECTATORS /\ warmup = 0)
  /\ ~ (team[c] = RED /\ NumZombies < 2 /\ warmup = 0)

\* CPlayer::SetTeam for the players whose team newTeam changes.
SetTeams(newTeam) ==
  /\ team' = newTeam
  /\ chr' = [c \in Clients |-> IF newTeam[c] = team[c] THEN chr[c] ELSE "none"]

DoTeamChange(c, t) ==
  IF TeamChangeAllowed(c, t)
  THEN SetTeams([team EXCEPT ![c] = t])
  ELSE UNCHANGED <<team, chr>>

SetTeamMessage(c, t) ==
  /\ phase = "net"
  /\ ~ worldPaused
  /\ client[c] = "ingame"
  /\ ~ asleep[c]
  /\ TeamChangeAllowed(c, t)
  /\ DoTeamChange(c, t)
  /\ UNCHANGED <<phase, client, asleep, choice, clock, resetRequested, ending,
                 elapsed, maps>>
-----------------------------------------------------------------------------
(* Between two ticks: the remote console. *)

ConRestart ==
  /\ phase = "net" /\ "restart" \in Rcon
  /\ StartRound
  /\ UNCHANGED <<phase, picks, lastZombie, lastZombie2, maps>>

ConRestartIn(ticks) ==
  /\ phase = "net" /\ "restart_in" \in Rcon
  /\ DoWarmup(ticks)
  /\ UNCHANGED <<phase, players, choice, resetRequested, ending, elapsed, maps>>

ConPause ==
  /\ phase = "net" /\ "pause_game" \in Rcon
  /\ worldPaused' = ~ worldPaused
  /\ UNCHANGED <<phase, players, choice, clock, resetRequested, gameOver,
                 winners, elapsed, maps>>

\* Pause(PAUSE_NONE, false) is refused without sv_spectable, and
\* Pause(PAUSE_NONE, true) wakes only a player who still has a character.
ConSetTeam(c, t) ==
  /\ phase = "net" /\ "set_team" \in Rcon
  /\ HasPlayer(c)
  /\ DoTeamChange(c, t)
  /\ asleep' = [asleep EXCEPT ![c] = @ /\ ~ (t = SPECTATORS /\ chr'[c] # "none")]
  /\ UNCHANGED <<phase, client, choice, clock, resetRequested, ending, elapsed,
                 maps>>

\* The players change one after the other; in play the last zombie stays.
ConSetTeamAll(t) ==
  /\ phase = "net" /\ "set_team_all" \in Rcon
  /\ LET asked == {c \in Clients : HasPlayer(c) /\ TeamChangeAllowed(c, t)}
     IN \E stays \in SUBSET asked :
          /\ IF t = SPECTATORS /\ warmup = 0 /\ asked \cap Zombies # {}
             THEN stays \subseteq Zombies /\ Cardinality(stays) = 1
             ELSE stays = {}
          /\ SetTeams([c \in Clients |-> IF c \in asked \ stays
                                         THEN t ELSE team[c]])
  /\ UNCHANGED <<phase, client, asleep, choice, clock, resetRequested, ending,
                 elapsed, maps>>

ConSwapTeams ==
  /\ phase = "net" /\ "swap_teams" \in Rcon
  /\ SetTeams([c \in Clients |-> IF team[c] = RED THEN BLUE
                                 ELSE IF team[c] = BLUE THEN RED
                                 ELSE SPECTATORS])
  /\ UNCHANGED <<phase, client, asleep, choice, clock, resetRequested, ending,
                 elapsed, maps>>

\* Neither team gets more than half of the players, rounded up; every player's
\* character is killed, also when the team stays the same.
ConShuffleTeams ==
  /\ phase = "net" /\ "shuffle_teams" \in Rcon
  /\ \E red \in SUBSET (Zombies \cup Humans) :
       /\ Cardinality(red) <= (NumPlayers + 1) \div 2
       /\ NumPlayers - Cardinality(red) <= (NumPlayers + 1) \div 2
       /\ team' = [c \in Clients |-> IF c \in red THEN RED
                                     ELSE IF team[c] = SPECTATORS
                                     THEN SPECTATORS ELSE BLUE]
       /\ chr' = [c \in Clients |-> IF team[c] = SPECTATORS
                                    THEN chr[c] ELSE "none"]
  /\ UNCHANGED <<phase, client, asleep, choice, clock, resetRequested, ending,
                 elapsed, maps>>

\* A human killed in play is a zombie when the character comes back.
ConKillPlayer(c) ==
  /\ phase = "net" /\ "kill_pl" \in Rcon
  /\ chr[c] # "none"
  /\ team' = [team EXCEPT ![c] = IF @ = BLUE /\ warmup = 0 THEN RED ELSE @]
  /\ chr' = [chr EXCEPT ![c] = "none"]
  /\ UNCHANGED <<phase, client, asleep, choice, clock, resetRequested, ending,
                 elapsed, maps>>

ConSkipMap ==
  /\ phase = "net" /\ "skip_map" \in Rcon
  /\ CycleMap(roundCount)
  /\ UNCHANGED <<phase, players, choice, clock, resetRequested, ending, elapsed>>

Console ==
  \/ ConRestart
  \/ \E ticks \in RestartTimes : ConRestartIn(ticks)
  \/ ConPause
  \/ \E c \in Clients, t \in Teams : ConSetTeam(c, t)
  \/ \E t \in Teams : ConSetTeamAll(t)
  \/ ConSwapTeams
  \/ ConShuffleTeams
  \/ \E c \in Clients : ConKillPlayer(c)
  \/ ConSkipMap
-----------------------------------------------------------------------------
(* The tick. *)

\* CGameWorld::Tick starts; a requested reset destroys every character.
BeginTick ==
  /\ phase = "net"
  /\ phase' = "world"
  /\ resetRequested' = FALSE
  /\ chr' = [c \in Clients |-> IF resetRequested /\ chr[c] = "alive"
                               THEN "dead" ELSE chr[c]]
  /\ elapsed' = IF worldPaused \/ elapsed = WinCheckLimit
                THEN elapsed ELSE elapsed + 1
  /\ gameOver' = IF gameOver = -1 THEN -1 ELSE gameOver + 1
  /\ UNCHANGED <<client, team, asleep, choice, clock, worldPaused, winners,
                 maps>>

\* CCharacter::Die with OnCharacterDeath: a human who dies in play is a zombie
\* from now on.  A human whom damage kills in play stays where he is, without
\* a new character (respawn is FALSE).
Die(c, respawn) ==
  /\ phase = "world"
  /\ ~ worldPaused
  /\ chr[c] = "alive"
  /\ respawn \/ (team[c] = BLUE /\ warmup = 0)
  /\ team' = [team EXCEPT ![c] = IF @ = BLUE /\ warmup = 0 THEN RED ELSE @]
  /\ chr' = [chr EXCEPT ![c] = IF respawn THEN "dead" ELSE @]
  /\ UNCHANGED <<phase, client, asleep, choice, clock, resetRequested, ending,
                 elapsed, maps>>

EndWorldTick ==
  /\ phase = "world"
  /\ phase' = "warmup"
  /\ UNCHANGED <<players, choice, clock, resetRequested, ending, elapsed, maps>>

\* IGameController::Tick: no warm-up to do.
SkipWarmup ==
  /\ phase = "warmup"
  /\ worldPaused \/ warmup = 0
  /\ phase' = "gameover"
  /\ UNCHANGED <<players, choice, clock, resetRequested, ending, elapsed, maps>>

\* A variant of CountDown that does not wait for the zombies.
CountDownAlways ==
  /\ phase = "warmup"
  /\ ~ worldPaused /\ warmup > 0
  /\ NumPlayers > 1
  /\ warmup' = warmup - 1
  /\ phase' = "wake"
  /\ UNCHANGED <<players, choice, lastWarmup, resetRequested, ending, elapsed,
                 maps>>

\* A variant of CountDown that does not stop at zero.
CountDownPastZero ==
  /\ phase = "warmup"
  /\ ~ worldPaused
  /\ NumPlayers > 1
  /\ selected
  /\ warmup' = warmup - 1
  /\ phase' = "wake"
  /\ UNCHANGED <<players, choice, lastWarmup, resetRequested, ending, elapsed,
                 maps>>

CountDown ==
  /\ phase = "warmup"
  /\ ~ worldPaused /\ warmup > 0
  /\ NumPlayers > 1
  /\ selected
  /\ warmup' = warmup - 1
  /\ phase' = "wake"
  /\ UNCHANGED <<players, choice, lastWarmup, resetRequested, ending, elapsed,
                 maps>>

\* Two players are there for the first time: the round restarts and the
\* initial zombies are chosen.
BeginSelection ==
  /\ phase = "warmup"
  /\ ~ worldPaused /\ warmup > 0
  /\ NumPlayers > 1
  /\ ~ selected
  /\ StartRound
  /\ picks' = ZAtStart
  /\ phase' = "select"
  /\ UNCHANGED <<lastZombie, lastZombie2, maps>>

\* A variant of RandomZombie after which the selection is not remembered.
RandomZombieForgotten(c) ==
  /\ phase = "select"
  /\ c \in Eligible
  /\ lastZombie2' = lastZombie
  /\ lastZombie' = c
  /\ team' = [team EXCEPT ![c] = RED]
  /\ picks' = picks - 1
  /\ phase' = IF picks = 1 THEN "wake" ELSE "select"
  /\ UNCHANGED <<client, asleep, chr, selected, clock, resetRequested, ending,
                 elapsed, maps>>

\* CPlayer::SetZombie of the chosen player; the character, if there is one,
\* is left to the world reset.
RandomZombie(c) ==
  /\ phase = "select"
  /\ c \in Eligible
  /\ lastZombie2' = lastZombie
  /\ lastZombie' = c
  /\ team' = [team EXCEPT ![c] = RED]
  /\ picks' = picks - 1
  /\ selected' = (picks = 1)
  /\ phase' = IF picks = 1 THEN "wake" ELSE "select"
  /\ UNCHANGED <<client, asleep, chr, clock, resetRequested, ending, elapsed,
                 maps>>

\* Fewer than two players: the context of the server is reset.
TooFewPlayers ==
  /\ phase = "warmup"
  /\ ~ worldPaused /\ warmup > 0
  /\ NumPlayers <= 1
  /\ lastZombie' = None
  /\ lastZombie2' = None
  /\ roundCount' = 0
  /\ IF warmup # lastWarmup
     THEN StartRound
     ELSE UNCHANGED <<players, clock, selected, resetRequested, ending, elapsed>>
  /\ phase' = "gameover"
  /\ UNCHANGED <<picks, mapReload>>

\* The zombie chosen last is woken when the warm-up is over.  m_apPlayers[-1]
\* is memory before the array: null (nothing happens) or not (a crash).
WakeUp ==
  /\ phase = "wake"
  /\ \/ /\ phase' = "gameover"
        /\ asleep' = [c \in Clients |->
                        asleep[c] /\ ~ (/\ warmup = 0
                                        /\ c = lastZombie
                                        /\ chr[c] # "none")]
     \/ /\ warmup = 0
        /\ lastZombie = None
        /\ phase' = "crashed"
        /\ UNCHANGED asleep
  /\ UNCHANGED <<client, team, chr, choice, clock, resetRequested, ending,
                 elapsed, maps>>

GameOverWaits ==
  /\ phase = "gameover"
  /\ gameOver <= GameOverTicks
  /\ phase' = "wincheck"
  /\ UNCHANGED <<players, choice, clock, resetRequested, ending, elapsed, maps>>

NextRound ==
  /\ phase = "gameover"
  /\ gameOver > GameOverTicks
  /\ StartRound
  /\ IF roundCount + 1 >= RoundsPerMap
     THEN CycleMap(RoundsPerMap)
     ELSE roundCount' = roundCount + 1 /\ UNCHANGED mapReload
  /\ phase' = "wincheck"
  /\ UNCHANGED <<picks, lastZombie, lastZombie2>>

\* A variant of DoWinCheck without the time limit.
DoWinCheckUntimed ==
  /\ phase = "wincheck"
  /\ phase' = "players"
  /\ IF /\ gameOver = -1
        /\ warmup = 0
        /\ ~ resetRequested
        /\ Humans = {} \/ Zombies = {}
     THEN EndRound
     ELSE UNCHANGED ending
  /\ UNCHANGED <<players, choice, clock, resetRequested, elapsed, maps>>

DoWinCheck ==
  /\ phase = "wincheck"
  /\ phase' = "players"
  /\ IF /\ gameOver = -1
        /\ warmup = 0
        /\ ~ resetRequested
        /\ elapsed >= WinCheckLimit \/ Humans = {} \/ Zombies = {}
     THEN EndRound
     ELSE UNCHANGED ending
  /\ UNCHANGED <<players, choice, clock, resetRequested, elapsed, maps>>

\* CPlayer::Tick of everyone who is in the game: a dead character is deleted,
\* a player without one may find a spawn point.  A zombie that spawns during
\* the warm-up falls asleep.
PlayersTick ==
  /\ phase = "players"
  /\ phase' = "net"
  /\ IF worldPaused
     THEN UNCHANGED <<asleep, chr>>
     ELSE \E spawns \in SUBSET {c \in Clients : /\ client[c] = "ingame"
                                                /\ chr[c] = "none"
                                                /\ team[c] # SPECTATORS} :
            /\ chr' = [c \in Clients |->
                         IF c \in spawns THEN "alive"
                         ELSE IF chr[c] = "dead" THEN "none" ELSE chr[c]]
            /\ asleep' = [c \in Clients |->
                            \/ asleep[c]
                            \/ c \in spawns /\ team[c] = RED /\ warmup > 0]
  /\ UNCHANGED <<client, team, choice, clock, resetRequested, ending, elapsed,
                 maps>>

Tick ==
  \/ BeginTick
  \/ \E c \in Clients, respawn \in BOOLEAN : Die(c, respawn)
  \/ EndWorldTick
  \/ SkipWarmup
  \/ CountDown
  \/ BeginSelection
  \/ \E c \in Clients : RandomZombie(c)
  \/ TooFewPlayers
  \/ WakeUp
  \/ GameOverWaits
  \/ NextRound
  \/ DoWinCheck
  \/ PlayersTick
-----------------------------------------------------------------------------
(* The map change and the specification. *)

\* The server loop loads the new map: the game context and its controller are
\* built anew and the clients must connect again.  When the map cannot be
\* loaded the old one goes on.
NewMap ==
  /\ client' = [c \in Clients |-> "empty"]
  /\ team' = [c \in Clients |-> SPECTATORS]
  /\ asleep' = [c \in Clients |-> FALSE]
  /\ chr' = [c \in Clients |-> "none"]
  /\ DoWarmup(SvWarmup)
  /\ selected' = FALSE
  /\ picks' = 0
  /\ lastZombie' \in Clients \cup {None}
  /\ lastZombie2' \in Clients \cup {None}
  /\ resetRequested' = FALSE
  /\ worldPaused' = FALSE
  /\ gameOver' = -1
  /\ elapsed' = 0
  /\ winners' = {}
  /\ roundCount' = 0

LoadMap ==
  /\ phase = "net"
  /\ mapReload
  /\ mapReload' = FALSE
  /\ \/ NewMap
     \/ UNCHANGED <<players, choice, clock, resetRequested, ending, elapsed,
                    roundCount>>
  /\ UNCHANGED phase

Messages ==
  \/ \E c \in Clients, spec \in BOOLEAN : OnClientConnected(c, spec)
  \/ \E c \in Clients : OnClientEnter(c)
  \/ \E c \in Clients : OnClientDrop(c)
  \/ \E c \in Clients, t \in Teams : SetTeamMessage(c, t)

\* The constructors of the game context and its controller; m_LastZombie and
\* m_LastZombie2 are not initialised.
Init ==
  /\ phase = "net"
  /\ client = [c \in Clients |-> "empty"]
  /\ team = [c \in Clients |-> SPECTATORS]
  /\ asleep = [c \in Clients |-> FALSE]
  /\ chr = [c \in Clients |-> "none"]
  /\ warmup = SvWarmup
  /\ lastWarmup = SvWarmup
  /\ selected = FALSE
  /\ picks = 0
  /\ lastZombie \in Clients \cup {None}
  /\ lastZombie2 \in Clients \cup {None}
  /\ resetRequested = FALSE
  /\ worldPaused = FALSE
  /\ gameOver = -1
  /\ elapsed = 0
  /\ winners = {}
  /\ roundCount = 0
  /\ mapReload = FALSE

Next == Messages \/ Console \/ Tick \/ LoadMap

Spec == Init /\ [][Next]_vars

\* The server loop never stops ticking, whatever the clients do.
FairSpec == Spec /\ WF_vars(Tick)
-----------------------------------------------------------------------------
(* Safety. *)

\* The warm-up is over and the round is not: zombies hunt humans.
InPlay == warmup = 0 /\ gameOver = -1

\* RandomZombie always finds a player: the exclusion of the last two zombies
\* never empties the list (gamecontroller.cpp:1326-1358 would draw from 1..0
\* and convert slot 0, whoever is there).
SelectionHasCandidate == phase = "select" => Eligible # {}

\* Before the initial zombies are chosen there is no zombie, however players
\* join, leave, change team or die and whatever the last round left behind.
NoZombieBeforeSelection ==
  ~ selected /\ phase # "select" => Zombies = {}

\* The warm-up never runs out before the zombies were chosen, "or the round
\* will finish every time since there is no zombies" (gamecontroller.cpp:568).
PlayFollowsSelection == warmup = 0 => selected

\* The world stands still exactly while a finished round is shown, and then no
\* warm-up is running: EndRound, StartRound and Tick agree.
GameOverStopsWorld ==
  /\ gameOver # -1 <=> worldPaused
  /\ gameOver # -1 => warmup = 0

\* What EndRound decides matches why DoWinCheck ended the round: no human is
\* left and the zombies win, else the humans win (the two compute the time
\* limit differently); both win only when nobody plays.
WinnerMatchesTeams ==
  [][gameOver = -1 /\ gameOver' # -1 =>
       winners' = (IF Humans = {} THEN {RED} ELSE {BLUE})
                  \cup (IF Zombies = {} THEN {BLUE} ELSE {})]_vars

\* In play nobody becomes human: a zombie cannot be cured by leaving, by
\* spectating, by dying or by an administrator's set_team.
NoNewHumansInPlay ==
  [][warmup = 0 /\ warmup' = 0 => Humans' \subseteq Humans]_vars

\* In play the zombies only vanish when one disconnects: the last one may not
\* change to the spectators, on its own or when all are moved there.
LastZombieStays ==
  [][warmup = 0 /\ warmup' = 0 /\ Zombies # {} /\ Zombies' = {} =>
       \E c \in Zombies : client'[c] = "empty"]_vars

\* Every pick of a selection turns another player, so a round of up to three
\* initial zombies starts with as many as panic_zombie_ratio asks for.  Only
\* the last two picks are remembered (gamecontroller.cpp:1329): with four picks
\* or more the first one may come again.
EveryPickIsNew ==
  [][picks' = picks - 1 /\ NumPlayers < 4 * ZombieRatio =>
       NumZombies' = NumZombies + 1]_vars
-----------------------------------------------------------------------------
(* The round implements RoundCycle. *)

Stage == IF gameOver # -1 THEN "over"
         ELSE IF ~ selected THEN "lobby"
         ELSE IF warmup > 0 THEN "warmup" ELSE "play"

Cycle == INSTANCE RoundCycle WITH stage <- Stage, won <- winners,
                                  Sides <- {RED, BLUE}

\* Every step of the server is a step of the cycle of rounds or none of it: the
\* interplay of the countdown, the selection, the win check, the game-over wait
\* and the console never skips or repeats a stage.
ImplementsRoundCycle == Cycle!Spec
-----------------------------------------------------------------------------
(* Liveness. *)

\* Every round in play ends, at the latest when the time is up.
RoundEnds == InPlay ~> (gameOver # -1 \/ phase = "crashed")

\* A finished round is followed by a new warm-up.
GameOverRestarts == gameOver # -1 ~> warmup > 0

\* When at least two players stay, whoever they are, a warm-up does not last
\* for ever.
WarmupEnds == <>[](NumPlayers > 1) => []<>(warmup = 0)
-----------------------------------------------------------------------------
(* What the source's comments promise and the code does not keep. *)

\* "Wake up the initial zombies!" (gamecontroller.cpp:696): no zombie that is
\* in the game sleeps while the round is played.
InitialZombiesAwake ==
  phase = "net" /\ InPlay /\ ~ resetRequested =>
    \A c \in Zombies : ~ asleep[c]

\* "Prevent crash if the zombie disconnected before the round started, but
\* after selection" (gamecontroller.cpp:699).
NeverCrashes == phase # "crashed"
=============================================================================
