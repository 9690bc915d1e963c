--------------------------------- MODULE Vote ---------------------------------
(***************************************************************************)
(* A vote of the players (src/game/server/gamecontext.cpp): how it starts, *)
(* is counted in every tick of CGameContext::OnTick, and ends by majority, *)
(* time-out, veto, an administrator, or the departure of the player it is  *)
(* about.  Between two ticks players come, go, vote and move.              *)
(***************************************************************************)
EXTENDS Integers, FiniteSets

CONSTANTS
  Clients,        \* slots of clients, numbers
  Addresses,      \* IP addresses
  NoPlayer,       \* an empty slot of m_apPlayers
  Ages,           \* Ages[k]: how long a player may have been here
  Commands,       \* what votes are called for: "option", "kick", "ban", "spectate"
  Majorities,     \* the values that sv_vote_majority may have
  YesPercentage,  \* sv_vote_yes_percentage
  VoteTime,       \* sv_vote_time
  MaxVotes,       \* bound on m_VotePos
  MaxChanges      \* bound on what the players do besides voting

Ballots == {-1, 0, 1}
Player == [addr : Addresses, ingame : BOOLEAN, watching : BOOLEAN, afk : BOOLEAN,
           age : Ages, vote : Ballots, pos : Nat]

ASSUME VoteAssumption ==
  /\ Clients \subseteq Nat /\ Clients # {} /\ IsFiniteSet(Clients)
  /\ NoPlayer \notin Player
  /\ Ages \subseteq {"young", "grown", "veteran"}
  /\ Commands \subseteq {"option", "kick", "ban", "spectate"}
  /\ Majorities \subseteq BOOLEAN /\ Majorities # {}
  /\ YesPercentage \in 1 .. 100 /\ VoteTime \in Nat \ {0}
  /\ MaxVotes \in Nat /\ MaxChanges \in Nat

VARIABLES
  majority,    \* sv_vote_majority, a setting
  player,      \* m_apPlayers; "young" is before m_FirstVoteTick, "veteran" has the veto
  running,     \* m_VoteCloseTime # 0
  timeLeft,    \* m_VoteCloseTime - time_get()
  creator,     \* m_VoteCreator
  command,     \* what m_aVoteCommand and m_VoteType say
  target,      \* the slot or the address that m_aVoteCommand names
  votePos,     \* m_VotePos
  voteUpdate,  \* m_VoteUpdate
  enforce,     \* m_VoteEnforce
  willPass,    \* m_VoteWillPass
  named,       \* history: target is still the player the vote was called for
  forced,      \* history: an administrator decided about this vote
  drifted,     \* history: who counts may have changed without m_VoteUpdate
  changes      \* what the players did besides voting, for the bound

subject == <<majority, creator, command, target>>
history == <<named, forced, drifted, changes>>
vars == <<player, running, timeLeft, subject, votePos, voteUpdate, enforce, willPass, history>>

Present(i) == player[i] # NoPlayer
Newcomer(a, g) ==
  [addr |-> a, ingame |-> FALSE, watching |-> FALSE, afk |-> TRUE, age |-> g,
   vote |-> 0, pos |-> 0]

(* A player who has been in the game for a while, without a vote so far. *)
Settled ==
  [addr : Addresses, ingame : {TRUE}, watching : {FALSE}, afk : {FALSE},
   age : Ages \ {"young"}, vote : {0}, pos : {0}]

Init ==
  /\ player \in [Clients -> {NoPlayer} \cup Settled]
  /\ majority \in Majorities
  /\ running = FALSE /\ timeLeft = 0
  /\ command = "none" /\ target = (CHOOSE i \in Clients : TRUE) /\ creator = target
  /\ votePos = 0 /\ enforce = "unknown"
  /\ voteUpdate = FALSE /\ willPass \in BOOLEAN
  /\ named = FALSE /\ forced = FALSE /\ drifted = FALSE /\ changes = 0
--------------------------------------------------------------------------------
(* The count.  Of several players with the same address the first who may
   vote stands for the others after him, with the vote cast last. *)
KickOrSpec == command \in {"kick", "ban", "spectate"}
MayVote(i) ==
  /\ Present(i)
  /\ KickOrSpec => ~player[i].watching /\ player[i].age # "young"
  /\ player[i].afk => i = creator
  /\ player[i].ingame
Counted ==
  {i \in Clients : MayVote(i) /\
     \A j \in Clients : j < i /\ MayVote(j) => player[j].addr # player[i].addr}
Behind(i) ==
  {j \in Clients : j >= i /\ Present(j) /\ player[j].addr = player[i].addr}
CurVote(i) ==
  player[CHOOSE j \in Behind(i) :
           \A k \in Behind(i) : player[k].pos <= player[j].pos].vote

Total == Cardinality(Counted)
Yes == Cardinality({i \in Counted : CurVote(i) > 0})
No == Cardinality({i \in Counted : CurVote(i) < 0})
MorePros == 100 * Yes > (Yes + No) * YesPercentage

(* The veto of long-standing players, unless the vote is about a player. *)
VetoOf(i) ==
  /\ ~KickOrSpec
  /\ \E j \in Behind(i) : ~player[j].afk /\ ~player[j].watching /\ player[j].age = "veteran"
Veto == \E i \in Counted : VetoOf(i) /\ CurVote(i) = 0
VetoStop == \E i \in Counted : VetoOf(i) /\ CurVote(i) < 0

(* m_VoteWillPass and m_VoteEnforce after the count of a tick, if one is due. *)
WillPass == IF voteUpdate THEN MorePros ELSE willPass
AfterCount ==
  IF ~voteUpdate THEN enforce
  ELSE IF VetoStop THEN "no"
  ELSE IF 100 * Yes > Total * YesPercentage /\ ~Veto THEN "yes"
  ELSE IF 100 * No >= Total * (100 - YesPercentage) THEN "no"
  ELSE enforce
(* A variant of Decision that decides before it counts. *)
DecisionBeforeCount ==
  IF timeLeft = 0 /\ ~majority
  THEN IF willPass /\ ~(voteUpdate /\ Veto) THEN "yes" ELSE "no"
  ELSE AfterCount
Decision ==
  IF timeLeft = 0 /\ ~majority
  THEN IF WillPass /\ ~(voteUpdate /\ Veto) THEN "yes" ELSE "no"
  ELSE AfterCount
--------------------------------------------------------------------------------
(* Players come, go, move and grow old;
   what they do is bounded. *)
Change == changes < MaxChanges /\ changes' = changes + 1

OnClientConnected(i, p) ==
  /\ Change
  /\ ~Present(i)
  /\ player' = [player EXCEPT ![i] = p]
  /\ UNCHANGED <<running, timeLeft, subject, votePos, voteUpdate, enforce, willPass,
                 named, forced, drifted>>

OnClientEnter(i) ==
  /\ Change
  /\ Present(i) /\ ~player[i].ingame
  /\ player' = [player EXCEPT ![i].ingame = TRUE]
  /\ voteUpdate' = TRUE
  /\ UNCHANGED <<running, timeLeft, subject, votePos, enforce, willPass,
                 named, forced, drifted>>

(* A variant of AbortVoteKickOnDisconnect: the vote goes on. *)
AbortVoteKickOnDisconnectNever(S) == enforce' = enforce
(* m_aVoteCommand starts with "kick "; the commands of other votes start
   with "ban " or "uninvite ". *)
AbortVoteKickOnDisconnect(S) ==
  enforce' = IF running /\ command = "kick" /\ target \in S THEN "abort" ELSE enforce

OnClientDrop(i) ==
  /\ Change
  /\ Present(i)
  /\ AbortVoteKickOnDisconnect({i})
  /\ player' = [player EXCEPT ![i] = NoPlayer]
  /\ voteUpdate' = TRUE
  /\ named' = (named /\ target # i)
  /\ UNCHANGED <<running, timeLeft, subject, votePos, willPass, forced, drifted>>

SetTeamMessage(i) ==
  /\ Change
  /\ Present(i) /\ player[i].ingame
  /\ player' = [player EXCEPT ![i].watching = ~@]
  /\ voteUpdate' = TRUE
  /\ UNCHANGED <<running, timeLeft, subject, votePos, enforce, willPass,
                 named, forced, drifted>>

(* Nobody asks for a count when the console moves a player, ... *)
Drift(i, p) ==
  /\ Change
  /\ Present(i)
  /\ player' = [player EXCEPT ![i] = p]
  /\ drifted' = TRUE
  /\ UNCHANGED <<running, timeLeft, subject, votePos, voteUpdate, enforce, willPass,
                 named, forced>>
ConSetTeam(i) == Drift(i, [player[i] EXCEPT !.watching = ~@])
(* ... when one is away or back again, ... *)
AfkTimer(i) == Present(i) /\ player[i].ingame /\ Drift(i, [player[i] EXCEPT !.afk = ~@])
(* ... and when time brings the right to vote or the veto. *)
GrowOld(i) ==
  Present(i) /\ \E g \in Ages :
    /\ <<player[i].age, g>> \in {<<"young", "grown">>, <<"grown", "veteran">>}
    /\ Drift(i, [player[i] EXCEPT !.age = g])
--------------------------------------------------------------------------------
(* NETMSGTYPE_CL_CALLVOTE, CallVote and StartVote. *)
MayBeTarget(i, j) ==
  /\ Present(j) /\ i # j
  /\ ~player[i].watching /\ ~player[j].watching

CallVote(i, c, t) ==
  /\ Change
  /\ ~running
  /\ Present(i) /\ player[i].ingame /\ player[i].age # "young"
  /\ \/ c = "option" /\ t = i
     \/ c = "ban" /\ \E j \in Clients : MayBeTarget(i, j) /\ t = player[j].addr
     \/ c \in {"kick", "spectate"} /\ t \in Clients /\ MayBeTarget(i, t)
  /\ running' = TRUE /\ timeLeft' = VoteTime
  /\ creator' = i /\ command' = c /\ target' = t
  /\ enforce' = "unknown"
  /\ player' = [j \in Clients |->
                  IF Present(j)
                  THEN [player[j] EXCEPT !.vote = IF j = i THEN 1 ELSE 0,
                                         !.pos = IF j = i THEN 1 ELSE 0]
                  ELSE NoPlayer]
  /\ votePos' = 1 /\ voteUpdate' = TRUE
  /\ named' = TRUE /\ forced' = FALSE
  /\ UNCHANGED <<majority, willPass, drifted>>

(* A variant of VoteMessage: nobody asks for a count. *)
VoteMessageUncounted(i, v) ==
  /\ running /\ votePos < MaxVotes
  /\ Present(i) /\ player[i].ingame
  /\ player' = [player EXCEPT ![i].vote = v, ![i].pos = votePos + 1]
  /\ votePos' = votePos + 1
  /\ UNCHANGED <<running, timeLeft, subject, voteUpdate, enforce, willPass, history>>

(* NETMSGTYPE_CL_VOTE; a player may vote again. *)
VoteMessage(i, v) ==
  /\ running /\ votePos < MaxVotes
  /\ Present(i) /\ player[i].ingame
  /\ player' = [player EXCEPT ![i].vote = v, ![i].pos = votePos + 1]
  /\ votePos' = votePos + 1
  /\ voteUpdate' = TRUE
  /\ UNCHANGED <<running, timeLeft, subject, enforce, willPass, history>>

(* The commands vote and vote_no. *)
ForceVote(success) ==
  /\ running
  /\ enforce' = IF success THEN "yes_admin" ELSE "no_admin"
  /\ forced' = TRUE
  /\ UNCHANGED <<player, running, timeLeft, subject, votePos, voteUpdate, willPass,
                 named, drifted, changes>>

(* Somebody whose address is to be banned logs in; the command is that of
   the last vote, also if it is over. *)
OnSetAuthed(i) ==
  /\ Present(i) /\ command = "ban" /\ target = player[i].addr
  /\ enforce' = "no_admin"
  /\ forced' = TRUE
  /\ UNCHANGED <<player, running, timeLeft, subject, votePos, voteUpdate, willPass,
                 named, drifted, changes>>

(* The game context is built anew with a map. *)
LoadMap ==
  /\ player' = [i \in Clients |-> NoPlayer]
  /\ running' = FALSE /\ command' = "none"
  /\ UNCHANGED <<majority, timeLeft, creator, target, votePos, voteUpdate, enforce, willPass, history>>

(* A variant of Clock: a vote that is over for long. *)
ClockRunsOn ==
  /\ running
  /\ timeLeft' = timeLeft - 1
  /\ UNCHANGED <<player, running, subject, votePos, voteUpdate, enforce, willPass, history>>

Clock ==
  /\ running /\ timeLeft > 0
  /\ timeLeft' = timeLeft - 1
  /\ UNCHANGED <<player, running, subject, votePos, voteUpdate, enforce, willPass, history>>
--------------------------------------------------------------------------------
(* The part of CGameContext::OnTick about a running vote. *)
AbortVote ==
  /\ running /\ enforce = "abort"
  /\ running' = FALSE
  /\ UNCHANGED <<player, timeLeft, subject, votePos, voteUpdate, enforce, willPass, history>>

EndVote == running' = FALSE /\ UNCHANGED <<timeLeft, subject, votePos, history>>

(* What m_aVoteCommand does to the players: whom it drops is dropped while the
   vote still runs; a ban may be denied. *)
Victims ==
  CASE command = "kick" -> {i \in Clients : i = target /\ Present(i)}
    [] command = "ban" -> {i \in Clients : Present(i) /\ player[i].addr = target}
    [] OTHER -> {}
Execute(decision) ==
  \E S \in IF command = "ban" THEN {{}, Victims} ELSE {Victims} :
    /\ player' = [i \in Clients |->
                    IF i \in S THEN NoPlayer
                    ELSE IF command = "spectate" /\ i = target /\ Present(i)
                         THEN [player[i] EXCEPT !.watching = TRUE] ELSE player[i]]
    /\ enforce' = IF command = "kick" /\ S # {} THEN "abort" ELSE decision
    /\ voteUpdate' = (voteUpdate \/ S # {})

(* decision is m_VoteEnforce after the count. *)
PassVote(decision, moderated) ==
  /\ decision = "yes"
  /\ ~(moderated /\ KickOrSpec /\ timeLeft > 0)
  /\ Execute("yes")
  /\ EndVote

PassByAdmin(decision) ==
  /\ decision = "yes_admin"
  /\ Execute("yes_admin")
  /\ EndVote

(* A variant of FailVote: the end of the time is not looked at. *)
FailVoteByCount(decision) ==
  /\ decision \in {"no", "no_admin"}
  /\ enforce' = decision
  /\ EndVote
  /\ UNCHANGED <<player, voteUpdate>>

FailVote(decision) ==
  /\ \/ decision \in {"no", "no_admin"}
     \/ decision = "unknown" /\ timeLeft = 0 /\ majority
  /\ enforce' = decision
  /\ EndVote
  /\ UNCHANGED <<player, voteUpdate>>

GoOn(decision, moderated) ==
  /\ \/ decision = "unknown" /\ ~(timeLeft = 0 /\ majority)
     \/ decision = "yes" /\ moderated /\ KickOrSpec /\ timeLeft > 0
  /\ enforce' = decision
  /\ voteUpdate' = FALSE
  /\ drifted' = (drifted /\ ~voteUpdate)
  /\ UNCHANGED <<player, running, timeLeft, subject, votePos, named, forced, changes>>

(* Whether somebody moderates is free; it takes a player in the game. *)
Moderated ==
  IF \E i \in Clients : Present(i) /\ player[i].ingame THEN BOOLEAN ELSE {FALSE}
Decide ==
  /\ running /\ enforce # "abort"
  /\ willPass' = WillPass
  /\ \E moderated \in Moderated :
       LET decision == Decision
       IN  \/ PassVote(decision, moderated)
           \/ PassByAdmin(decision)
           \/ FailVote(decision)
           \/ GoOn(decision, moderated)
Tick == AbortVote \/ Decide

Next ==
  \/ \E i \in Clients :
       \/ \E a \in Addresses, g \in Ages \ {"veteran"} :
            OnClientConnected(i, Newcomer(a, g))
       \/ OnClientEnter(i) \/ OnClientDrop(i)
       \/ SetTeamMessage(i) \/ ConSetTeam(i) \/ AfkTimer(i) \/ GrowOld(i)
       \/ \E c \in Commands, t \in Clients \cup Addresses : CallVote(i, c, t)
       \/ \E v \in {-1, 1} : VoteMessage(i, v)
       \/ OnSetAuthed(i)
  \/ \E success \in BOOLEAN : ForceVote(success)
  \/ LoadMap
  \/ Clock
  \/ Tick

Spec == Init /\ [][Next]_vars

(* Fairness: time passes, and the server ticks once more when it is over. *)
LiveSpec == Spec /\ WF_vars(Clock) /\ WF_vars(timeLeft = 0 /\ Tick)
--------------------------------------------------------------------------------
(* The players and the vote have the right shape. *)
TypeOK ==
  /\ majority \in Majorities
  /\ player \in [Clients -> Player \cup {NoPlayer}]
  /\ running \in BOOLEAN /\ timeLeft \in 0 .. VoteTime
  /\ creator \in Clients /\ command \in Commands \cup {"none"}
  /\ target \in Clients \cup Addresses
  /\ votePos \in Nat /\ voteUpdate \in BOOLEAN /\ willPass \in BOOLEAN
  /\ enforce \in {"unknown", "yes", "no", "yes_admin", "no_admin", "abort"}
  /\ named \in BOOLEAN /\ forced \in BOOLEAN /\ drifted \in BOOLEAN /\ changes \in Nat

(* m_VoteWillPass, by which a vote is decided when its time is over, is what
   the votes of those present say now: no vote, arrival, departure or message
   to change the team is left uncounted, and an earlier vote leaves nothing. *)
LastCountStands ==
  running /\ ~voteUpdate /\ ~drifted => (willPass <=> MorePros)

(* The step in which a vote passes by the votes of the players. *)
PassesNow ==
  /\ running /\ ~running' /\ enforce # "abort"
  /\ \E moderated \in Moderated :
       PassVote(Decision, moderated)

(* A kick vote that no administrator has decided kicks only the player it was
   called for: a slot that was given to another one since then is safe. *)
KickHitsNamed ==
  [][command = "kick" /\ ~forced /\ ~named => ~PassesNow]_vars

(* What the votes of the players decide is what the votes say in that tick: more
   of them are for it than against it, and before the time is over, or with
   sv_vote_majority, enough of all who count and no veto is open.  An early
   count, a count that is due or an older vote does not decide.  A vote about a
   player that waits for its end because somebody moderates is decided already. *)
PassesByMajority ==
  [][PassesNow /\ ~forced /\ (enforce = "yes" => ~KickOrSpec) =>
       /\ drifted \/ MorePros
       /\ majority \/ timeLeft > 0 =>
            100 * Yes > Total * YesPercentage /\ ~Veto]_vars

(* Every vote comes to an end. *)
VoteEnds == running ~> ~running

(* "veto right for players who have been active on server for long and who're
   not afk": an option does not pass by votes while one of them has not agreed. *)
VetoRespected == [][Veto => ~PassesNow]_vars
================================================================================
