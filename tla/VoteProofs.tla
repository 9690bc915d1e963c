------------------------------ MODULE VoteProofs ------------------------------
(***************************************************************************)
(* Theorems about Vote, for every number of clients, every setting and     *)
(* every bound.                                                            *)
(***************************************************************************)
EXTENDS Vote, FiniteSetTheorems, WellFoundedInduction, TLAPS

USE VoteAssumption

Enforcements == {"unknown", "yes", "no", "yes_admin", "no_admin", "abort"}
--------------------------------------------------------------------------------
(* Types. *)

LEMMA NewcomerTyped ==
  ASSUME NEW a \in Addresses, NEW g \in Ages
  PROVE  Newcomer(a, g) \in Player
BY DEF Newcomer, Player, Ballots

LEMMA PresentTyped ==
  ASSUME TypeOK, NEW i \in Clients, Present(i)
  PROVE  player[i] \in Player
BY DEF TypeOK, Present

\* What may change about a player keeps his type.
LEMMA ChangedTyped ==
  ASSUME NEW p \in Player
  PROVE  /\ [p EXCEPT !.ingame = TRUE] \in Player
         /\ [p EXCEPT !.watching = TRUE] \in Player
         /\ [p EXCEPT !.watching = ~@] \in Player
         /\ [p EXCEPT !.afk = ~@] \in Player
         /\ \A g \in Ages : [p EXCEPT !.age = g] \in Player
<1>1. [p EXCEPT !.ingame = TRUE] \in Player
  BY DEF Player
<1>2. [p EXCEPT !.watching = TRUE] \in Player
  BY DEF Player
<1>3. [p EXCEPT !.watching = ~@] \in Player
  BY DEF Player
<1>4. [p EXCEPT !.afk = ~@] \in Player
  BY DEF Player
<1>5. \A g \in Ages : [p EXCEPT !.age = g] \in Player
  BY DEF Player
<1> QED BY <1>1, <1>2, <1>3, <1>4, <1>5

LEMMA BallotTyped ==
  ASSUME NEW p \in Player, NEW v \in Ballots, NEW n \in Nat
  PROVE  [p EXCEPT !.vote = v, !.pos = n] \in Player
<1>1. [p EXCEPT !.vote = v] \in Player
  BY DEF Player
<1> QED BY <1>1 DEF Player

\* Changing one slot keeps the players' type.
LEMMA SlotTyped ==
  ASSUME TypeOK, NEW i \in Clients, NEW p \in Player \cup {NoPlayer}
  PROVE  [player EXCEPT ![i] = p] \in [Clients -> Player \cup {NoPlayer}]
BY DEF TypeOK

LEMMA DecisionTyped ==
  ASSUME TypeOK
  PROVE  Decision \in Enforcements
BY DEF TypeOK, Decision, AfterCount, Enforcements

LEMMA CountTyped ==
  ASSUME TypeOK
  PROVE  WillPass \in BOOLEAN
<1>1. MorePros \in BOOLEAN
  BY DEF MorePros
<1>2. willPass \in BOOLEAN
  BY DEF TypeOK
<1> QED BY <1>1, <1>2, Zenon DEF WillPass

LEMMA TypeInit == Init => TypeOK
<1> SUFFICES ASSUME Init PROVE TypeOK
  OBVIOUS
<1>1. Settled \subseteq Player
  <2>1. {TRUE} \subseteq BOOLEAN /\ {FALSE} \subseteq BOOLEAN /\ {0} \subseteq Ballots
    BY Zenon DEF Ballots
  <2>2. {0} \subseteq Nat /\ Ages \ {"young"} \subseteq Ages
    OBVIOUS
  <2> DEFINE yes == {TRUE}
             no == {FALSE}
             none == {0}
  <2> HIDE DEF yes, no, none
  <2>3. [addr : Addresses, ingame : yes, watching : no, afk : no,
         age : Ages \ {"young"}, vote : none, pos : none] \subseteq Player
    BY <2>1, <2>2 DEF Player, yes, no, none
  <2> QED BY <2>3 DEF Settled, yes, no, none
<1>2. player \in [Clients -> Player \cup {NoPlayer}]
  BY <1>1 DEF Init
<1>3. target \in Clients /\ creator \in Clients
  BY DEF Init
<1>4. 0 \in 0 .. VoteTime
  OBVIOUS
<1> QED BY <1>2, <1>3, <1>4 DEF Init, TypeOK

\* What the players do, apart from votes.
LEMMA TypePlayers ==
  ASSUME TypeOK, NEW i \in Clients,
         \/ \E a \in Addresses, g \in Ages \ {"veteran"} :
              OnClientConnected(i, Newcomer(a, g))
         \/ OnClientEnter(i) \/ OnClientDrop(i)
         \/ SetTeamMessage(i) \/ ConSetTeam(i) \/ AfkTimer(i) \/ GrowOld(i)
  PROVE  TypeOK'
<1> USE DEF TypeOK, Change, subject
<1>1. CASE \E a \in Addresses, g \in Ages \ {"veteran"} :
             OnClientConnected(i, Newcomer(a, g))
  <2>1. PICK a \in Addresses, g \in Ages \ {"veteran"} :
               OnClientConnected(i, Newcomer(a, g))
    BY <1>1
  <2>2. player' \in [Clients -> Player \cup {NoPlayer}]
    BY <2>1, NewcomerTyped, SlotTyped DEF OnClientConnected
  <2> QED BY <2>1, <2>2 DEF OnClientConnected
<1>2. CASE OnClientEnter(i)
  <2>1. [player[i] EXCEPT !.ingame = TRUE] \in Player
    BY <1>2, PresentTyped, ChangedTyped DEF OnClientEnter
  <2>2. player' \in [Clients -> Player \cup {NoPlayer}]
    BY <1>2, <2>1, SlotTyped DEF OnClientEnter
  <2> QED BY <1>2, <2>2 DEF OnClientEnter
<1>3. CASE OnClientDrop(i)
  <2>1. player' \in [Clients -> Player \cup {NoPlayer}]
    BY <1>3, SlotTyped DEF OnClientDrop
  <2>2. enforce' \in Enforcements
    BY <1>3 DEF OnClientDrop, AbortVoteKickOnDisconnect, Enforcements
  <2> QED BY <1>3, <2>1, <2>2 DEF OnClientDrop, Enforcements
<1>4. CASE SetTeamMessage(i)
  <2>1. [player[i] EXCEPT !.watching = ~@] \in Player
    BY <1>4, PresentTyped, ChangedTyped DEF SetTeamMessage
  <2>2. player' \in [Clients -> Player \cup {NoPlayer}]
    BY <1>4, <2>1, SlotTyped DEF SetTeamMessage
  <2> QED BY <1>4, <2>2 DEF SetTeamMessage
<1>5. ASSUME NEW p \in Player, Drift(i, p)
      PROVE  TypeOK'
  <2>1. player' \in [Clients -> Player \cup {NoPlayer}]
    BY <1>5, SlotTyped DEF Drift
  <2> QED BY <1>5, <2>1 DEF Drift
<1>6. CASE ConSetTeam(i)
  <2>1. [player[i] EXCEPT !.watching = ~@] \in Player
    BY <1>6, PresentTyped, ChangedTyped DEF ConSetTeam, Drift
  <2> QED BY <1>5, <1>6, <2>1 DEF ConSetTeam
<1>7. CASE AfkTimer(i)
  <2>1. [player[i] EXCEPT !.afk = ~@] \in Player
    BY <1>7, PresentTyped, ChangedTyped DEF AfkTimer
  <2> QED BY <1>5, <1>7, <2>1 DEF AfkTimer
<1>8. CASE GrowOld(i)
  <2>1. PICK g \in Ages : Drift(i, [player[i] EXCEPT !.age = g])
    BY <1>8 DEF GrowOld
  <2>2. [player[i] EXCEPT !.age = g] \in Player
    BY <1>8, PresentTyped, ChangedTyped DEF GrowOld
  <2> QED BY <1>5, <2>1, <2>2
<1> QED BY <1>1, <1>2, <1>3, <1>4, <1>6, <1>7, <1>8

LEMMA TypeVotes ==
  ASSUME TypeOK, NEW i \in Clients,
         \/ \E c \in Commands, t \in Clients \cup Addresses : CallVote(i, c, t)
         \/ \E v \in {-1, 1} : VoteMessage(i, v)
         \/ OnSetAuthed(i)
         \/ \E success \in BOOLEAN : ForceVote(success)
         \/ LoadMap
         \/ Clock
  PROVE  TypeOK'
<1> USE DEF TypeOK, subject, history
<1>1. CASE \E c \in Commands, t \in Clients \cup Addresses : CallVote(i, c, t)
  <2>1. PICK c \in Commands, t \in Clients \cup Addresses : CallVote(i, c, t)
    BY <1>1
  <2>2. ASSUME NEW j \in Clients, Present(j), NEW v \in {0, 1}, NEW p \in {0, 1}
        PROVE  [player[j] EXCEPT !.vote = v, !.pos = p] \in Player
    <3>1. player[j] \in Player
      BY <2>2, PresentTyped
    <3>2. v \in Ballots /\ p \in Nat
      BY DEF Ballots
    <3> QED BY <3>1, <3>2, BallotTyped
  <2>3. player' \in [Clients -> Player \cup {NoPlayer}]
    <3>1. ASSUME NEW j \in Clients
          PROVE  (IF Present(j)
                  THEN [player[j] EXCEPT !.vote = IF j = i THEN 1 ELSE 0,
                                         !.pos = IF j = i THEN 1 ELSE 0]
                  ELSE NoPlayer) \in Player \cup {NoPlayer}
      BY <2>2
    <3> QED BY <2>1, <3>1 DEF CallVote
  <2>4. VoteTime \in 0 .. VoteTime
    OBVIOUS
  <2>5. /\ UNCHANGED <<majority, willPass, drifted>>
        /\ running' = TRUE /\ timeLeft' = VoteTime
        /\ creator' = i /\ command' = c /\ target' = t
        /\ enforce' = "unknown" /\ votePos' = 1 /\ voteUpdate' = TRUE
        /\ named' = TRUE /\ forced' = FALSE /\ changes' = changes + 1
    BY <2>1 DEF CallVote, Change
  <2>6. enforce' \in Enforcements /\ changes' \in Nat /\ command' \in Commands \cup {"none"}
    BY <2>5 DEF Enforcements
  <2> QED BY <2>3, <2>4, <2>5, <2>6 DEF Enforcements
<1>2. CASE \E v \in {-1, 1} : VoteMessage(i, v)
  <2>1. PICK v \in {-1, 1} : VoteMessage(i, v)
    BY <1>2
  <2>2. [player[i] EXCEPT !.vote = v, !.pos = votePos + 1] \in Player
    <3>1. player[i] \in Player
      BY <2>1, PresentTyped DEF VoteMessage
    <3>2. v \in Ballots /\ votePos + 1 \in Nat
      BY DEF Ballots
    <3> QED BY <3>1, <3>2, BallotTyped
  <2>3. player' = [player EXCEPT ![i] = [player[i] EXCEPT !.vote = v, !.pos = votePos + 1]]
    BY <2>1, <2>2 DEF VoteMessage, Present
  <2>4. player' \in [Clients -> Player \cup {NoPlayer}]
    BY <2>2, <2>3, SlotTyped
  <2> QED BY <2>1, <2>4 DEF VoteMessage
<1>3. CASE OnSetAuthed(i)
  BY <1>3 DEF OnSetAuthed
<1>4. CASE \E success \in BOOLEAN : ForceVote(success)
  BY <1>4 DEF ForceVote
<1>5. CASE LoadMap
  BY <1>5 DEF LoadMap
<1>6. CASE Clock
  BY <1>6 DEF Clock
<1> QED BY <1>1, <1>2, <1>3, <1>4, <1>5, <1>6

\* What a command does leaves the types alone.
LEMMA ExecuteTyped ==
  ASSUME TypeOK, NEW d \in Enforcements, Execute(d)
  PROVE  /\ player' \in [Clients -> Player \cup {NoPlayer}]
         /\ enforce' \in Enforcements
         /\ voteUpdate' \in BOOLEAN
<1>1. PICK S : /\ player' = [i \in Clients |->
                    IF i \in S THEN NoPlayer
                    ELSE IF command = "spectate" /\ i = target /\ Present(i)
                         THEN [player[i] EXCEPT !.watching = TRUE] ELSE player[i]]
               /\ enforce' = IF command = "kick" /\ S # {} THEN "abort" ELSE d
               /\ voteUpdate' = (voteUpdate \/ S # {})
  BY DEF Execute
<1>2. ASSUME NEW i \in Clients, Present(i)
      PROVE  [player[i] EXCEPT !.watching = TRUE] \in Player
  BY <1>2, PresentTyped, ChangedTyped
<1>3. player' \in [Clients -> Player \cup {NoPlayer}]
  BY <1>1, <1>2 DEF TypeOK
<1> QED BY <1>1, <1>3 DEF TypeOK, Enforcements

LEMMA TypeTick ==
  ASSUME TypeOK, Tick
  PROVE  TypeOK'
<1>1. CASE AbortVote
  BY <1>1 DEF AbortVote, TypeOK, subject, history
<1>2. CASE Decide
  <2>1. PICK moderated \in Moderated :
               \/ PassVote(Decision, moderated) \/ PassByAdmin(Decision)
               \/ FailVote(Decision) \/ GoOn(Decision, moderated)
    BY <1>2 DEF Decide
  <2>2. Decision \in Enforcements /\ willPass' \in BOOLEAN
    BY <1>2, DecisionTyped, CountTyped DEF Decide
  <2>3. /\ player' \in [Clients -> Player \cup {NoPlayer}]
        /\ enforce' \in Enforcements
        /\ voteUpdate' \in BOOLEAN
    <3>1. CASE PassVote(Decision, moderated)
      BY <3>1, ExecuteTyped DEF PassVote, Enforcements
    <3>2. CASE PassByAdmin(Decision)
      BY <3>2, ExecuteTyped DEF PassByAdmin, Enforcements
    <3>3. CASE FailVote(Decision)
      BY <2>2, <3>3 DEF FailVote, TypeOK
    <3>4. CASE GoOn(Decision, moderated)
      BY <2>2, <3>4 DEF GoOn, TypeOK
    <3> QED BY <2>1, <3>1, <3>2, <3>3, <3>4
  <2>4. /\ UNCHANGED <<timeLeft, subject, votePos, named, forced, changes>>
        /\ running' \in BOOLEAN
        /\ drifted' \in BOOLEAN
    BY <2>1 DEF PassVote, PassByAdmin, FailVote, GoOn, EndVote, TypeOK, history
  <2> QED BY <2>2, <2>3, <2>4 DEF TypeOK, Enforcements, subject
<1> QED BY <1>1, <1>2 DEF Tick

LEMMA TypeStep == TypeOK /\ [Next]_vars => TypeOK'
<1> SUFFICES ASSUME TypeOK, [Next]_vars PROVE TypeOK'
  OBVIOUS
<1>1. CASE Tick
  BY <1>1, TypeTick
<1>2. CASE UNCHANGED vars
  BY <1>2 DEF vars, subject, history, TypeOK
<1>3. CASE Next /\ ~Tick
  <2>1. PICK i \in Clients : TRUE
    OBVIOUS
  <2> QED BY <1>3, <2>1, TypePlayers, TypeVotes DEF Next
<1> QED BY <1>1, <1>2, <1>3

\* The state of players and of the vote keeps its types.
THEOREM VoteTyped == Spec => []TypeOK
BY TypeInit, TypeStep, PTL DEF Spec
--------------------------------------------------------------------------------
(* The count. *)

\* Of the players at an address who may vote exactly one counts.
LEMMA AddressCountsOnce ==
  ASSUME NEW i \in Clients, MayVote(i)
  PROVE  \E j \in Counted :
           /\ player[j].addr = player[i].addr
           /\ \A k \in Counted : player[k].addr = player[i].addr => k = j
<1> DEFINE Same == {k \in Clients : MayVote(k) /\ player[k].addr = player[i].addr}
<1>1. Same \subseteq Nat /\ Same # {}
  OBVIOUS
<1>2. PICK j \in Same : \A k \in Same : <<k, j>> \notin OpToRel(<, Nat)
  BY <1>1, NatLessThanWellFounded, WFMin, Zenon
<1>3. \A k \in Same : ~(k < j)
  BY <1>1, <1>2, Zenon DEF OpToRel
<1>4. j \in Counted
  BY <1>2, <1>3 DEF Counted
<1>5. ASSUME NEW k \in Counted, player[k].addr = player[i].addr
      PROVE  k = j
  <2>1. k \in Same /\ k \in Nat /\ j \in Nat
    BY <1>1, <1>5 DEF Counted
  <2>2. ~(k < j)
    BY <1>3, <2>1
  <2>3. ~(j < k)
    BY <1>2, <1>5 DEF Counted
  <2> QED BY <2>1, <2>2, <2>3
<1> QED BY <1>2, <1>4, <1>5

\* The result depends on nothing but the players, the creator and the command.
LEMMA SameCount ==
  ASSUME UNCHANGED <<player, creator, command>>
  PROVE  MorePros' = MorePros
<1>1. Counted' = Counted
  BY DEF Counted, MayVote, Present, KickOrSpec
<1>2. ASSUME NEW i \in Clients
      PROVE  CurVote(i)' = CurVote(i)
  BY DEF CurVote, Behind, Present
<1>3. /\ {i \in Counted : CurVote(i) > 0}' = {i \in Counted : CurVote(i) > 0}
      /\ {i \in Counted : CurVote(i) < 0}' = {i \in Counted : CurVote(i) < 0}
  BY <1>1, <1>2 DEF Counted
<1> QED BY <1>3 DEF MorePros, Yes, No

\* No two votes have the same position, and none is ahead of m_VotePos.
Positions ==
  \A i \in Clients : Present(i) =>
    /\ player[i].pos <= votePos
    /\ player[i].pos = 0 => player[i].vote = 0
    /\ \A j \in Clients : Present(j) /\ player[j].pos = player[i].pos =>
         i = j \/ player[i].pos = 0

\* Some vote of an address is the last one.
LEMMA LastVote ==
  ASSUME TypeOK, Positions, NEW i \in Clients, Present(i)
  PROVE  \E j \in Behind(i) : \A k \in Behind(i) : player[k].pos <= player[j].pos
<1> DEFINE Ahead == {votePos - player[j].pos : j \in Behind(i)}
<1>1. \A j \in Behind(i) : player[j].pos \in Nat /\ player[j].pos <= votePos /\ votePos \in Nat
  BY DEF Behind, Positions, TypeOK, Present, Player
<1>2. Ahead \subseteq Nat
  BY <1>1
<1>3. Ahead # {}
  <2>1. i \in Behind(i)
    BY DEF Behind, TypeOK
  <2> QED BY <2>1
<1>4. PICK m \in Ahead : \A n \in Ahead : <<n, m>> \notin OpToRel(<, Nat)
  BY <1>2, <1>3, NatLessThanWellFounded, WFMin, Zenon
<1>5. PICK j \in Behind(i) : m = votePos - player[j].pos
  BY <1>4
<1>6. ASSUME NEW k \in Behind(i)
      PROVE  player[k].pos <= player[j].pos
  <2>1. ~(votePos - player[k].pos < votePos - player[j].pos)
    BY <1>2, <1>4, <1>5, Zenon DEF OpToRel
  <2> QED BY <1>1, <2>1
<1> QED BY <1>6

\* Of the votes of an address, any at the last position is the one that counts.
LEMMA LastIsChosen ==
  ASSUME NEW p, NEW B, NEW j \in B,
         \A k \in B : p[k].pos \in Nat,
         \A k \in B : p[k].pos <= p[j].pos,
         \A k \in B : p[k].pos = p[j].pos => p[k].vote = p[j].vote
  PROVE  p[CHOOSE x \in B : \A k \in B : p[k].pos <= p[x].pos].vote = p[j].vote
<1> DEFINE m == CHOOSE x \in B : \A k \in B : p[k].pos <= p[x].pos
<1>1. m \in B /\ \A k \in B : p[k].pos <= p[m].pos
  OBVIOUS
<1> HIDE DEF m
<1>2. p[m].pos = p[j].pos
  BY <1>1
<1>3. p[m].vote = p[j].vote
  BY <1>1, <1>2
<1> QED BY <1>3 DEF m

LEMMA PositionsInit == Init => Positions
<1>1. \A p \in Settled : p.pos = 0 /\ p.vote = 0
  BY DEF Settled
<1> QED BY <1>1 DEF Init, Positions, Present

LEMMA PositionsStep ==
  ASSUME TypeOK, TypeOK', Positions, [Next]_vars
  PROVE  Positions'
<1>1. ASSUME votePos' = votePos,
             \A i \in Clients : Present(i)' =>
               \/ Present(i) /\ player'[i].pos = player[i].pos /\ player'[i].vote = player[i].vote
               \/ player'[i].pos = 0 /\ player'[i].vote = 0
      PROVE  Positions'
  <2>1. votePos \in Nat
    BY DEF TypeOK
  <2>2. ASSUME NEW i \in Clients, Present(i)
        PROVE  player[i].pos \in Nat
    BY <2>2 DEF TypeOK, Present, Player
  <2>3. ASSUME NEW i \in Clients, Present(i)'
        PROVE  /\ player'[i].pos \in Nat /\ player'[i].pos <= votePos'
               /\ player'[i].pos = 0 => player'[i].vote = 0
               /\ player'[i].pos # 0 => Present(i) /\ player'[i].pos = player[i].pos
    <3>1. CASE Present(i) /\ player'[i].pos = player[i].pos /\ player'[i].vote = player[i].vote
      <4>1. player[i].pos \in Nat /\ player[i].pos <= votePos
        BY <2>2, <3>1 DEF Positions
      <4>2. player[i].pos = 0 => player[i].vote = 0
        BY <3>1 DEF Positions
      <4> QED BY <1>1, <3>1, <4>1, <4>2
    <3>2. CASE player'[i].pos = 0 /\ player'[i].vote = 0
      BY <1>1, <2>1, <3>2
    <3> QED BY <1>1, <2>3, <3>1, <3>2
  <2>4. ASSUME NEW i \in Clients, NEW j \in Clients, Present(i)', Present(j)',
               player'[j].pos = player'[i].pos, player'[i].pos # 0
        PROVE  i = j
    BY <2>3, <2>4 DEF Positions
  <2> QED BY <2>3, <2>4 DEF Positions
<1>2. ASSUME NEW i \in Clients, NEW p \in Player,
             player' = [player EXCEPT ![i] = p], votePos' = votePos,
             \/ p.pos = 0 /\ p.vote = 0
             \/ Present(i) /\ p.pos = player[i].pos /\ p.vote = player[i].vote
      PROVE  Positions'
  BY <1>1, <1>2 DEF TypeOK, Present
<1>3. ASSUME NEW i \in Clients, NEW a \in Addresses, NEW g \in Ages,
             OnClientConnected(i, Newcomer(a, g))
      PROVE  Positions'
  BY <1>2, <1>3, NewcomerTyped DEF OnClientConnected, Newcomer
<1>4. ASSUME NEW i \in Clients, OnClientEnter(i)
      PROVE  Positions'
  BY <1>1, <1>4 DEF OnClientEnter, TypeOK, Present, Player
<1>5. ASSUME NEW i \in Clients, OnClientDrop(i)
      PROVE  Positions'
  BY <1>1, <1>5 DEF OnClientDrop, TypeOK, Present
<1>6. ASSUME NEW i \in Clients, SetTeamMessage(i)
      PROVE  Positions'
  BY <1>1, <1>6 DEF SetTeamMessage, TypeOK, Present, Player
<1>7. ASSUME NEW i \in Clients, ConSetTeam(i) \/ AfkTimer(i) \/ GrowOld(i)
      PROVE  Positions'
  BY <1>1, <1>7 DEF ConSetTeam, AfkTimer, GrowOld, Drift, TypeOK, Present, Player
<1>8. ASSUME NEW i \in Clients, NEW c \in Commands, NEW t \in Clients \cup Addresses,
             CallVote(i, c, t)
      PROVE  Positions'
  <2>1. ASSUME NEW j \in Clients, Present(j)'
        PROVE  /\ player'[j].pos = IF j = i THEN 1 ELSE 0
               /\ player'[j].vote = IF j = i THEN 1 ELSE 0
    BY <1>8, <2>1 DEF CallVote, Present, TypeOK, Player
  <2>2. votePos' = 1
    BY <1>8 DEF CallVote
  <2> QED BY <2>1, <2>2 DEF Positions
<1>9. ASSUME NEW i \in Clients, NEW v \in {-1, 1}, VoteMessage(i, v)
      PROVE  Positions'
  <2>1. /\ votePos \in Nat /\ votePos' = votePos + 1
        /\ Present(i) /\ player'[i].pos = votePos + 1
    BY <1>9 DEF VoteMessage, TypeOK, Present, Player
  <2>2. ASSUME NEW j \in Clients, j # i, Present(j)'
        PROVE  Present(j) /\ player'[j] = player[j] /\ player[j].pos \in Nat
    BY <1>9, <2>2 DEF VoteMessage, TypeOK, Present, Player
  <2> QED BY <2>1, <2>2 DEF Positions
<1>10. CASE LoadMap
  BY <1>10 DEF LoadMap, Positions, Present
<1>11. CASE Decide
  <2>1. CASE player' = player
    BY <1>1, <1>11, <2>1 DEF Decide, PassVote, PassByAdmin, FailVote, GoOn, EndVote, Present
  <2>2. CASE \E d : Execute(d)
    <3>1. votePos' = votePos
      BY <1>11 DEF Decide, PassVote, PassByAdmin, FailVote, GoOn, EndVote
    <3>2. ASSUME NEW i \in Clients, Present(i)'
          PROVE  /\ Present(i)
                 /\ player'[i].pos = player[i].pos /\ player'[i].vote = player[i].vote
      BY <2>2, <3>2 DEF Execute, Present, TypeOK, Player
    <3> QED BY <1>1, <3>1, <3>2
  <2> QED BY <1>11, <2>1, <2>2 DEF Decide, PassVote, PassByAdmin, FailVote, GoOn
<1>12. CASE UNCHANGED <<player, votePos>>
  BY <1>1, <1>12 DEF Present
<1> QED
  BY <1>3, <1>4, <1>5, <1>6, <1>7, <1>8, <1>9, <1>10, <1>11, <1>12
  DEF Next, Tick, AbortVote, OnSetAuthed, ForceVote, Clock, vars

\* A client that has only connected does not change the count, although its
\* address may stand for others.
LEMMA NewcomerDoesNotCount ==
  ASSUME TypeOK, TypeOK', Positions, Positions', NEW n \in Clients,
         NEW a \in Addresses, NEW g \in Ages, OnClientConnected(n, Newcomer(a, g))
  PROVE  MorePros' = MorePros
<1>1. /\ ~Present(n) /\ UNCHANGED <<creator, command>>
      /\ player' = [player EXCEPT ![n] = Newcomer(a, g)]
  BY DEF OnClientConnected, subject
<1>2. /\ player'[n] = Newcomer(a, g)
      /\ \A j \in Clients : j # n => player'[j] = player[j]
  BY <1>1 DEF TypeOK
<1>3. \A j \in Clients : MayVote(j)' = MayVote(j) /\ (MayVote(j) => j # n)
  BY <1>1, <1>2 DEF MayVote, KickOrSpec, Present, Newcomer
<1>4. Counted' = Counted
  BY <1>2, <1>3 DEF Counted
<1>5. ASSUME NEW i \in Counted
      PROVE  CurVote(i)' = CurVote(i)
  <2>1. i \in Clients /\ Present(i) /\ i # n
    BY <1>3 DEF Counted, MayVote
  <2>2. PICK j \in Behind(i) : \A k \in Behind(i) : player[k].pos <= player[j].pos
    BY <2>1, LastVote
  <2>3. j # n /\ j \in Clients
    BY <1>1 DEF Behind
  <2>4. j \in Behind(i)'
    BY <1>2, <2>1, <2>2, <2>3 DEF Behind, Present
  <2>5. \A k \in Behind(i)' : player'[k].pos <= player'[j].pos
    <3>1. player[j].pos \in Nat
      BY <2>2 DEF Behind, TypeOK, Present, Player
    <3>2. ASSUME NEW k \in Behind(i)'
          PROVE  player'[k].pos <= player'[j].pos
      <4>1. CASE k = n
        BY <1>2, <2>3, <3>1, <4>1 DEF Newcomer
      <4>2. CASE k # n
        BY <1>2, <2>1, <2>2, <2>3, <4>2 DEF Behind, Present
      <4> QED BY <4>1, <4>2
    <3> QED BY <3>2
  <2>6. CurVote(i) = player[j].vote
    <3>1. \A k \in Behind(i) : k \in Clients /\ Present(k) /\ player[k].pos \in Nat
      BY DEF Behind, TypeOK, Present, Player
    <3>2. \A k \in Behind(i) : player[k].pos = player[j].pos => player[k].vote = player[j].vote
      BY <3>1 DEF Positions
    <3> QED BY <2>2, <3>1, <3>2, LastIsChosen DEF CurVote
  <2>7. CurVote(i)' = player'[j].vote
    <3>1. \A k \in Behind(i)' : k \in Clients /\ Present(k)' /\ player'[k].pos \in Nat
      BY DEF Behind, TypeOK, Present, Player
    <3>2. \A k \in Behind(i)' : player'[k].pos = player'[j].pos
                                 => player'[k].vote = player'[j].vote
      BY <2>4, <3>1 DEF Positions
    <3> QED BY <2>4, <2>5, <3>1, <3>2, LastIsChosen DEF CurVote
  <2> QED BY <1>2, <2>3, <2>6, <2>7
<1>6. /\ {i \in Counted : CurVote(i) > 0}' = {i \in Counted : CurVote(i) > 0}
      /\ {i \in Counted : CurVote(i) < 0}' = {i \in Counted : CurVote(i) < 0}
  BY <1>4, <1>5
<1> QED BY <1>6 DEF MorePros, Yes, No

LEMMA CountStep ==
  ASSUME TypeOK, TypeOK', Positions, Positions', LastCountStands, [Next]_vars
  PROVE  LastCountStands'
<1> SUFFICES ASSUME running', ~voteUpdate', ~drifted'
             PROVE  (willPass <=> MorePros)'
  BY DEF LastCountStands
<1>1. ASSUME UNCHANGED <<running, voteUpdate, willPass, drifted>>, MorePros' = MorePros
      PROVE  (willPass <=> MorePros)'
  BY <1>1 DEF LastCountStands
<1>2. CASE Decide
  <2>1. PICK moderated \in Moderated : GoOn(Decision, moderated)
    BY <1>2 DEF Decide, PassVote, PassByAdmin, FailVote, EndVote
  <2>2. MorePros' = MorePros
    BY <2>1, SameCount DEF GoOn, subject
  <2>3. CASE voteUpdate
    BY <1>2, <2>2, <2>3 DEF Decide, WillPass
  <2>4. CASE ~voteUpdate
    BY <1>2, <2>1, <2>2, <2>4 DEF Decide, GoOn, WillPass, LastCountStands
  <2> QED BY <2>3, <2>4
<1>3. ASSUME NEW i \in Clients, NEW a \in Addresses, NEW g \in Ages,
             OnClientConnected(i, Newcomer(a, g))
      PROVE  (willPass <=> MorePros)'
  BY <1>1, <1>3, NewcomerDoesNotCount DEF OnClientConnected
<1>4. ASSUME UNCHANGED <<player, creator, command, running, voteUpdate, willPass, drifted>>
      PROVE  (willPass <=> MorePros)'
  BY <1>1, <1>4, SameCount
<1>5. CASE UNCHANGED vars
  BY <1>4, <1>5 DEF vars, subject, history
<1>6. CASE Next
  <2>1. ASSUME NEW i \in Clients,
               OnClientEnter(i) \/ OnClientDrop(i) \/ SetTeamMessage(i) \/ ConSetTeam(i)
                 \/ AfkTimer(i) \/ GrowOld(i)
        PROVE  FALSE
    BY <2>1 DEF OnClientEnter, OnClientDrop, SetTeamMessage, ConSetTeam, AfkTimer, GrowOld, Drift
  <2>2. ASSUME NEW i \in Clients,
               \/ \E c \in Commands, t \in Clients \cup Addresses : CallVote(i, c, t)
               \/ \E v \in {-1, 1} : VoteMessage(i, v)
        PROVE  FALSE
    BY <2>2 DEF CallVote, VoteMessage
  <2>3. ASSUME NEW i \in Clients, OnSetAuthed(i)
        PROVE  (willPass <=> MorePros)'
    BY <1>4, <2>3 DEF OnSetAuthed, subject
  <2>4. ASSUME NEW success \in BOOLEAN, ForceVote(success)
        PROVE  (willPass <=> MorePros)'
    BY <1>4, <2>4 DEF ForceVote, subject
  <2>5. CASE Clock
    BY <1>4, <2>5 DEF Clock, subject, history
  <2> QED
    BY <1>2, <1>3, <1>6, <2>1, <2>2, <2>3, <2>4, <2>5 DEF Next, Tick, AbortVote, LoadMap
<1> QED BY <1>5, <1>6

\* The result by which a vote is decided at its time-out is always current.
THEOREM CountIsCurrent == Spec => []LastCountStands
<1>1. Init => TypeOK /\ Positions /\ LastCountStands
  BY TypeInit, PositionsInit DEF Init, LastCountStands
<1>2. TypeOK /\ Positions /\ LastCountStands /\ [Next]_vars
        => (TypeOK /\ Positions /\ LastCountStands)'
  BY TypeStep, PositionsStep, CountStep
<1> QED BY <1>1, <1>2, PTL DEF Spec
--------------------------------------------------------------------------------
(* Kick votes. *)

\* Once the player has left, the vote is aborted unless an administrator steps in.
NamedOrAborted ==
  running /\ command = "kick" /\ ~named /\ ~forced => enforce = "abort"

LEMMA NamedStep ==
  ASSUME NamedOrAborted, [Next]_vars
  PROVE  NamedOrAborted'
<1> USE DEF NamedOrAborted, subject, history
<1>1. CASE UNCHANGED vars
  BY <1>1 DEF vars
<1>2. CASE Decide
  BY <1>2 DEF Decide, PassVote, PassByAdmin, FailVote, GoOn, EndVote
<1>3. ASSUME NEW i \in Clients, OnClientDrop(i)
      PROVE  NamedOrAborted'
  BY <1>3 DEF OnClientDrop, AbortVoteKickOnDisconnect
<1>4. ASSUME NEW i \in Clients,
             \/ \E c \in Commands, t \in Clients \cup Addresses : CallVote(i, c, t)
             \/ \E v \in {-1, 1} : VoteMessage(i, v)
             \/ OnSetAuthed(i)
      PROVE  NamedOrAborted'
  BY <1>4 DEF CallVote, VoteMessage, OnSetAuthed
<1>5. ASSUME NEW i \in Clients,
             \/ \E a \in Addresses, g \in Ages \ {"veteran"} :
                  OnClientConnected(i, Newcomer(a, g))
             \/ OnClientEnter(i) \/ SetTeamMessage(i) \/ ConSetTeam(i)
             \/ AfkTimer(i) \/ GrowOld(i)
      PROVE  NamedOrAborted'
  BY <1>5 DEF OnClientConnected, OnClientEnter, SetTeamMessage, ConSetTeam, AfkTimer, GrowOld, Drift
<1>6. CASE AbortVote \/ LoadMap \/ Clock \/ \E success \in BOOLEAN : ForceVote(success)
  BY <1>6 DEF AbortVote, LoadMap, Clock, ForceVote
<1> QED BY <1>1, <1>2, <1>3, <1>4, <1>5, <1>6 DEF Next, Tick

\* A kick vote that no administrator has decided kicks only the player it was
\* called for.
THEOREM KicksNamed == Spec => KickHitsNamed
<1>1. Init => NamedOrAborted
  BY DEF Init, NamedOrAborted
<1>2. NamedOrAborted /\ [Next]_vars => NamedOrAborted'
  BY NamedStep
<1>3. NamedOrAborted /\ [Next]_vars =>
        [command = "kick" /\ ~forced /\ ~named => ~PassesNow]_vars
  BY DEF NamedOrAborted, PassesNow
<1> QED BY <1>1, <1>2, <1>3, PTL DEF Spec, KickHitsNamed
--------------------------------------------------------------------------------
(* The decision. *)

\* While no administrator has spoken, nothing is decided but the end of a vote
\* about a player whom somebody moderates.
Undecided ==
  running /\ ~forced =>
    \/ enforce \in {"unknown", "abort"}
    \/ enforce = "yes" /\ KickOrSpec

LEMMA UndecidedStep ==
  ASSUME Undecided, [Next]_vars
  PROVE  Undecided'
<1> USE DEF Undecided, subject, history, KickOrSpec
<1>1. CASE UNCHANGED vars
  BY <1>1 DEF vars
<1>2. CASE Decide
  BY <1>2 DEF Decide, PassVote, PassByAdmin, FailVote, GoOn, EndVote
<1>3. ASSUME NEW i \in Clients, OnClientDrop(i)
      PROVE  Undecided'
  BY <1>3 DEF OnClientDrop, AbortVoteKickOnDisconnect
<1>4. ASSUME NEW i \in Clients,
             \/ \E c \in Commands, t \in Clients \cup Addresses : CallVote(i, c, t)
             \/ \E v \in {-1, 1} : VoteMessage(i, v)
             \/ OnSetAuthed(i)
      PROVE  Undecided'
  BY <1>4 DEF CallVote, VoteMessage, OnSetAuthed
<1>5. ASSUME NEW i \in Clients,
             \/ \E a \in Addresses, g \in Ages \ {"veteran"} :
                  OnClientConnected(i, Newcomer(a, g))
             \/ OnClientEnter(i) \/ SetTeamMessage(i) \/ ConSetTeam(i)
             \/ AfkTimer(i) \/ GrowOld(i)
      PROVE  Undecided'
  BY <1>5 DEF OnClientConnected, OnClientEnter, SetTeamMessage, ConSetTeam, AfkTimer, GrowOld, Drift
<1>6. CASE AbortVote \/ LoadMap \/ Clock \/ \E success \in BOOLEAN : ForceVote(success)
  BY <1>6 DEF AbortVote, LoadMap, Clock, ForceVote
<1> QED BY <1>1, <1>2, <1>3, <1>4, <1>5, <1>6 DEF Next, Tick

\* An address counts with a ballot.
LEMMA CurVoteTyped ==
  ASSUME TypeOK, Positions, NEW i \in Counted
  PROVE  CurVote(i) \in Ballots
<1>1. i \in Clients /\ Present(i)
  BY DEF Counted, MayVote
<1>2. PICK j \in Behind(i) : \A k \in Behind(i) : player[k].pos <= player[j].pos
  BY <1>1, LastVote
<1>3. \A k \in Behind(i) : k \in Clients /\ Present(k) /\ player[k] \in Player
  BY PresentTyped DEF Behind
<1>4. \A k \in Behind(i) : player[k].pos \in Nat
  BY <1>3 DEF Player
<1>5. \A k \in Behind(i) : player[k].pos = player[j].pos => player[k].vote = player[j].vote
  BY <1>3, <1>4 DEF Positions
<1>6. CurVote(i) = player[j].vote
  BY <1>2, <1>4, <1>5, LastIsChosen DEF CurVote
<1> QED BY <1>3, <1>6 DEF Player

\* No address counts for and against.
LEMMA CountsAddUp ==
  ASSUME TypeOK, Positions
  PROVE  /\ Total \in Nat /\ Yes \in Nat /\ No \in Nat
         /\ Yes + No <= Total
<1> DEFINE Y == {i \in Counted : CurVote(i) > 0}
           N == {i \in Counted : CurVote(i) < 0}
<1>1. IsFiniteSet(Counted)
  <2>1. Counted \in SUBSET Clients
    BY DEF Counted
  <2> QED BY <2>1, FS_Subset
<1>2. Y \in SUBSET Counted /\ N \in SUBSET Counted /\ Y \cup N \in SUBSET Counted
  OBVIOUS
<1>3. Y \cap N = {}
  <2> SUFFICES ASSUME NEW i \in Counted, CurVote(i) > 0, CurVote(i) < 0
               PROVE  FALSE
    OBVIOUS
  <2>1. CurVote(i) \in {-1, 0, 1}
    BY CurVoteTyped DEF Ballots
  <2> QED BY <2>1
<1> HIDE DEF Y, N
<1>4. IsFiniteSet(Y) /\ IsFiniteSet(N) /\ Cardinality(Y \cup N) <= Cardinality(Counted)
  BY <1>1, <1>2, FS_Subset
<1>5. Cardinality(Y \cup N) = Cardinality(Y) + Cardinality(N)
  <2>1. Cardinality(Y \cup N) = Cardinality(Y) + Cardinality(N) - Cardinality(Y \cap N)
    BY <1>4, FS_Union
  <2>2. Cardinality(Y) \in Nat /\ Cardinality(N) \in Nat /\ Cardinality(Y \cap N) = 0
    BY <1>3, <1>4, FS_CardinalityType, FS_EmptySet
  <2> QED BY <2>1, <2>2
<1>6. Cardinality(Y) \in Nat /\ Cardinality(N) \in Nat /\ Cardinality(Counted) \in Nat
  BY <1>1, <1>4, FS_CardinalityType
<1>7. Yes = Cardinality(Y) /\ No = Cardinality(N) /\ Total = Cardinality(Counted)
  BY DEF Y, N, Yes, No, Total
<1> QED BY <1>4, <1>5, <1>6, <1>7

\* Enough of all who count is more than those against it.
LEMMA EnoughIsMore ==
  ASSUME TypeOK, Positions, 100 * Yes > Total * YesPercentage
  PROVE  MorePros
<1>1. /\ Total \in Nat /\ Yes + No \in Nat /\ Yes + No <= Total
      /\ 100 * Yes \in Nat /\ YesPercentage \in Nat
  BY CountsAddUp
<1>2. \A m, n, p \in Nat : m <= n => m * p <= n * p
  OBVIOUS
<1>3. (Yes + No) * YesPercentage <= Total * YesPercentage
  BY <1>1, <1>2
<1>4. (Yes + No) * YesPercentage \in Nat /\ Total * YesPercentage \in Nat
  BY <1>1
<1> QED BY <1>1, <1>3, <1>4 DEF MorePros

\* What the votes of the players decide is what the votes say in that tick,
\* whatever was counted, decided or left over before.
THEOREM MajorityDecides == Spec => PassesByMajority
<1> DEFINE Inv == TypeOK /\ Positions /\ LastCountStands /\ Undecided
           Passes == PassesNow /\ ~forced /\ (enforce = "yes" => ~KickOrSpec)
           Majority == /\ drifted \/ MorePros
                       /\ majority \/ timeLeft > 0 =>
                            100 * Yes > Total * YesPercentage /\ ~Veto
<1>1. Init => Inv
  BY TypeInit, PositionsInit DEF Init, LastCountStands, Undecided
<1>2. Inv /\ [Next]_vars => Inv'
  BY TypeStep, PositionsStep, CountStep, UndecidedStep
<1>3. Inv => [Passes => Majority]_vars
  <2> SUFFICES ASSUME Inv, PassesNow, ~forced, enforce = "yes" => ~KickOrSpec
               PROVE  Majority
    OBVIOUS
  <2>1. running /\ Decision = "yes" /\ enforce = "unknown"
    BY DEF PassesNow, PassVote, Undecided
  <2>2. CASE timeLeft = 0 /\ ~majority
    <3>1. WillPass
      BY <2>1, <2>2 DEF Decision
    <3>2. drifted \/ MorePros
      BY <2>1, <3>1 DEF WillPass, LastCountStands
    <3> QED BY <2>2, <3>2
  <2>3. CASE ~(timeLeft = 0 /\ ~majority)
    <3>1. AfterCount = "yes"
      BY <2>1, <2>3, Zenon DEF Decision
    <3>2. 100 * Yes > Total * YesPercentage /\ ~Veto
      BY <2>1, <3>1 DEF AfterCount
    <3> QED BY <3>2, EnoughIsMore
  <2> QED BY <2>2, <2>3
<1> QED BY <1>1, <1>2, <1>3, PTL DEF Spec, PassesByMajority

\* A tick after the time is over ends the vote.
TimeIsUp == [][running /\ timeLeft = 0 /\ Tick => ~running']_vars

\* A tick after the time is over ends the vote, moderated or not, whatever the
\* votes are and whatever was decided: the half of VoteEnds that is a matter of
\* single steps.
THEOREM TimeEnds == Spec => TimeIsUp
<1>1. TypeOK => [running /\ timeLeft = 0 /\ Tick => ~running']_vars
  <2> SUFFICES ASSUME TypeOK, timeLeft = 0, Decide PROVE ~running'
    BY DEF Tick, AbortVote
  <2>1. PICK moderated \in Moderated :
               \/ PassVote(Decision, moderated) \/ PassByAdmin(Decision)
               \/ FailVote(Decision) \/ GoOn(Decision, moderated)
    BY DEF Decide
  <2>2. ~GoOn(Decision, moderated)
    <3>1. ~majority => Decision # "unknown"
      BY DEF Decision
    <3>2. ~(timeLeft > 0)
      OBVIOUS
    <3> QED BY <3>1, <3>2, Zenon DEF GoOn
  <2> QED BY <2>1, <2>2 DEF PassVote, PassByAdmin, FailVote, EndVote
<1> QED BY <1>1, VoteTyped, PTL DEF TimeIsUp
--------------------------------------------------------------------------------
(* Ballots. *)

\* A message votes for the address it comes from and for nothing else: whoever
\* sent it, and whatever players at that address voted before, the address counts
\* with this ballot from now on and every other one as before.  So the sums change
\* by one at most, each, in the direction of the ballot: players who share an
\* address cannot vote twice, and who votes again withdraws what was there.
LastBallotCounts ==
  [][\A i \in Clients, v \in {-1, 1} : VoteMessage(i, v) =>
       /\ Counted' = Counted
       /\ \A j \in Counted :
            CurVote(j)' = IF i \in Behind(j) THEN v ELSE CurVote(j)
       /\ v = 1  => Yes' - Yes \in {0, 1} /\ No - No' \in {0, 1}
       /\ v = -1 => No' - No \in {0, 1} /\ Yes - Yes' \in {0, 1}]_vars

\* What a message changes about the players.
LEMMA BallotPlayers ==
  ASSUME TypeOK, NEW i \in Clients, NEW v \in {-1, 1}, VoteMessage(i, v)
  PROVE  /\ UNCHANGED <<creator, command>>
         /\ player'[i].vote = v /\ player'[i].pos = votePos + 1
         /\ \A j \in Clients : j # i => player'[j] = player[j]
         /\ \A j \in Clients : Present(j)' <=> Present(j)
         /\ \A j \in Clients : Present(j) =>
              /\ player'[j].addr = player[j].addr
              /\ player'[j].ingame = player[j].ingame
              /\ player'[j].watching = player[j].watching
              /\ player'[j].afk = player[j].afk
              /\ player'[j].age = player[j].age
<1>1. UNCHANGED <<creator, command>>
  BY DEF VoteMessage, subject
<1>2. \A j \in Clients : j # i => player'[j] = player[j]
  BY DEF VoteMessage, TypeOK
<1>3. player'[i].vote = v /\ player'[i].pos = votePos + 1
  BY DEF VoteMessage, TypeOK, Present, Player
<1>4. /\ player'[i].addr = player[i].addr /\ player'[i].ingame = player[i].ingame
      /\ player'[i].watching = player[i].watching
      /\ player'[i].afk = player[i].afk /\ player'[i].age = player[i].age
  <2>1. player'[i].addr = player[i].addr
    BY DEF VoteMessage, TypeOK, Present, Player
  <2>2. player'[i].ingame = player[i].ingame
    BY DEF VoteMessage, TypeOK, Present, Player
  <2>3. player'[i].watching = player[i].watching
    BY DEF VoteMessage, TypeOK, Present, Player
  <2>4. player'[i].afk = player[i].afk
    BY DEF VoteMessage, TypeOK, Present, Player
  <2>5. player'[i].age = player[i].age
    BY DEF VoteMessage, TypeOK, Present, Player
  <2> QED BY <2>1, <2>2, <2>3, <2>4, <2>5
<1>5. Present(i) /\ Present(i)'
  <2>1. player[i] \in Player /\ Present(i)
    BY PresentTyped DEF VoteMessage
  <2>2. v \in Ballots /\ votePos + 1 \in Nat
    BY DEF TypeOK, Ballots
  <2>3. [player[i] EXCEPT !.vote = v, !.pos = votePos + 1] \in Player
    BY <2>1, <2>2, BallotTyped
  <2>4. player'[i] = [player[i] EXCEPT !.vote = v, !.pos = votePos + 1]
    BY DEF VoteMessage, TypeOK
  <2>5. player'[i] \in Player
    BY <2>3, <2>4
  <2> QED BY <2>1, <2>5, VoteAssumption DEF Present
<1> QED BY <1>1, <1>2, <1>3, <1>4, <1>5 DEF Present

\* A message changes neither who counts nor for whom.
LEMMA BallotKeepsCounted ==
  ASSUME TypeOK, NEW i \in Clients, NEW v \in {-1, 1}, VoteMessage(i, v)
  PROVE  /\ Counted' = Counted
         /\ \A j \in Counted : Behind(j)' = Behind(j)
<1>1. \A j \in Clients : MayVote(j)' <=> MayVote(j)
  BY BallotPlayers DEF MayVote, KickOrSpec
<1>2. \A j \in Clients : Present(j) => player'[j].addr = player[j].addr
  BY BallotPlayers
<1>3. \A j \in Clients : MayVote(j) => Present(j)
  BY DEF MayVote
<1>4. Counted' = Counted
  BY <1>1, <1>2, <1>3 DEF Counted
<1>5. ASSUME NEW j \in Counted
      PROVE  Behind(j)' = Behind(j)
  <2>1. j \in Clients /\ Present(j)
    BY <1>3 DEF Counted
  <2>2. player'[j].addr = player[j].addr
    BY <1>2, <2>1
  <2>3. \A k \in Clients : Present(k)' <=> Present(k)
    BY BallotPlayers
  <2> QED BY <1>2, <2>2, <2>3 DEF Behind
<1> QED BY <1>4, <1>5

\* The address counts with the new ballot, the others as before.
LEMMA BallotReplaces ==
  ASSUME TypeOK, TypeOK', Positions, Positions', NEW i \in Clients, NEW v \in {-1, 1},
         VoteMessage(i, v), NEW j \in Counted
  PROVE  CurVote(j)' = IF i \in Behind(j) THEN v ELSE CurVote(j)
<1>1. Counted' = Counted /\ Behind(j)' = Behind(j)
  BY BallotKeepsCounted
<1>2. \A k \in Behind(j) : k \in Clients /\ Present(k) /\ player[k].pos \in Nat
                           /\ player[k].pos <= votePos
  BY PresentTyped DEF Behind, Player, Positions
<1>3. votePos \in Nat
  BY DEF TypeOK
<1>4. /\ player'[i].vote = v /\ player'[i].pos = votePos + 1
      /\ \A k \in Clients : k # i => player'[k] = player[k]
  BY BallotPlayers
<1>5. /\ \A k \in Behind(j) : player'[k].pos \in Nat
      /\ \A k, m \in Behind(j) : player'[k].pos = player'[m].pos
                                   => player'[k].vote = player'[m].vote
  <2>1. \A k \in Behind(j) : k \in Clients /\ Present(k)'
    BY <1>2, BallotPlayers
  <2>2. \A k \in Behind(j) : player'[k].pos \in Nat
    BY <2>1 DEF TypeOK, Present, Player
  <2> QED BY <2>1, <2>2 DEF Positions
<1>6. \A k, m \in Behind(j) : player[k].pos = player[m].pos
                                => player[k].vote = player[m].vote
  BY <1>2 DEF Positions
<1>7. CASE i \in Behind(j)
  <2>1. \A k \in Behind(j) : player'[k].pos <= player'[i].pos
    <3>1. ASSUME NEW k \in Behind(j), k # i
          PROVE  player'[k].pos <= votePos /\ player'[k].pos \in Nat
      BY <1>2, <1>4, <3>1
    <3> QED BY <1>3, <1>4, <3>1
  <2>2. \A k \in Behind(j) : player'[k].pos = player'[i].pos
                               => player'[k].vote = player'[i].vote
    BY <1>5, <1>7
  <2>3. CurVote(j)' = player'[CHOOSE x \in Behind(j) :
                          \A k \in Behind(j) : player'[k].pos <= player'[x].pos].vote
    BY <1>1 DEF CurVote
  <2>4. CurVote(j)' = player'[i].vote
    BY <1>5, <1>7, <2>1, <2>2, <2>3, LastIsChosen
  <2> QED BY <1>4, <1>7, <2>4
<1>8. CASE i \notin Behind(j)
  <2>1. \A k \in Behind(j) : player'[k] = player[k]
    BY <1>2, <1>4, <1>8
  <2>2. j \in Clients /\ Present(j)
    BY DEF Counted, MayVote
  <2>3. PICK m \in Behind(j) : \A k \in Behind(j) : player[k].pos <= player[m].pos
    BY <2>2, LastVote
  <2>4. CurVote(j) = player[m].vote
    BY <1>2, <1>6, <2>3, LastIsChosen DEF CurVote
  <2>5. CurVote(j)' = player'[m].vote
    BY <1>1, <1>5, <2>1, <2>3, LastIsChosen DEF CurVote
  <2> QED BY <1>8, <2>1, <2>4, <2>5
<1> QED BY <1>7, <1>8

\* Of those who count at most one stands for the sender.
LEMMA OneStands ==
  ASSUME TypeOK, NEW i \in Clients, NEW j \in Counted, NEW k \in Counted,
         i \in Behind(j), i \in Behind(k)
  PROVE  j = k
<1>1. MayVote(j) /\ j \in Clients /\ player[k].addr = player[j].addr
  BY DEF Behind, Counted
<1> QED BY <1>1, AddressCountsOnce

\* One element at most changes a cardinality by one at most.
LEMMA OneMore ==
  ASSUME NEW S, IsFiniteSet(S), NEW J, \A j \in J, k \in J : j = k
  PROVE  /\ Cardinality(S \cup J) - Cardinality(S) \in {0, 1}
         /\ Cardinality(S) - Cardinality(S \ J) \in {0, 1}
<1>1. Cardinality(S) \in Nat
  BY FS_CardinalityType
<1>2. CASE J = {}
  <2>1. S \cup J = S /\ S \ J = S
    BY <1>2
  <2>2. Cardinality(S) - Cardinality(S) = 0
    BY <1>1
  <2> QED BY <2>1, <2>2
<1>3. ASSUME NEW j \in J PROVE J = {j}
  OBVIOUS
<1>4. ASSUME NEW j \in J, j \notin S
      PROVE  /\ Cardinality(S \cup J) - Cardinality(S) = 1
             /\ Cardinality(S) - Cardinality(S \ J) = 0
  <2>1. Cardinality(S \cup {j}) = Cardinality(S) + 1
    BY <1>4, FS_AddElement
  <2>2. S \cup J = S \cup {j} /\ S \ J = S
    BY <1>3, <1>4
  <2>3. Cardinality(S \cup J) = Cardinality(S) + 1 /\ Cardinality(S \ J) = Cardinality(S)
    BY <2>1, <2>2
  <2> QED BY <1>1, <2>3
<1>5. ASSUME NEW j \in J, j \in S
      PROVE  /\ Cardinality(S \cup J) - Cardinality(S) = 0
             /\ Cardinality(S) - Cardinality(S \ J) = 1
  <2>1. Cardinality(S \ {j}) = Cardinality(S) - 1
    BY <1>5, FS_RemoveElement
  <2>2. S \cup J = S /\ S \ J = S \ {j}
    BY <1>3, <1>5
  <2>3. Cardinality(S \cup J) = Cardinality(S) /\ Cardinality(S \ J) = Cardinality(S) - 1
    BY <2>1, <2>2
  <2> QED BY <1>1, <2>3
<1> QED BY <1>2, <1>4, <1>5

\* What a message does to the two sums.
LEMMA BallotSums ==
  ASSUME TypeOK, TypeOK', Positions, Positions', NEW i \in Clients, NEW v \in {-1, 1},
         VoteMessage(i, v)
  PROVE  /\ v = 1  => Yes' - Yes \in {0, 1} /\ No - No' \in {0, 1}
         /\ v = -1 => No' - No \in {0, 1} /\ Yes - Yes' \in {0, 1}
<1> DEFINE J == {j \in Counted : i \in Behind(j)}
           Y == {j \in Counted : CurVote(j) > 0}
           N == {j \in Counted : CurVote(j) < 0}
           Y2 == {j \in Counted : CurVote(j)' > 0}
           N2 == {j \in Counted : CurVote(j)' < 0}
<1>1. \A j \in J, k \in J : j = k
  BY OneStands
<1>2. IsFiniteSet(Y) /\ IsFiniteSet(N)
  <2>1. Counted \in SUBSET Clients
    BY DEF Counted
  <2>2. Y \in SUBSET Clients /\ N \in SUBSET Clients
    BY <2>1
  <2> QED BY <2>2, FS_Subset
<1>3. Counted' = Counted
  BY BallotKeepsCounted
<1>4. Yes = Cardinality(Y) /\ No = Cardinality(N)
  BY DEF Yes, No
<1>5. Yes' = Cardinality(Y2) /\ No' = Cardinality(N2)
  BY <1>3 DEF Yes, No
<1>6. \A j \in Counted : CurVote(j)' = IF j \in J THEN v ELSE CurVote(j)
  BY BallotReplaces
<1>7. CASE v = 1
  <2>1. Y2 = Y \cup J /\ N2 = N \ J
    BY <1>6, <1>7
  <2>2. Cardinality(Y2) - Cardinality(Y) \in {0, 1}
    BY <1>1, <1>2, <2>1, OneMore
  <2>3. Cardinality(N) - Cardinality(N2) \in {0, 1}
    BY <1>1, <1>2, <2>1, OneMore
  <2> QED BY <1>4, <1>5, <1>7, <2>2, <2>3
<1>8. CASE v = -1
  <2>1. N2 = N \cup J /\ Y2 = Y \ J
    BY <1>6, <1>8
  <2>2. Cardinality(N2) - Cardinality(N) \in {0, 1}
    BY <1>1, <1>2, <2>1, OneMore
  <2>3. Cardinality(Y) - Cardinality(Y2) \in {0, 1}
    BY <1>1, <1>2, <2>1, OneMore
  <2> QED BY <1>4, <1>5, <1>8, <2>2, <2>3
<1> QED BY <1>7, <1>8

\* A message gives the address it comes from one vote, the one it says.
THEOREM LastBallotDecides == Spec => LastBallotCounts
<1> DEFINE Inv == TypeOK /\ Positions
           Ballot(i, v) ==
             /\ Counted' = Counted
             /\ \A j \in Counted :
                  CurVote(j)' = IF i \in Behind(j) THEN v ELSE CurVote(j)
             /\ v = 1  => Yes' - Yes \in {0, 1} /\ No - No' \in {0, 1}
             /\ v = -1 => No' - No \in {0, 1} /\ Yes - Yes' \in {0, 1}
<1>1. Init => Inv
  BY TypeInit, PositionsInit
<1>2. Inv /\ [Next]_vars => Inv'
  BY TypeStep, PositionsStep
<1>3. Inv /\ Inv' =>
        [\A i \in Clients, v \in {-1, 1} : VoteMessage(i, v) => Ballot(i, v)]_vars
  <2> SUFFICES ASSUME Inv, Inv', NEW i \in Clients, NEW v \in {-1, 1}, VoteMessage(i, v)
               PROVE  Ballot(i, v)
    OBVIOUS
  <2> QED BY BallotKeepsCounted, BallotReplaces, BallotSums
<1> QED BY <1>1, <1>2, <1>3, PTL DEF Spec, LastBallotCounts
================================================================================
