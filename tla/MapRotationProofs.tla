------------------------- MODULE MapRotationProofs --------------------------
(***************************************************************************)
(* Theorems about MapRotation, for all sets of maps, every rotation and    *)
(* whatever the administrator may do.                                      *)
(***************************************************************************)
EXTENDS MapRotation, WellFoundedInduction, TLAPS

\* A nonempty set of numbers up to a bound has a largest element, the one Max
\* chooses: by the least distance from the bound.
LEMMA MaxExists ==
  ASSUME NEW N \in Nat, NEW S, S \subseteq 1 .. N, S # {}
  PROVE  Max(S) \in S
<1> DEFINE T == {d \in Nat : \E i \in S : d = N - i}
<1>1. T # {}
  <2>1. PICK i \in S : TRUE
    OBVIOUS
  <2>2. i \in 1 .. N
    BY <2>1
  <2>3. N - i \in Nat
    BY <2>2
  <2> QED BY <2>1, <2>3
<1>2. PICK d \in T : \A e \in T : ~ (<<e, d>> \in OpToRel(<, Nat))
  <2>1. T \subseteq Nat
    OBVIOUS
  <2> HIDE DEF T
  <2> QED BY <1>1, <2>1, NatLessThanWellFounded, WFMin, Zenon
<1>3. \A e \in T : ~ (e < d)
  <2>1. T \subseteq Nat
    OBVIOUS
  <2> HIDE DEF T
  <2> QED BY <1>2, <2>1, Zenon DEF OpToRel
<1>4. PICK m \in S : d = N - m
  OBVIOUS
<1>5. ASSUME NEW i \in S PROVE m >= i
  <2>1. i \in 1 .. N /\ m \in 1 .. N
    BY <1>4
  <2>2. N - i \in T
    BY <2>1
  <2> QED BY <1>3, <1>4, <2>1, <2>2
<1> QED BY <1>5 DEF Max

\* A map that is in the rotation has a place there.
LEMMA PlaceIsPlace ==
  ASSUME NEW m
  PROVE  /\ PlaceOf(m) \in 0 .. Len(Rotation)
         /\ PlaceOf(m) = 0 <=> \A i \in DOMAIN Rotation : Rotation[i] # m
         /\ PlaceOf(m) # 0 => Rotation[PlaceOf(m)] = m
<1> DEFINE places == {i \in DOMAIN Rotation : Rotation[i] = m}
<1>1. Len(Rotation) \in Nat /\ DOMAIN Rotation = 1 .. Len(Rotation)
  BY MapsAssumption
<1>2. CASE places = {}
  BY <1>1, <1>2 DEF PlaceOf
<1>3. CASE places # {}
  <2>1. Max(places) \in places
    <3>1. places \subseteq 1 .. Len(Rotation)
      BY <1>1
    <3> HIDE DEF places
    <3> QED BY <1>1, <1>3, <3>1, MaxExists
  <2>2. PlaceOf(m) = Max(places)
    BY <1>3 DEF PlaceOf
  <2> QED BY <1>1, <2>1, <2>2
<1> QED BY <1>2, <1>3

\* Whatever is drawn is a place of the rotation.
LEMMA NextIsPlace ==
  ASSUME NEW random, Rotation # <<>>, NEW i \in NextPlaces(random)
  PROVE  i \in DOMAIN Rotation
<1>1. /\ Rotation \in Seq(Maps) /\ Len(Rotation) \in Nat
      /\ DOMAIN Rotation = 1 .. Len(Rotation)
  BY MapsAssumption
<1>2. Len(Rotation) > 0
  BY <1>1
<1>3. CurrentMapNumber \in 0 .. Len(Rotation)
  BY PlaceIsPlace DEF CurrentMapNumber
<1>4. Successor(CurrentMapNumber) \in DOMAIN Rotation
  BY <1>1, <1>2, <1>3 DEF Successor
<1> QED BY <1>4 DEF NextPlaces

\* What CycleMap does in terms of ChangeMap.
LEMMA CycleMapChoices ==
  ASSUME NEW random, TypeOK, CycleMap(random)
  PROVE  /\ UNCHANGED <<currentMap, place>>
         /\ queued' \in {queued, NoMap}
         /\ previous' \in {previous, svMap}
         /\ UNCHANGED <<svMap, mapReload>> \/ \E m \in Maps : ChangeMap(m)
<1>1. CASE queued # NoMap /\ ChangeMap(queued) /\ queued' = NoMap
           /\ UNCHANGED <<currentMap, previous, place>>
  BY <1>1 DEF TypeOK
<1>2. CASE UNCHANGED vars
  BY <1>2 DEF vars
<1>3. ASSUME Rotation # <<>>, previous' = svMap,
             NEW i \in NextPlaces(random),
             ChangeMap(Rotation[i]), UNCHANGED <<currentMap, queued, place>>
      PROVE  /\ UNCHANGED <<currentMap, place>>
             /\ queued' \in {queued, NoMap}
             /\ previous' \in {previous, svMap}
             /\ \E m \in Maps : ChangeMap(m)
  <2>1. i \in DOMAIN Rotation
    BY <1>3, NextIsPlace
  <2>2. Rotation[i] \in Maps
    BY <2>1, MapsAssumption
  <2> QED BY <1>3, <2>2
<1> QED BY <1>1, <1>2, <1>3 DEF CycleMap

\* The inductive invariant.
MapInv == TypeOK /\ SvMapIsPlayed

\* The server starts with a map that it has loaded.
LEMMA InitMaps == Init => MapInv
<1> SUFFICES ASSUME Init PROVE MapInv
  OBVIOUS
<1>1. PlaceOf(svMap) \in 0 .. Len(Rotation)
  BY PlaceIsPlace
<1> QED BY <1>1, MapsAssumption
        DEF MapsAssumption, Init, MapInv, TypeOK, SvMapIsPlayed

\* Every step keeps the names of the maps consistent.
LEMMA StepMaps == MapInv /\ [Next]_vars => MapInv'
<1> SUFFICES ASSUME MapInv, [Next]_vars PROVE MapInv'
  OBVIOUS
<1> USE MapsAssumption DEF MapsAssumption, MapInv, TypeOK, SvMapIsPlayed
<1>1. ASSUME NEW random \in Randoms, CycleMap(random) PROVE MapInv'
  <2>1. /\ UNCHANGED <<currentMap, place>>
        /\ queued' \in {queued, NoMap}
        /\ previous' \in {previous, svMap}
        /\ UNCHANGED <<svMap, mapReload>> \/ \E m \in Maps : ChangeMap(m)
    BY <1>1, CycleMapChoices
  <2>2. CASE UNCHANGED <<svMap, mapReload>>
    BY <2>1, <2>2
  <2>3. ASSUME NEW m \in Maps, ChangeMap(m) PROVE MapInv'
    BY <2>1, <2>3 DEF ChangeMap
  <2> QED BY <2>1, <2>2, <2>3
<1>2. ASSUME NEW random \in Randoms, EndOfMap(random) PROVE MapInv'
  BY <1>1, <1>2 DEF EndOfMap
<1>3. ASSUME NEW random \in Randoms, ConSkipMap(random) PROVE MapInv'
  BY <1>1, <1>3 DEF ConSkipMap
<1>4. ASSUME NEW m \in Maps, ConQueueMap(m) PROVE MapInv'
  BY <1>4 DEF ConQueueMap
<1>5. ASSUME NEW m \in Maps, ConChangeMap(m) PROVE MapInv'
  BY <1>5 DEF ConChangeMap, ChangeMap
<1>6. CASE ConMapReload
  BY <1>6 DEF ConMapReload
<1>7. CASE LoadMap
  <2>1. PlaceOf(svMap) \in 0 .. Len(Rotation)
    BY PlaceIsPlace
  <2> QED BY <1>7, <2>1 DEF LoadMap
<1>8. CASE LoadMapFails
  BY <1>8 DEF LoadMapFails
<1>9. CASE UNCHANGED vars
  BY <1>9 DEF vars
<1> QED BY <1>2, <1>3, <1>4, <1>5, <1>6, <1>7, <1>8, <1>9 DEF Next

\* MapInv holds in every state.
LEMMA MapInvariant == Spec => []MapInv
BY InitMaps, StepMaps, PTL DEF Spec

\* For every rotation the names of the maps keep their types; the place of the
\* last map that was loaded is one of the rotation's.
THEOREM MapsTyped == Spec => []TypeOK
<1>1. MapInv => TypeOK
  BY DEF MapInv
<1> QED BY <1>1, MapInvariant, PTL

\* Whatever maps there are and however they are asked for, sv_map names the map
\* that is played or the one about to be loaded.
THEOREM NameIsPlayed == Spec => []SvMapIsPlayed
<1>1. MapInv => SvMapIsPlayed
  BY DEF MapInv
<1> QED BY <1>1, MapInvariant, PTL

\* A rotation of any length without repetitions always moves on, in order and
\* at random.
THEOREM MovesOn == Spec => RotationMovesOn
<1> DEFINE A == IsInjective(Rotation) /\ Len(Rotation) > 1 /\ queued = NoMap =>
                 \A random \in Randoms :
                   EndOfMap(random) => svMap' # svMap /\ mapReload'
<1>1. MapInv /\ [Next]_vars => [A]_vars
  <2> SUFFICES ASSUME MapInv, IsInjective(Rotation), Len(Rotation) > 1,
                      queued = NoMap, NEW random \in Randoms,
                      EndOfMap(random)
               PROVE  svMap' # svMap /\ mapReload'
    OBVIOUS
  <2>1. /\ Rotation \in Seq(Maps) /\ Len(Rotation) \in Nat
        /\ DOMAIN Rotation = 1 .. Len(Rotation)
    BY MapsAssumption
  <2>2. svMap = currentMap
    BY DEF MapInv, TypeOK, SvMapIsPlayed, EndOfMap
  <2>3. PICK i \in NextPlaces(random) : ChangeMap(Rotation[i])
    BY <2>1 DEF EndOfMap, CycleMap
  <2>4. i \in DOMAIN Rotation
    BY <2>1, NextIsPlace
  <2>5. Rotation[i] # svMap
    <3>1. CASE PlaceOf(svMap) = 0
      BY <3>1, <2>4, PlaceIsPlace
    <3>2. CASE PlaceOf(svMap) # 0
      <4> DEFINE p == PlaceOf(svMap)
      <4>1. p \in DOMAIN Rotation /\ Rotation[p] = svMap
        BY <3>2, <2>1, PlaceIsPlace
      <4>2. i \in {Successor(p)} \cup (DOMAIN Rotation \ {p})
        BY <3>2, <2>3 DEF NextPlaces, CurrentMapNumber
      <4>3. Successor(p) # p
        BY <4>1, <2>1 DEF Successor
      <4>4. i # p
        BY <4>2, <4>3
      <4> QED BY <4>1, <4>4, <2>4 DEF IsInjective
    <3> QED BY <3>1, <3>2
  <2> QED BY <2>2, <2>3, <2>5 DEF ChangeMap
<1> QED BY <1>1, MapInvariant, PTL DEF Spec, RotationMovesOn

-----------------------------------------------------------------------------
(* The order of the rotation.                                              *)

\* The last map of the rotation that was loaded is the one that is played, as
\* long as one of the rotation is.
PlaceIsPlayed == PlaceOf(currentMap) # 0 => place = PlaceOf(currentMap)

\* A rotation that is not drawn at random goes from the map that was loaded last
\* to the one listed after it, and from the last one back to the first, after
\* failed loads, reloads and maps changed to and back as well.
RotationInOrder ==
  [][EndOfMap(FALSE) /\ queued = NoMap /\ PlaceOf(currentMap) # 0 =>
       svMap' = Rotation[Successor(place)]]_vars

LEMMA InitPlace == Init => PlaceIsPlayed
BY DEF Init, PlaceIsPlayed

\* Only LoadMap changes the map that is played, and it notes the place.
LEMMA StepPlace == MapInv /\ PlaceIsPlayed /\ [Next]_vars => PlaceIsPlayed'
<1> SUFFICES ASSUME MapInv, PlaceIsPlayed, [Next]_vars PROVE PlaceIsPlayed'
  OBVIOUS
<1>1. CASE UNCHANGED <<currentMap, place>>
  BY <1>1 DEF PlaceIsPlayed, PlaceOf
<1>2. CASE LoadMap
  BY <1>2 DEF LoadMap, PlaceIsPlayed, PlaceOf
<1>3. ASSUME NEW random \in Randoms, CycleMap(random)
      PROVE  UNCHANGED <<currentMap, place>>
  BY <1>3, CycleMapChoices DEF MapInv
<1> QED BY <1>1, <1>2, <1>3 DEF Next, vars, EndOfMap, ConSkipMap, ConQueueMap,
           ConChangeMap, ChangeMap, ConMapReload, LoadMapFails

\* For every rotation, also one that lists a map twice, the map after a map of
\* the rotation is the one listed after its last place.
THEOREM InOrder == Spec => RotationInOrder
<1> DEFINE A == EndOfMap(FALSE) /\ queued = NoMap /\ PlaceOf(currentMap) # 0 =>
                  svMap' = Rotation[Successor(place)]
<1>1. MapInv /\ PlaceIsPlayed /\ [Next]_vars => [A]_vars
  <2> SUFFICES ASSUME MapInv, PlaceIsPlayed, EndOfMap(FALSE), queued = NoMap,
                      PlaceOf(currentMap) # 0
               PROVE  svMap' = Rotation[Successor(place)]
    OBVIOUS
  <2>1. svMap = currentMap
    BY DEF MapInv, TypeOK, SvMapIsPlayed, EndOfMap
  <2>2. CurrentMapNumber = place
    BY <2>1 DEF CurrentMapNumber, PlaceIsPlayed
  <2>3. Rotation # <<>>
    <3>1. /\ Rotation \in Seq(Maps) /\ Len(Rotation) \in Nat
          /\ DOMAIN Rotation = 1 .. Len(Rotation)
      BY MapsAssumption
    <3>2. PlaceOf(currentMap) \in 0 .. Len(Rotation)
      BY PlaceIsPlace
    <3> QED BY <3>1, <3>2
  <2>4. PICK i \in NextPlaces(FALSE) : ChangeMap(Rotation[i])
    BY <2>3 DEF EndOfMap, CycleMap
  <2>5. i = Successor(place)
    BY <2>2, <2>4 DEF NextPlaces
  <2> QED BY <2>4, <2>5 DEF ChangeMap
<1> QED BY <1>1, InitPlace, StepPlace, MapInvariant, PTL DEF Spec, RotationInOrder
=============================================================================
