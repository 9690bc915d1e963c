---------------------------- MODULE MapRotation -----------------------------
(***************************************************************************)
(* Which map the server plays: sv_map, the rotation of the game            *)
(* controller, the maps an administrator queues or changes to, and the     *)
(* server loop that loads the map and builds a new controller.             *)
(* A map is a member of Maps; places in the rotation are counted from 1,   *)
(* and place 0 stands for the -1 of the code.                              *)
(***************************************************************************)
EXTENDS Integers, Sequences, FiniteSetsExt, Functions

CONSTANTS
  Maps,           \* every name that may be asked for
  Loadable,       \* the maps that can be loaded
  NoMap,          \* the empty name
  Rotation,       \* sv_map_rotation
  Randoms,        \* the values sv_map_rotation_random may have
  Rcon            \* the commands the administrator may issue

RconCommands == {"queue_map", "change_map", "skip_map", "reload"}

ASSUME MapsAssumption ==
  /\ Loadable \subseteq Maps
  /\ NoMap \notin Maps
  /\ Rotation \in Seq(Maps)
  /\ Randoms \subseteq BOOLEAN
  /\ Rcon \subseteq RconCommands

VARIABLES
  svMap,          \* Config()->m_SvMap
  currentMap,     \* CServer::m_aCurrentMap
  mapReload,      \* CServer::m_MapReload
  queued,         \* m_aQueuedMap of the controller, or NoMap
  previous,       \* m_aPreviousMap of the controller, or NoMap
  place           \* history: the place of the last map of the rotation that
                  \* was loaded, 0 before

vars == <<svMap, currentMap, mapReload, queued, previous, place>>

TypeOK ==
  /\ svMap \in Maps
  /\ currentMap \in Loadable
  /\ mapReload \in BOOLEAN
  /\ queued \in Maps \cup {NoMap}
  /\ previous \in Maps \cup {NoMap}
  /\ place \in 0 .. Len(Rotation)

\* The last place of a map in the rotation.
PlaceOf(m) ==
  LET places == {i \in DOMAIN Rotation : Rotation[i] = m}
  IN  IF places = {} THEN 0 ELSE Max(places)

CurrentMapNumber ==
  IF PlaceOf(svMap) = 0 /\ previous # NoMap THEN PlaceOf(previous)
                                            ELSE PlaceOf(svMap)

\* A variant of Successor that begins again one map too early.
SuccessorEarly(i) == IF i < Len(Rotation) - 1 THEN i + 1 ELSE 1

Successor(i) == IF i < Len(Rotation) THEN i + 1 ELSE 1

\* A variant of NextPlaces that draws only once.
NextPlacesOnce(random) ==
  IF random THEN DOMAIN Rotation ELSE {Successor(CurrentMapNumber)}

\* Where the rotation may go.  A random choice that hits the current place 32
\* times in a row is given up for the successor.
NextPlaces(random) ==
  {Successor(CurrentMapNumber)}
  \cup IF random THEN DOMAIN Rotation \ {CurrentMapNumber} ELSE {}

\* A variant of ChangeMap that forgets a change that is under way.
ChangeMapOnce(m) ==
  /\ svMap' = m
  /\ mapReload' = (svMap = currentMap /\ m # currentMap)

ChangeMap(m) ==
  /\ svMap' = m
  /\ mapReload' = (m # currentMap)

CycleMap(random) ==
  \/ /\ queued # NoMap
     /\ ChangeMap(queued)
     /\ queued' = NoMap
     /\ UNCHANGED <<currentMap, previous, place>>
  \/ /\ queued = NoMap
     /\ Rotation = <<>>
     /\ UNCHANGED vars
  \/ /\ queued = NoMap
     /\ Rotation # <<>>
     /\ previous' = svMap
     /\ \E i \in NextPlaces(random) : ChangeMap(Rotation[i])
     /\ UNCHANGED <<currentMap, queued, place>>

\* The last round on the map is over.  The server loads a map before it plays
\* another tick.
EndOfMap(random) == ~ mapReload /\ CycleMap(random)

ConSkipMap(random) == "skip_map" \in Rcon /\ CycleMap(random)

ConQueueMap(m) ==
  /\ "queue_map" \in Rcon
  /\ queued' = m
  /\ UNCHANGED <<svMap, currentMap, mapReload, previous, place>>

\* change_map, and sv_map in a configuration.
ConChangeMap(m) ==
  /\ "change_map" \in Rcon
  /\ ChangeMap(m)
  /\ UNCHANGED <<currentMap, queued, previous, place>>

\* reload, and the reloads of an empty server.
ConMapReload ==
  /\ "reload" \in Rcon
  /\ mapReload' = TRUE
  /\ UNCHANGED <<svMap, currentMap, queued, previous, place>>

\* A variant of LoadMap that takes the new name before it knows that the map
\* can be loaded.
LoadMapBlindly ==
  /\ mapReload
  /\ mapReload' = FALSE
  /\ currentMap' = svMap
  /\ queued' = NoMap
  /\ previous' = NoMap
  /\ place' = IF PlaceOf(svMap) = 0 THEN place ELSE PlaceOf(svMap)
  /\ UNCHANGED svMap

\* The map is loaded and the controller is built anew.
LoadMap ==
  /\ mapReload
  /\ svMap \in Loadable
  /\ mapReload' = FALSE
  /\ currentMap' = svMap
  /\ queued' = NoMap
  /\ previous' = NoMap
  /\ place' = IF PlaceOf(svMap) = 0 THEN place ELSE PlaceOf(svMap)
  /\ UNCHANGED svMap

\* A variant of LoadMapFails that keeps asking for the map.
LoadMapFailsSilently ==
  /\ mapReload
  /\ svMap \notin Loadable
  /\ mapReload' = FALSE
  /\ UNCHANGED <<svMap, currentMap, queued, previous, place>>

LoadMapFails ==
  /\ mapReload
  /\ svMap \notin Loadable
  /\ mapReload' = FALSE
  /\ svMap' = currentMap
  /\ UNCHANGED <<currentMap, queued, previous, place>>

Init ==
  /\ svMap \in Loadable
  /\ currentMap = svMap
  /\ mapReload = FALSE
  /\ queued = NoMap
  /\ previous = NoMap
  /\ place = PlaceOf(svMap)

Next ==
  \/ \E random \in Randoms : EndOfMap(random) \/ ConSkipMap(random)
  \/ \E m \in Maps : ConQueueMap(m) \/ ConChangeMap(m)
  \/ ConMapReload
  \/ LoadMap
  \/ LoadMapFails

Spec == Init /\ [][Next]_vars

\* Rounds end, and the server loop loads the map that is asked for.
FairSpec ==
  /\ Spec
  /\ WF_vars(\E random \in Randoms : EndOfMap(random))
  /\ WF_vars(LoadMap \/ LoadMapFails)
-----------------------------------------------------------------------------
\* sv_map, which the server announces and the next rotation starts from, names
\* the map that is played unless it is about to be loaded, after a failed load
\* and after a change that was taken back as well.
SvMapIsPlayed == svMap # currentMap => mapReload

\* A rotation of at least two maps, listed once each, never stays on the map it
\* is on, whether it goes in order or at random, and when the map is not in it.
RotationMovesOn ==
  [][IsInjective(Rotation) /\ Len(Rotation) > 1 /\ queued = NoMap =>
       \A random \in Randoms : EndOfMap(random) => svMap' # svMap /\ mapReload']_vars

\* Once the administrator leaves the server alone and the rotation goes in
\* order, it plays each of its maps again and again, wherever it was taken to:
\* no queued map, none from outside and none that could not be loaded stops it.
EveryMapPlayed ==
  <>[][EndOfMap(FALSE) \/ LoadMap \/ LoadMapFails]_vars =>
    \A m \in Range(Rotation) : []<>(currentMap = m)
=============================================================================
