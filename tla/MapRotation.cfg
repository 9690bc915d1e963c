SPECIFICATION FairSpec
CONSTANTS
  a = a
  b = b
  c = c
  custom = custom
  broken = broken
  NoMap = NoMap
  Maps <- MCMaps
  Loadable <- MCLoadable
  Rotation <- MCRotation
  Randoms = {TRUE, FALSE}
  Rcon = {"queue_map", "change_map", "skip_map", "reload"}
INVARIANTS
  TypeOK
  SvMapIsPlayed
PROPERTIES
  RotationMovesOn
  EveryMapPlayed
