SPECIFICATION Spec
CONSTANTS
  Clients = {c1, c2, c3}
  c1 = c1
  c2 = c2
  c3 = c3
  None = None
  SvWarmup = 3
  WinCheckLimit = 5
  EndRoundLimit = 2
  GameOverTicks = 1
  ZombieRatio = 2
  RoundsPerMap = 2
  Rotations = {"none", "same", "other"}
  Rcon = {"restart", "set_team", "set_team_all", "kill_pl", "skip_map"}
  RestartTimes = {}
SYMMETRY Symmetry
INVARIANTS
  TypeOK
  NoZombieBeforeSelection
  PlayFollowsSelection
  GameOverStopsWorld
PROPERTIES
  NoNewHumansInPlay
  LastZombieStays
  ImplementsRoundCycle
\* The server is gone after a crash.
CHECK_DEADLOCK FALSE
