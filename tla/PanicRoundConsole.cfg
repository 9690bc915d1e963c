SPECIFICATION Spec
CONSTANTS
  Clients = {c1, c2, c3, c4}
  c1 = c1
  c2 = c2
  c3 = c3
  c4 = c4
  None = None
  SvWarmup = 1
  WinCheckLimit = 1
  EndRoundLimit = 1
  GameOverTicks = 0
  ZombieRatio = 2
  RoundsPerMap = 1
  Rotations = {"same"}
  Rcon = {"restart_in", "pause_game", "swap_teams", "shuffle_teams"}
  RestartTimes = {0}
SYMMETRY Symmetry
INVARIANTS
  SelectionHasCandidate
PROPERTIES
  WinnerMatchesTeams
  EveryPickIsNew
\* The server is gone after a crash.
CHECK_DEADLOCK FALSE
