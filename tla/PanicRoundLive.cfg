SPECIFICATION FairSpec
CONSTANTS
  Clients = {c1, c2}
  c1 = c1
  c2 = c2
  None = None
  SvWarmup = 3
  WinCheckLimit = 5
  EndRoundLimit = 2
  GameOverTicks = 1
  ZombieRatio = 2
  RoundsPerMap = 1
  Rotations = {"same"}
  Rcon = {}
  RestartTimes = {}
PROPERTIES
  RoundEnds
  GameOverRestarts
  WarmupEnds
\* The server is gone after a crash.
CHECK_DEADLOCK FALSE
