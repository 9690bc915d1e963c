SPECIFICATION FairSpec
CONSTANTS
  Numbers <- MCNumbers
  OpenTime = 6
  CloseTime = 2
  ReopenTime = 4
INVARIANTS
  TypeOK
PROPERTIES
  ImplementsPassage
  DoorOpens
  ZombieDoorReopens
