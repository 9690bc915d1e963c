SPECIFICATION Spec
CONSTANTS
  Size = 3
  Backlog = 2
  MaxQueries = 3
  Kinds <- MCTeamKinds
CHECK_DEADLOCK FALSE
INVARIANTS
  BackupSettled
