SPECIFICATION FairSpec
CONSTANTS
  Size = 3
  Backlog = 2
  MaxQueries = 4
  Kinds = {"AddRead", "AddWrite", "AddBackup", "Read", "Print", "SaveScore", "SaveTeamScore"}
CHECK_DEADLOCK FALSE
INVARIANTS
  TypeOK
  SlotsNotShared
  RankKept
  AnswerIsTrue
  StopsLast
PROPERTIES
  ImplementsJobQueue
  QueriesAnswered
  ShutdownEnds
