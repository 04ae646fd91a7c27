SPECIFICATION FairSpec
CONSTANTS
  Job = {j1}
  Client = {c1}
  Follow = {"no", "yes", "stop", "stop-if-success", "delete", "delete-if-success"}
  MaxQueries = 2
  QueriesFail = TRUE
INVARIANTS
  TypeOK
  LaunchedIsKnown
  UnregisteredIsFetched
  FetchedIsCompleted
PROPERTIES
  ReportIsTrue
  ReleasedAfterFetch
  FollowerEnds
\* Commands end.
CHECK_DEADLOCK FALSE
