SPECIFICATION Spec
CONSTANTS
  Job = {j1}
  Client = {}
  Follow = {"stop", "delete-if-success"}
  MaxQueries = 1
  QueriesFail = FALSE
INVARIANT OutputsBeforeRelease
CHECK_DEADLOCK FALSE
