SPECIFICATION Spec
CONSTANTS
  Job = {j1}
  Client = {}
  Follow = {"stop"}
  MaxQueries = 1
  QueriesFail = FALSE
INVARIANT FailedRunRaisesJobError
CHECK_DEADLOCK FALSE
