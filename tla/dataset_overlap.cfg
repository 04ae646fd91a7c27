SPECIFICATION DatasetSpec
CONSTANTS
  DatasetJob = {j1, j2}
  Commit = {c1, c2}
  None = None
  Overlap = TRUE
INVARIANT MarkedOnCompletion
\* All jobs come to an end.
CHECK_DEADLOCK FALSE
