SPECIFICATION DatasetSpec
CONSTANTS
  DatasetJob = {j1, j2, j3}
  Commit = {c1, c2}
  None = None
  Overlap = FALSE
INVARIANTS
  DatasetTypeOK
  RanOnRequested
  RefIsOwn
  RunningKeepsFiles
  DirtHasReason
SYMMETRY JobSymmetry
\* All jobs come to an end.
CHECK_DEADLOCK FALSE
