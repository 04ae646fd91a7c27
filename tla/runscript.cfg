SPECIFICATION FairSpec
CONSTANT NumSubjobs = 3
INVARIANTS
  TypeOK
  CompletedMeansAllEnded
  ResultsAreWhole
  FailuresKnown
  StatusKnown
PROPERTIES
  CompletesWithoutFaults
  AbstractSpec
\* The script stops when every subjob has ended, or is queued behind a barrier.
CHECK_DEADLOCK FALSE
