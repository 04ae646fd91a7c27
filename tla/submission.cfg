SPECIFICATION MCSpec
CONSTANTS
  Subjob = {i1, i2}
  Submitter = {"pbs", "condor", "slurm", "local", "lsf"}
  MaxFailures = 2
  MaxRuns = 2
  NoSpec = NoSpec
  SpecFile <- MCSpecFile
  JobParameter <- MCJobParameter
  Option <- MCOption
  CommandLine <- MCCommandLine
  BatchFile <- MCBatchFile
  Hits <- MCHits
  SubHits <- MCSubHits
  NameOf <- MCNameOf
  Within <- MCWithin
INVARIANTS
  SubmissionTypeOK
  RunsAsAsked
PROPERTIES
  FollowEnds
  CompletedIsTrue
  EarlyEndHasReason
\* The submitter returns and the batch system forgets.
CHECK_DEADLOCK FALSE
