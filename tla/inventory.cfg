SPECIFICATION Spec
CONSTANTS
  Command = {c1, c2, c3}
  Name = {n1, n2}
  Size = 2
  None = None
  Types = {"docker-container", "singularity", "ssh", "aws-ec2", "aws-condor"}
INVARIANTS
  TypeOK
  LiveIsListed
  StatusHasReason
PROPERTIES
  OwnEntryOnly
  DeleteLeavesNothing
CONSTRAINTS
  UpToFirstRace
  OneBackend
SYMMETRY ExchangeSymmetry
\* All commands come to an end.
CHECK_DEADLOCK FALSE
