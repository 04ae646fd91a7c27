SPECIFICATION MCSpec
CONSTANTS
  None = None
  Path <- MCPath
  Dir <- MCDir
  Host <- MCHost
  Pycache <- MCPycache
  Deb <- MCDeb
  Rpm <- MCRpm
  Conda <- MCConda
  Venv <- MCVenv
  Vcs <- MCVcs
  Images <- MCImages
  MaxInput = 3
  Environments <- MCEnvironments
  Original <- MCOriginal
  NoCommit = NoCommit
  AptLines <- MCAptLines
  Digests <- MCDigests
  CondaEnvs <- MCCondaEnvs
  VenvEnvs <- MCVenvEnvs
  NextLines = {"next"}
  Undated = {}
  YumSources = {"epel", "own"}
  ThirdParty = {"epel"}
  Commits = {"c1", "c2"}
  Branches = {"main", "dev"}
  NoBranch = NoBranch
  MaxTries = 2
  Unstated = Unstated
  Env <- MCEnv
  Package <- MCPackage
  Variables = {X}
  Plain = {v1, Empty}
  Empty = Empty
  Spaced = Spaced
  Own = Own
  Unset = Unset
  Null = Null
  Anything = Anything
  Leaves = {a, b}
  MaxCalls = 3
  Users = {u1, u2}
  ExecIds = {i1, i2}
  NoTrace = NoTrace
  Fetched = {j1, j2}
  LocalBranch = {main, dev}
  Detached = Detached
  Unknown = Unknown
  MaxEdits = 1
INVARIANTS
  EnvironmentTypeOK
  Accounted
  Settles
  SourcesResolve
  
  StatusIsTrue
  SeesItsEnvironment
  DoneIsWhole
  DoneIsTraced
  FetchLeavesHead
PROPERTIES
  UserWorkKept
CONSTRAINT UpToFirstMeeting
\* Every part comes to an end.
CHECK_DEADLOCK FALSE
