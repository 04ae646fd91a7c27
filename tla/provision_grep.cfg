SPECIFICATION ProvisionSpec
CONSTANTS
  Environments <- MCEnvironments
  Original <- MCOriginal
  NoCommit = NoCommit
  AptLines <- MCAptLines
  Digests <- MCDigests
  CondaEnvs <- MCCondaEnvs
  VenvEnvs <- MCVenvEnvs
  NextLines = {"next"}
  Undated = {}
  YumSources = {"epel", "own"}
  ThirdParty = {"epel"}
  Commits = {"c1", "c2"}
  Branches = {"main", "dev"}
  NoBranch = NoBranch
  MaxTries = 1
PROPERTY MissingLineIsWritten
\* A command ends.
CHECK_DEADLOCK FALSE
