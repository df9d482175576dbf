CONSTANTS
  Process = {"p1", "p2"}
  Project <- TwoProjects
  MaxFaults = 1
  MaxBuilds = 1
  Builtin = {"io"}
  InputDir <- Input
  SearchPath <- Paths
  Private = {"_h"}
  Builder = "p1"
  Tree <- Trees
  Pending = Pending
  Universes <- Worlds
  BadVersion = BadVersion
  NULL = NULL
  Nothing = Nothing
SPECIFICATION ToolsSpec
CHECK_DEADLOCK FALSE
INVARIANTS LockIsMaxOfMinimums MajorsAgree CallsReachTheirFunctions LinkFailsOnHiddenNames
  BuildsUseLockedSources
PROPERTIES ResolutionEnds InstallIsComplete
