\* Two tasks, one wanted: a replacement keeps the count.  Docker may hang.
SPECIFICATION StageSpec
CONSTANTS
  Tasks = {t1, t2}
  Desired = 1
  Timeout = 2
  Monitor = 2
  Interval = 1
  Slack = 2
  EnvKeys = {"k", "l"}
  ServiceKeys <- TwoKeys
  Configs = {"config"}
  FileContents <- SomeFiles
  ResolvableLists = {{}, {"k"}}
  MaxConfigChanges = 1
  AppNames <- ThreeNames
  RParts = {"redis"}
  Manifests = {"p", "q"}
  Domain <- OneDomain
  Workspaces <- SomeWorkspaces
  EditedNames <- ShortNames
  MaxNameOps = 2
  MaxNamesWork = 3
  MaxOtherReleases = 1
  MaxNetworkOps = 1
INVARIANTS
  StageTypeOK
  DecidesInWindow
  SuccessIsStable
  AlarmMeansChange
  EnvironmentAsWritten
  NamesKeepTheirStacks
  DependenciesFirst
  RouteReachesService
PROPERTIES
  LossIsFinal
  WaitEnds
CHECK_DEADLOCK FALSE
