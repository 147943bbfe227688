SPECIFICATION NamesSpec
CONSTANTS
  AppNames <- ThreeNames
  RParts = {"redis"}
  Manifests = {"p", "q"}
  Domain <- OneDomain
  Workspaces <- SideBySide
  EditedNames <- ShortNames
  MaxNameOps = 1
  MaxNamesWork = 1
INVARIANTS
  SweepSparesOtherApps
CHECK_DEADLOCK FALSE
