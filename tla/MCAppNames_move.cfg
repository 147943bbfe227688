SPECIFICATION NamesSpec
CONSTANTS
  AppNames <- ThreeNames
  RParts = {"redis"}
  Manifests = {"p", "q"}
  Domain <- OneDomain
  Workspaces <- SomeWorkspaces
  EditedNames <- ShortNames
  MaxNameOps = 1
  MaxNamesWork = 3
INVARIANTS
  DeclaredIsNoRename
CHECK_DEADLOCK FALSE
