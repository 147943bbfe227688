SPECIFICATION SceneSpec
CONSTANTS
  Envs = {"m", "n"}
  ConfigNets = {"x"}
  Commands = {"p", "q"}
  MaxPlatformOps = 2
  MaxPlatformFaults = 1
  Keys = {"k", "l"}
  SecretUsers = {"p", "q"}
  MaxAttempts = 2
  MaxVersion = 3
  MaxSecretOps = 3
  MaxSecretFaults = 1
  Releases = {1, 2}
  Upgraders = {"p", "q"}
  MaxUpgrades = 2
  MaxUpgradeFaults = 1
  MaxEdits = 1
  ServiceCount = 2
  MaxChanges = 2
  MaxQueryFailures = 1
  MaxPicks = 1
  OutputLimit = 2
  MaxChunk = 2
  MaxBytes = 4
  MaxJobs = 2
INVARIANTS
  SceneTypeOK
  MetadataMatchesSwarm
  UpgradeKeepsInStep
  TasksBelongToSelected
  OutputKeepsTail
  KilledLeavesNoProcess
PROPERTIES
  DeployMountsNewest
  RollbackRestoresValues
  RoutedNetworksStayAttached
  UninstallLeavesNothing
  PlatformCommandsReturn
  DashboardCatchesUp
  CancelledStreamEnds
CHECK_DEADLOCK FALSE
