\* One app, two concurrent commands, every operation; all commands deploy the same
\* release, of which no property tells two apart.
SPECIFICATION FairSpec
CONSTANTS
  Apps = {a1}
  Procs = {p1, p2}
  Releases = {r1}
  Ops <- AllOps
  Modes <- Exposed
  NoStack = NoStack
  NoRelease = NoRelease
  Absent = Absent
  Stopped = Stopped
  MaxStacks = 2
  MaxCommands = 3
  MaxCrashes = 2
INVARIANTS
  TypeOK
  JournalOwned
  UnpromotedUnrecorded
  RoutesLive
PROPERTIES
  RecordedStackKept
  OnlyRecoveryDropsTraffic
  IntentOutlivesCandidate
  DeployRefines
  CommandsReturn
CHECK_DEADLOCK FALSE
