\* A crash during a rollout, then remove.
SPECIFICATION Spec
CONSTANTS
  Apps = {a1}
  Procs = {p1}
  Releases = {r1, r2}
  Ops <- AllOps
  Modes <- OnlyBlueGreen
  NoStack = NoStack
  NoRelease = NoRelease
  Absent = Absent
  Stopped = Stopped
  MaxStacks = 2
  MaxCommands = 3
  MaxCrashes = 1
PROPERTIES
  RemoveLeavesNothing
CHECK_DEADLOCK FALSE
