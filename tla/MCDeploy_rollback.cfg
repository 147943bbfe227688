\* A rollback that waits for a deploy.
SPECIFICATION Spec
CONSTANTS
  Apps = {a1}
  Procs = {p1, p2}
  Releases = {r1, r2}
  Ops <- NoRemove
  Modes <- OnlyBlueGreen
  NoStack = NoStack
  NoRelease = NoRelease
  Absent = Absent
  Stopped = Stopped
  MaxStacks = 3
  MaxCommands = 4
  MaxCrashes = 0
PROPERTIES
  RollbackTakesPreceding
CHECK_DEADLOCK FALSE
