\* A cancelled in-place deploy that never reached Docker.
SPECIFICATION Spec
CONSTANTS
  Apps = {a1}
  Procs = {p1}
  Releases = {r1, r2}
  Ops <- NoRemove
  Modes <- OnlyInPlace
  NoStack = NoStack
  NoRelease = NoRelease
  Absent = Absent
  Stopped = Stopped
  MaxStacks = 2
  MaxCommands = 3
  MaxCrashes = 0
PROPERTIES
  CancelRestores
CHECK_DEADLOCK FALSE
