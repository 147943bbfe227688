\* Two apps behind one nginx.conf, commands one after another.
SPECIFICATION Spec
CONSTANTS
  Apps = {a1, a2}
  Procs = {p1}
  Releases = {r1}
  Ops <- AllOps
  Modes <- AllModes
  NoStack = NoStack
  NoRelease = NoRelease
  Absent = Absent
  Stopped = Stopped
  MaxStacks = 2
  MaxCommands = 3
  MaxCrashes = 1
INVARIANTS
  RoutesLive
PROPERTIES
  OnlyRecoveryDropsTraffic
CHECK_DEADLOCK FALSE
