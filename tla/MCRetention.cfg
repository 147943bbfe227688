SPECIFICATION Spec
CONSTANTS
  dev = dev
  prod = prod
  n1 = n1
  n2 = n2
  d1 = d1
  d2 = d2
  p1 = p1
  p2 = p2
  Apps = {dev, prod}
  Wrapped = {prod}
  Numbers = {n1, n2}
  Digests = {d1, d2}
  None = None
  Procs = {p1, p2}
  Keep = 1
  MaxCommands = 5
  MaxFaults = 1
SYMMETRY Symmetry
INVARIANTS TypeOK LivePullable RecordsResolve RegistryReturns
PROPERTIES ScopedSparesOthers ActiveRecordKept
CHECK_DEADLOCK FALSE
