\* Two acquisitions against a limit of one.
SPECIFICATION Spec
CONSTANTS
  Reqs = {r1, r2}
  MaxConnections = 1
  MinConnections = 0
  Ops = {}
  MaxConn = 2
  None = None
SYMMETRY Symmetry
INVARIANTS
  PoolWithinLimit
CHECK_DEADLOCK FALSE
