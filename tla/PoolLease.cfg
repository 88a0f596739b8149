\* Three requests against a limit of two, with every sweep and shutdown at work.
SPECIFICATION Spec
CONSTANTS
  Reqs = {r1, r2, r3}
  MaxConnections = 2
  MinConnections = 0
  Ops = {"cleanup", "validate", "drain", "clear"}
  MaxConn = 2
  None = None
SYMMETRY Symmetry
INVARIANTS
  PendingIsQueued
PROPERTIES
  ImplementsLease
CHECK_DEADLOCK FALSE
