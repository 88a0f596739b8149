\* An idle connection, its cleanup, and a second request.
SPECIFICATION Spec
CONSTANTS
  Reqs = {r1, r2}
  MaxConnections = 2
  MinConnections = 0
  Ops = {"cleanup"}
  MaxConn = 2
  None = None
SYMMETRY Symmetry
INVARIANTS
  HeldIsOpen
CHECK_DEADLOCK FALSE
