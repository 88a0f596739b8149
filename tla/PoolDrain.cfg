\* Two connections in use when drain() gives up waiting.
SPECIFICATION Spec
CONSTANTS
  Reqs = {r1, r2}
  MaxConnections = 2
  MinConnections = 0
  Ops = {"drain"}
  MaxConn = 2
  None = None
SYMMETRY Symmetry
PROPERTIES
  DrainClosesAll
CHECK_DEADLOCK FALSE
