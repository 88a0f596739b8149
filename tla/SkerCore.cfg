\* Two callers, two plugins that load at any time and may fail or hang.
SPECIFICATION Spec
CONSTANTS
  Callers = {c1, c2}
  Configured = {p, q}
  Packaged = {p, q}
SYMMETRY Symmetry
CHECK_DEADLOCK FALSE
INVARIANTS
  StartedMeansReady
  OrderlyTeardown
PROPERTY
  ImplementsManagedService
