\* One caller at a time, three plugins, every operation: names are used again.
SPECIFICATION Spec
CONSTANTS
  Names = {p, q, r}
  Tasks = {t1}
  Ops = {"register", "unregister", "initialize", "destroy", "initializeAll", "destroyAll", "enable", "disable"}
  MaxInst = 4
  MaxOrder = 4
SYMMETRY Symmetry
INVARIANTS
  OrderIsExact
  NoDoubleInit
  DisabledIsDown
  TeardownReversed
