\* Two concurrent callers, three hooks of either kind, every edit of the lists.
SPECIFICATION Spec
CONSTANTS
  Callers = {c1, c2}
  MaxHooks = 3
SYMMETRY Symmetry
CHECK_DEADLOCK FALSE
INVARIANTS
  TypeOK
  HandlersNeverOverlap
  CompleteRun
  RunOrder
  TruthfulOutcome
