\* Every call settles: one restart, start or signal against another, two hooks.
SPECIFICATION FairSpec
CONSTANTS
  Callers = {c1, c2}
  MaxHooks = 2
CHECK_DEADLOCK FALSE
PROPERTY
  CallsSettle
