\* A restart against a signal: the exit with code 0 is not in STOPPED.
SPECIFICATION FairSpec
CONSTANTS
  Callers = {c1, c2}
  MaxHooks = 2
CHECK_DEADLOCK FALSE
INVARIANT
  ShutdownCompleted
