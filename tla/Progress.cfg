\* The components that must make progress, each on a small instance.
SPECIFICATION SpecOfAll
CONSTANTS
  Parts = {"breaker", "queue", "batchProcess", "batcher", "recovery", "retryHandler",
           "httpClient", "connections", "tasks", "udefBatches", "httpServer", "health",
           "stream", "bidi"}
  Callers = {c1, c2, c3}
  FailureThreshold = 2
  HalfOpenMaxCalls = 2
  ResetTimeout = 2
  CountCap = 3
  Jobs = 4
  QConc = 2
  Batches = 3
  MaxPermits = 2
  Items = 3
  BatchLimit = 2
  MaxAttempts = 2
  Threshold = 2
  Probes = 2
  MaxLayers = 2
  MaxExecs = 2
  HCallers = {h1, h2}
  BreakerFailures = 2
  VolumeThreshold = 3
  RetryAttempts = 2
  Requests = {r1}
  MaxHooks = 1
  HttpAttempts = 2
  MaxVersion = 2
  Conns = {n1, n2}
  Addresses = {a1}
  Users = {u1}
  MaxConns = 1
  MaxPerIP = 1
  MaxPerUser = 1
  QTasks = 4
  Priorities = {0, 1}
  TaskLimit = 3
  TaskConc = 1
  Added = 4
  BatchSize = 2
  MaxRetries = 1
  MiddlewareKinds = {"compression", "errorHandler", "twice", "throws"}
  MaxChain = 2
  HTargets = {x1}
  MaxChains = 2
  MaxCount = 1
  Senders = {s1}
  BufferSize = 1
  MaxMessages = 3
  StreamReconnects = 2
  MaxTimers = 4
  MaxPings = 2
INVARIANTS
  TypeOK
  ClosedBelowThreshold
  OpenHasDeadline
PROPERTIES
  ClosesOnlyProven
  Recovers
  QueuesProgress
  CallsProgress
CHECK_DEADLOCK FALSE
