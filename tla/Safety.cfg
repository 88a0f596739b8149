\* The components around the kernel, each on an instance of its own.
SPECIFICATION SpecOfAll
VIEW Running
CONSTANTS
  Parts = {"plugins", "events", "middleware", "queue", "promiseAll", "batchProcess",
           "batcher", "lru", "recovery", "retryHandler", "httpClient", "httpCache",
           "webSocket", "connections", "grpcPool", "workers", "tasks", "rateLimit",
           "httpServer", "objects", "udefBatches", "serialized", "versions", "health",
           "stream", "bidi", "streamServer", "ucp", "discovery",
           "clientStream", "eventStream", "logOutput", "logFile", "messages", "ucpManager", "grpcClient", "router", "json", "compression", "optimizer", "optimizerPool", "session", "messageRoute", "messageBatches", "monitor", "collector", "selector"}
  Names = {p, q}
  Tasks = {t1, t2}
  Ops = {"register", "initialize", "destroy", "initializeAll", "destroyAll", "enable", "disable"}
  MaxInst = 2
  MaxOrder = 2
  Handlers = {a, b}
  MaxReg = 2
  MaxDepth = 2
  Middlewares = {m1, m2}
  Prios = {0, 1}
  Execs = {e1}
  MaxNext = 2
  Jobs = 6
  QConc = 2
  TaskCount = 5
  PConc = 2
  Batches = 4
  MaxPermits = 3
  Items = 4
  BatchLimit = 2
  Keys = {k1, k2, k3}
  MaxSize = 2
  MaxCounter = 5
  MaxFlights = 3
  MaxAttempts = 2
  Threshold = 2
  Probes = 2
  MaxLayers = 3
  MaxExecs = 4
  HCallers = {h1, h2, h3}
  FailureThreshold = 2
  VolumeThreshold = 3
  RetryAttempts = 2
  Requests = {r1, r2}
  MaxHooks = 2
  HttpAttempts = 2
  MaxVersion = 2
  CacheKeys = {d1, d2}
  MaxEntries = 1
  Readers = {g1, g2}
  MaxSets = 2
  MaxSockets = 3
  MaxReconnect = 1
  WsMessages = 3
  QueueMax = 2
  Conns = {n1, n2, n3}
  Addresses = {a1, a2}
  Users = {u1}
  MaxConns = 2
  MaxPerIP = 1
  MaxPerUser = 1
  Callers = {c1, c2}
  PoolMax = 1
  Warmup = 1
  MaxMade = 2
  PoolSize = 1
  PoolTasks = {j1, j2, j3}
  MaxWorkers = 2
  QTasks = 5
  Priorities = {0, 1}
  TaskLimit = 3
  TaskConc = 2
  Arrivals = {q1, q2, q3}
  MaxRequests = 1
  MaxNow = 2
  MiddlewareKinds = {"cors", "compression", "rateLimit", "logging", "errorHandler",
                     "plain", "twice", "silent", "throws"}
  MaxChain = 3
  Borrowers = {o1, o2}
  Objects = 3
  IdleMax = 2
  IdleInit = 1
  Added = 6
  BatchSize = 3
  MaxRetries = 2
  CacheNames = {z1, z2, z3}
  Sizes = {1, 2, 4}
  MaxBytes = 3
  MaxItems = 2
  MaxUses = 2
  Versions = 3
  Fields = {"f", "g"}
  MaxRules = 2
  HTargets = {x1, x2}
  MaxChains = 2
  MaxCount = 1
  Senders = {s1, s2}
  BufferSize = 2
  MaxMessages = 4
  StreamReconnects = 2
  MaxTimers = 4
  MaxPings = 2
  StreamIds = {i1, i2}
  MaxHandlers = 3
  UcpSockets = 3
  UcpReconnects = 2
  UcpRequests = 1
  Ids = {1}
  Services = {v1}
  CacheFor = 1
  MaxTick = 3
  CsItems = 3
  CsBatch = 2
  CsRetries = 1
  CsMessages = 3
  StreamEvents = 3
  EventsMax = 2
  HandlerBuffer = 1
  HandlerLimit = 2
  Subscribers = {y1}
  MaxJoins = 2
  MaxStarts = 1
  LogEntries = 3
  LogBatch = 2
  LogRetries = 2
  FileEntries = 3
  FileWrites = 2
  FileMax = 1
  FileKept = 1
  ChainKinds = {"around", "silent", "throws", "validation", "retry", "cache", "errorHandler"}
  MaxLinks = 3
  ChainRetries = 1
  UcpProtocols = {p1, p2}
  UcpEnabled = {p1, p2}
  UcpHandlers = {w1}
  MaxServers = 2
  MaxClients = 2
  GrpcCallers = {u1, u2, u3}
  MaxIntervals = 3
  JsonCallers = {j1, j2}
  JsonValues = {"date", "dateText", "null", "bigint"}
  JsonCacheMax = 1
  JsonTimers = 2
  CompressFrom = 2
  OptObjects = {oo1, oo2}
  OptKeys = {ok1, ok2, ok3}
  OptSize = 2
  OptMemory = 3
  OptPooled = 2
  OptDrift = 1
  Peers = {pe1, pe2}
  Rooms = {ro1}
  MaxSessionJoins = 1
  MaxRefusals = 1
  RouteKinds = {"next", "twice", "silent", "throws"}
  MaxRoute = 3
  BatchKeys = {bk1, bk2}
  BatchFull = 2
  MaxBatched = 5
  Latencies = {1, 3}
  MaxRecorded = 2
  MaxCollected = 2
  Retention = 1
  LabelMax = 2
  MaxUpdates = 3
  MaxSelections = 4
INVARIANTS
  InitializedIsOrdered
  TypesOK
  ChainHolds
  ConcurrencyHolds
  BatchesHold
  RecoveryHolds
  HttpServingHolds
  
  StreamsHold
  UcpHolds
  WebSocketHolds
  ConnectionsHold
  GrpcPoolHolds
PROPERTIES
  EmissionsHold
  LruHolds
  RetryBreakerHolds
  HttpClientHolds
  WorkHolds
CHECK_DEADLOCK FALSE
