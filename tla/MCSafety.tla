------------------------------- MODULE MCSafety -------------------------------
(***************************************************************************)
(* The components around the kernel, and the plugin manager under two      *)
(* overlapping callers, checked together for their safety.  They share no  *)
(* state: a behaviour belongs to one of them, the part, and the variables  *)
(* of the others keep their initial values.                                *)
(***************************************************************************)
EXTENDS PluginManager, Components

CONSTANTS Parts, Middlewares, Prios, Execs, MaxNext, MaxAttempts, Threshold,
          Probes, MaxLayers, MaxExecs, CacheKeys, MaxEntries, Readers, MaxSets,
          Callers, PoolMax, Warmup, MaxMade, PoolSize, PoolTasks, MaxWorkers,
          QTasks, Priorities, TaskLimit, TaskConc, Arrivals, MaxRequests, MaxNow,
          MiddlewareKinds, MaxChain, Borrowers, Objects, IdleMax, IdleInit,
          Added, BatchSize, MaxRetries, CacheNames, Sizes, MaxBytes, MaxItems,
          MaxUses, Versions, Fields, MaxRules, HTargets, MaxChains, MaxCount,
          Senders, BufferSize, MaxMessages, StreamReconnects, MaxTimers,
          MaxPings, StreamIds, MaxHandlers, UcpSockets, UcpReconnects,
          UcpRequests, Ids, Services, CacheFor, MaxTick, CsItems, CsBatch,
          CsRetries, CsMessages, StreamEvents, EventsMax, HandlerBuffer,
          HandlerLimit, Subscribers, MaxJoins, MaxStarts, LogEntries, LogBatch,
          LogRetries, FileEntries, FileWrites, FileMax, FileKept, ChainKinds,
          MaxLinks, ChainRetries, UcpProtocols, UcpEnabled, UcpHandlers,
          MaxServers, MaxClients, GrpcCallers, MaxIntervals, JsonCallers,
          JsonValues, JsonCacheMax, JsonTimers, CompressFrom, OptObjects,
          OptKeys, OptSize, OptMemory, OptPooled, OptDrift, Peers, Rooms,
          MaxSessionJoins, MaxRefusals, RouteKinds, MaxRoute, BatchKeys,
          BatchFull, MaxBatched, Latencies, MaxRecorded, MaxCollected, Retention,
          LabelMax, MaxUpdates, MaxSelections

VARIABLES part, chain, rec, ca, gp, wp, tq, rl, rq, op, ub, sc, vt, hk, sh, bi,
          sv, ut, sd, cs, es, lo, lf, mp, um, gc, rt, js, cz, po, pl, ss, mr, mb,
          pm, mc, se

MM == INSTANCE MiddlewareManager
ER == INSTANCE ErrorRecovery
CA == INSTANCE HttpCache
GC == INSTANCE GrpcConnections
WP == INSTANCE WorkerPool
TQ == INSTANCE TaskQueue
RQ == INSTANCE HttpServer
OP == INSTANCE ObjectPools
UB == INSTANCE BatchProcessor
UM == INSTANCE UdefMessages
HK == INSTANCE HealthChecker
SH == INSTANCE GrpcHandlers
GS == INSTANCE GrpcStreams
UC == INSTANCE UcpCore
SD == INSTANCE ServiceDiscovery
LO == INSTANCE LogOutputs
RO == INSTANCE Router WITH Patterns <- {<<"A">>, <<":">>, <<"*", ":">>},
        Paths <- {<<>>, <<"a">>, <<"A">>, <<"ab">>, <<"ab", "a">>, <<"a", "a">>,
                  <<"a", "A">>, <<"A", "a", "a">>},
        BasePaths <- {<<>>, <<"a">>}, RouteMax <- 1, UseMax <- 2
JS == INSTANCE JsonSerializer
SE == INSTANCE WebSocketSession WITH MaxJoins <- MaxSessionJoins
MO == INSTANCE Monitoring WITH MonitorKeys <- <<"k1", "k2">>, Buckets <- <<1, 2>>,
         Protocols <- <<"http", "grpc">>,
         Pairs <- {<<"a", <<"v">>>>, <<"b", <<"w">>>>, <<"b", <<"v">>>>,
                   <<"a", <<"v", ",", "b", "=", "w">>>>}

ASSUME SuiteAssumption ==
  /\ AQ!QConcAssumption /\ PA!PConcAssumption /\ LRU!LRUAssumption /\ BA!BatchesAssumption
  /\ BA!BatchLimitAssumption /\ ER!RecoveryAssumption /\ HB!HttpRetryAssumption
  /\ HC!HttpAttemptsAssumption /\ CA!MaxEntriesAssumption /\ WC!WsAssumption
  /\ WP!WorkerPoolAssumption /\ TQ!TaskQueueAssumption /\ RO!RateLimiterAssumption
  /\ RQ!HttpServerAssumption /\ OP!ObjectPoolAssumption /\ UB!BatchProcessorAssumption
  /\ OP!SerializationCacheAssumption /\ UM!VersionAssumption /\ HK!HealthAssumption
  /\ SH!StreamAssumption /\ SH!BidiAssumption /\ UC!UcpTransportAssumption
  /\ SD!DiscoveryAssumption /\ GS!ClientStreamAssumption /\ GS!EventStreamAssumption
  /\ LO!LogOutputAssumption /\ LO!LogFileAssumption /\ UM!MessageChainAssumption
  /\ UC!UcpManagerAssumption /\ RO!RouterAssumption
  /\ JS!JsonSerializerAssumption /\ JS!CompressionAssumption /\ JS!OptimizerAssumption
  /\ SE!SessionAssumption /\ SE!RouteAssumption /\ SE!BatchFullAssumption
  /\ MO!MonitorAssumption /\ MO!CollectorAssumption /\ MO!SelectorAssumption
  /\ WM!ConnectionsAssumption

all == <<part, vars, bus, chain, aq, pa, bp, bat, lru, rec, hb, hc, ca, ws, wsm, gp,
         wp, tq, rl, rq, op, ub, sc, vt, hk, sh, bi, sv, ut, sd,
         cs, es, lo, lf, mp, um, gc, rt, js, cz, po, pl, ss, mr, mb, pm, mc, se>>

\* Initial states of a part that does not run are not told apart.
InitAll ==
  /\ part \in Parts
  /\ Init /\ EB!Init /\ MM!Init /\ AQ!Init /\ PA!Init /\ BA!BatcherInit /\ LRU!Init
  /\ HB!Init /\ HC!Init /\ WC!Init /\ WM!Init /\ GC!PoolInit
  /\ BA!AllInit /\ (part # "batchProcess" => bp.conc = 1)
  /\ ER!Init /\ (part # "recovery" => rec.layers = [k \in 1..MaxLayers |-> "retry"])
  /\ CA!Init /\ (part # "httpCache" => ~ca.redis)
  /\ WP!Init /\ TQ!Init /\ RQ!Init /\ OP!PoolInit /\ UB!Init /\ HK!Init /\ SD!Init
  /\ SH!HandlerInit /\ SH!BidiInit /\ GS!ServerInit /\ GS!ClientInit /\ GS!EventInit
  /\ LO!BatchedInit /\ LO!FileInit /\ UM!VersionInit
  /\ UC!TransportInit /\ UC!ManagerInit /\ GC!ClientInit
  /\ RO!RateInit /\ (part # "rateLimit" => ~rl.skips)
  /\ OP!CacheInit /\ (part # "serialized" => sc.algorithm = "lru")
  /\ UM!ChainInit /\ (part # "messages" => mp.chain = <<"around">> /\ ~mp.skipOnError)
  /\ RO!Init /\ (part # "router" => rt.caseSensitive /\ rt.prefix.parent = <<>>)
  /\ JS!JsonInit /\ (part # "json" => ~js.keyed)
  /\ JS!CompressionInit /\ (part # "compression" => ~cz.adaptive /\ cz.size = 1)
  /\ JS!OptimizerInit
  /\ SE!SessionInit /\ (part # "session" => ~ss.wired)
  /\ SE!RouteInit
  /\ part # "messageRoute" => mr.chain = <<>> /\ mr.message = "known" /\ mr.handler = "fails"
  /\ SE!BatcherSessionInit
  /\ MO!MonitorInit /\ MO!CollectorInit
  /\ MO!SelectorInit /\ (part # "selector" => se.strategy = "round_robin")

\* A step of one part leaves the variables of the others alone; most parts are in groups.
Serving == {"middleware", "recovery", "httpCache", "rateLimit", "httpServer",
            "router", "session", "messageRoute", "messageBatches", "monitor",
            "collector", "selector"}
Remote == {"grpcPool", "health", "stream", "bidi", "streamServer", "clientStream",
           "eventStream", "grpcClient", "ucp", "discovery", "ucpManager"}
Handling == {"workers", "tasks", "objects", "udefBatches", "serialized", "versions",
             "messages", "json", "compression", "optimizer", "optimizerPool",
             "logOutput", "logFile"}

Only(p) ==
  /\ part = p /\ UNCHANGED part
  /\ p # "plugins" => UNCHANGED vars
  /\ p # "events" => UNCHANGED bus
  /\ p # "queue" => UNCHANGED aq
  /\ p # "promiseAll" => UNCHANGED pa
  /\ p # "batchProcess" => UNCHANGED bp
  /\ p # "batcher" => UNCHANGED bat
  /\ p # "lru" => UNCHANGED lru
  /\ p # "retryHandler" => UNCHANGED hb
  /\ p # "httpClient" => UNCHANGED hc
  /\ p # "webSocket" => UNCHANGED ws
  /\ p # "connections" => UNCHANGED wsm
  /\ IF p \notin Serving
     THEN UNCHANGED <<chain, rec, ca, rl, rq, rt, ss, mr, mb, pm, mc, se>>
     ELSE /\ p # "middleware" => UNCHANGED chain
          /\ p # "recovery" => UNCHANGED rec
          /\ p # "httpCache" => UNCHANGED ca
          /\ p # "rateLimit" => UNCHANGED rl
          /\ p # "httpServer" => UNCHANGED rq
          /\ p # "router" => UNCHANGED rt
          /\ p # "session" => UNCHANGED ss
          /\ p # "messageRoute" => UNCHANGED mr
          /\ p # "messageBatches" => UNCHANGED mb
          /\ p # "monitor" => UNCHANGED pm
          /\ p # "collector" => UNCHANGED mc
          /\ p # "selector" => UNCHANGED se
  /\ IF p \notin Remote
     THEN UNCHANGED <<gp, hk, sh, bi, sv, cs, es, gc, ut, sd, um>>
     ELSE /\ p # "grpcPool" => UNCHANGED gp
          /\ p # "health" => UNCHANGED hk
          /\ p # "stream" => UNCHANGED sh
          /\ p # "bidi" => UNCHANGED bi
          /\ p # "streamServer" => UNCHANGED sv
          /\ p # "clientStream" => UNCHANGED cs
          /\ p # "eventStream" => UNCHANGED es
          /\ p # "grpcClient" => UNCHANGED gc
          /\ p # "ucp" => UNCHANGED ut
          /\ p # "discovery" => UNCHANGED sd
          /\ p # "ucpManager" => UNCHANGED um
  /\ IF p \notin Handling
     THEN UNCHANGED <<wp, tq, op, ub, sc, vt, mp, js, cz, po, pl, lo, lf>>
     ELSE /\ p # "workers" => UNCHANGED wp
          /\ p # "tasks" => UNCHANGED tq
          /\ p # "objects" => UNCHANGED op
          /\ p # "udefBatches" => UNCHANGED ub
          /\ p # "serialized" => UNCHANGED sc
          /\ p # "versions" => UNCHANGED vt
          /\ p # "messages" => UNCHANGED mp
          /\ p # "json" => UNCHANGED js
          /\ p # "compression" => UNCHANGED cz
          /\ p # "optimizer" => UNCHANGED po
          /\ p # "optimizerPool" => UNCHANGED pl
          /\ p # "logOutput" => UNCHANGED lo
          /\ p # "logFile" => UNCHANGED lf

NextOfAny ==
  \/ Only("plugins") /\ Next
  \/ Only("events") /\ EB!Next
  \/ Only("middleware") /\ MM!Next
  \/ Only("queue") /\ AQ!Next
  \/ Only("promiseAll") /\ PA!Next
  \/ Only("batchProcess") /\ BA!AllNext
  \/ Only("batcher") /\ BA!BatcherNext
  \/ Only("lru") /\ LRU!Next
  \/ Only("recovery") /\ ER!Next
  \/ Only("retryHandler") /\ HB!Next
  \/ Only("httpClient") /\ HC!Next
  \/ Only("httpCache") /\ CA!Next
  \/ Only("webSocket") /\ WC!Next
  \/ Only("connections") /\ WM!Next
  \/ Only("grpcPool") /\ GC!PoolNext
  \/ Only("workers") /\ WP!Next
  \/ Only("tasks") /\ TQ!Next
  \/ Only("rateLimit") /\ RO!RateNext
  \/ Only("httpServer") /\ RQ!Next
  \/ Only("objects") /\ OP!PoolNext
  \/ Only("udefBatches") /\ UB!Next
  \/ Only("serialized") /\ OP!CacheNext
  \/ Only("versions") /\ UM!VersionNext
  \/ Only("health") /\ HK!Next
  \/ Only("stream") /\ SH!HandlerNext
  \/ Only("bidi") /\ SH!BidiNext
  \/ Only("streamServer") /\ GS!ServerNext
  \/ Only("ucp") /\ UC!TransportNext
  \/ Only("discovery") /\ SD!Next
  \/ Only("clientStream") /\ GS!ClientNext
  \/ Only("eventStream") /\ GS!EventNext
  \/ Only("logOutput") /\ LO!BatchedNext
  \/ Only("logFile") /\ LO!FileNext
  \/ Only("messages") /\ UM!ChainNext
  \/ Only("ucpManager") /\ UC!ManagerNext
  \/ Only("grpcClient") /\ GC!ClientNext
  \/ Only("router") /\ RO!Next
  \/ Only("json") /\ JS!JsonNext
  \/ Only("compression") /\ JS!CompressionNext
  \/ Only("optimizer") /\ JS!OptCacheNext
  \/ Only("optimizerPool") /\ JS!OptPoolNext
  \/ Only("session") /\ SE!SessionNext
  \/ Only("messageRoute") /\ SE!RouteNext
  \/ Only("messageBatches") /\ SE!BatcherSessionNext
  \/ Only("monitor") /\ MO!MonitorNext
  \/ Only("collector") /\ MO!CollectorNext
  \/ Only("selector") /\ MO!SelectorNext

\* The state without the variables of the parts that do not run, which keep the
\* one value that InitAll gives them: a VIEW that tells apart all that differs.
Running ==
  <<part,
    CASE part = "session" -> ss [] part = "plugins" -> vars
      [] part = "ucp" -> ut [] part = "webSocket" -> ws
      [] part = "connections" -> wsm [] part = "health" -> hk
      [] part = "middleware" -> chain [] part = "httpClient" -> hc
      [] part = "eventStream" -> es [] part = "versions" -> vt
      [] part = "httpServer" -> rq [] part = "monitor" -> pm
      [] part = "events" -> bus [] part = "queue" -> aq
      [] part = "promiseAll" -> pa [] part = "batchProcess" -> bp
      [] part = "batcher" -> bat [] part = "lru" -> lru
      [] part = "recovery" -> rec [] part = "retryHandler" -> hb
      [] part = "httpCache" -> ca [] part = "grpcPool" -> gp
      [] part = "workers" -> wp [] part = "tasks" -> tq
      [] part = "rateLimit" -> rl [] part = "objects" -> op
      [] part = "udefBatches" -> ub [] part = "serialized" -> sc
      [] part = "stream" -> sh [] part = "bidi" -> bi
      [] part = "streamServer" -> sv [] part = "discovery" -> sd
      [] part = "clientStream" -> cs [] part = "logOutput" -> lo
      [] part = "logFile" -> lf [] part = "messages" -> mp
      [] part = "ucpManager" -> um [] part = "grpcClient" -> gc
      [] part = "router" -> rt [] part = "json" -> js
      [] part = "compression" -> cz [] part = "optimizer" -> po
      [] part = "optimizerPool" -> pl [] part = "messageRoute" -> mr
      [] part = "messageBatches" -> mb [] part = "collector" -> mc
      [] part = "selector" -> se>>

SpecOfAll == InitAll /\ [][NextOfAny]_all

-----------------------------------------------------------------------------
(* The components' properties, under names of this module.                 *)

\* Every component keeps its types and counters within their bounds.
TypesOK ==
  /\ part = "events" => EB!TypeOK
  /\ part = "middleware" => MM!TypeOK
  /\ part = "queue" => AQ!TypeOK
  /\ part = "promiseAll" => PA!TypeOK
  /\ part = "batchProcess" => BA!AllTypeOK
  /\ part = "batcher" => BA!BatcherTypeOK
  /\ part = "lru" => LRU!TypeOK
  /\ part = "recovery" => ER!TypeOK
  /\ part = "retryHandler" => HB!TypeOK
  /\ part = "httpClient" => HC!TypeOK
  /\ part = "httpCache" => CA!TypeOK
  /\ part = "webSocket" => WC!TypeOK
  /\ part = "connections" => WM!TypeOK
  /\ part = "grpcPool" => GC!PoolTypeOK
  /\ part = "workers" => WP!TypeOK
  /\ part = "tasks" => TQ!TypeOK
  /\ part = "rateLimit" => RO!RateTypeOK
  /\ part = "udefBatches" => UB!TypeOK
  /\ part = "serialized" => OP!TypeOK
  /\ part = "health" => HK!TypeOK
  /\ part = "bidi" => SH!BidiTypeOK
  /\ part = "ucp" => UC!TransportTypeOK

\* EventBus: emissions reach every listener that was there and stayed, and
\* once-listeners are called once.
EmissionsHold == EB!EmissionReachesAll /\ EB!OnceIsOnce

\* MiddlewareManager: executions are ordered by priority and complete.
ChainHolds == part = "middleware" => MM!ByPriority /\ MM!CompleteChain

\* AsyncQueue leaves no slot unused while a job waits and starts jobs in their
\* order; promiseAll() keeps its limit and loses no task, as far as tasks settle
\* in their order.
ConcurrencyHolds ==
  /\ part = "queue" => AQ!WorkConserving /\ AQ!StartedInOrder
  /\ part = "promiseAll" => PA!LimitInOrder /\ PA!CompleteInOrder /\ PA!LastAreAwaited

\* batchProcess(): no permit is lost, and the caller is told the truth.  Batcher:
\* items are neither lost nor doubled, those that wait without a timer were missed
\* by a flush(), and promises are honest.
BatchesHold ==
  /\ part = "batchProcess" => BA!PermitsBalance /\ BA!TruthfulOutcome
  /\ part = "batcher" => BA!NothingLost /\ BA!StrandedOnlyIfMissed /\ BA!HonestPromises

\* LRUCache keeps its size and evicts what was not used for the longest time;
\* memoizeAsync() makes one call at a time for a key.
LruHolds ==
  /\ [](part = "lru" => LRU!WithinSize /\ LRU!SingleFlight)
  /\ [][part = "lru" => LRU!EvictsOldest]_lru

\* Recovery strategies and decorators in any order around one another: bounded
\* attempts, fallbacks that answer, a breaker that limits, one report for each
\* instance.
RecoveryHolds ==
  /\ part = "recovery" => /\ ER!AttemptsBounded /\ ER!FallbackAnswers
                          /\ ER!BreakerLimitsAttempts /\ ER!ReportedPerInstance

\* RetryHandler's breaker: it is open only with the failures and the volume for
\* it, and opens again when its probe fails.
RetryBreakerHolds ==
  /\ [](part = "retryHandler" => HB!OpenIsEarned)
  /\ HB!FailedProbeReopens

\* HttpClient: complete interceptor chains, a cache of answered requests that
\* serves nothing expired.
HttpClientHolds ==
  /\ [](part = "httpClient" => HC!CachedWasAnswered)
  /\ [][part = "httpClient" => HC!CompleteInterception /\ HC!NeverServesExpired]_hc

\* HTTP around the routes.  CacheManager: its size, and the entry set last.  Rate
\* limit: exact counts within a window.  Server: every request has its one answer
\* and its route once, and headers that come too late are compression()'s.
HttpServingHolds ==
  /\ part = "httpCache" => CA!EntriesBounded /\ CA!LastSetStands
  /\ part = "rateLimit" => RO!CountIsExact /\ RO!WindowHolds
  /\ part = "httpServer" => RQ!AnsweredOrMute /\ RQ!RoutedOnce /\ RQ!LateIsExplained
  /\ part = "router" => /\ RO!MountedBelow /\ RO!ChildGuards
                        /\ RO!StopIsFinal /\ RO!ParametersInPlace

\* WebSocketClient: one connection, never stuck, messages in their order.
WebSocketHolds ==
  part = "webSocket" => WC!OneConnection /\ WC!NeverStuck /\ WC!QueueKeepsOrder

\* ConnectionManager: limits and indexes are exact, and an open connection is one
\* of the manager's.  Sessions: strangers are timed, and leaving is told.  Message
\* router: a stop stops, runs are counted.  Batcher: no message is forgotten.
ConnectionsHold ==
  /\ part = "connections" => WM!LimitsHold /\ WM!UserIndexExact /\ WM!OpenIsManaged
  /\ part = "session" => /\ SE!StrangersAreTimed
                         /\ SE!ProvenAreUntimed
                         /\ SE!LeavesAreTold
  /\ part = "messageRoute" => SE!StopsHold /\ SE!RunsAreCounted
  /\ part = "messageBatches" => SE!WaitingIsTimed /\ SE!MessagesAreAccounted

\* GRPCConnectionPool: exclusive connections, their limit, none lost.
GrpcPoolHolds ==
  part = "grpcPool" => /\ GC!Exclusive /\ GC!LimitAlone
                       /\ GC!NoneLeaks /\ GC!AvailableIsKnown

\* AsyncSerializer's workers and its queue: a worker is idle only if it was
\* replaced, answers go to their own task, slots are used, and the most urgent
\* task is taken first.  Log outputs: an entry is stored, on its way, or explained;
\* it is stored twice only by a retry; files rotate without a leak and within their
\* number.
WorkHolds ==
  /\ [](part = "workers" => WP!IdleOnlyIfReplaced /\ WP!OwnUnlessCrowded)
  /\ [](part = "tasks" => TQ!SlotsAreUsed /\ TQ!UrgentFirst)
  /\ [](part = "logOutput" => /\ LO!EntryIsAccounted /\ LO!ResolvedIsStored
                             /\ LO!StoredTwiceOnlyIfRetried /\ LO!LittleIsStranded)
  /\ [](part = "logFile" => /\ LO!StoredOrAged /\ LO!FailsByRotation
                           /\ LO!NoHandleLeaks /\ LO!FilesAreBounded)
  /\ TQ!TakesTheMostUrgent


\* gRPC.  HealthChecker: one chain of checks, and statuses and counts of its
\* targets only.  Streams: bounds, each message once, heartbeats of live
\* connections, a server that knows its streams.  Client stream: items are sent,
\* buffered or accounted for.  Event stream: what was published live reaches the
\* subscriber in its order.  Client: connected with its pool up, no timer lost.
StreamsHold ==
  /\ part = "health" => HK!OneChain /\ HK!StatusOfTargets /\ HK!CountsAgree
  /\ part = "stream" => SH!BoundsStretch /\ SH!EachMessageOnce /\ SH!EmptyWhenStopped
  /\ part = "bidi" => SH!ComesBack /\ SH!OneHeartbeat /\ SH!PongOnlyIfActive
  /\ part = "streamServer" => GS!ServerKnowsStreams
  /\ part = "clientStream" => /\ GS!NothingVanishes /\ GS!TwiceOnlyIfPutBack
                              /\ GS!EndedIsSent
  /\ part = "eventStream" => /\ GS!LiveIsAccounted /\ GS!OneHangsPerEnd
                             /\ GS!FreshInOrder /\ GS!LimitUnlessPolled
                             /\ GS!NewestAreKept
  /\ part = "grpcClient" => GC!ConnectedIsUp /\ GC!HandlesAreHeld

\* UCP transport: a connected one can send, its heartbeats and handlers are exact,
\* and it stays disconnected.  Discovery: health of the services only, fresh
\* answers, crashes that are explained.  Manager: servers know the handlers, and a
\* stopped manager has closed what it created.  Monitoring: every request counted
\* once, series that stay apart.  Selector: fair turns, registered protocols.
UcpHolds ==
  /\ part = "ucp" => /\ UC!ConnectedCanSend /\ UC!HeartbeatsHeld
                     /\ UC!StaysDisconnected /\ UC!HandlersExact
  /\ part = "discovery" => SD!HealthFollowsServices /\ SD!CrashIsExplained /\ SD!FreshEnough
  /\ part = "ucpManager" => /\ UC!ServersHaveHandlers /\ UC!StoppedIsClosed
                            /\ UC!OnlyErrorStrandsServers
  /\ part = "monitor" => MO!CountedOnce /\ MO!MetricsAreSane /\ MO!AlertsFollowMetrics
  /\ part = "collector" => MO!SeriesAreExact /\ MO!BucketsCumulate /\ MO!ListedOnce
  /\ part = "selector" => MO!TurnsAreFair /\ MO!SelectedIsRegistered
=============================================================================
