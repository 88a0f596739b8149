------------------------------ MODULE SuiteProofs ------------------------------
(***************************************************************************)
(* Theorems about the suite of MCSafety: what ComponentProofs shows of a   *)
(* component holds of the part of the suite it is.                         *)
(***************************************************************************)
EXTENDS MCSafety, ComponentProofs

-----------------------------------------------------------------------------
(* The parts of the suite.                                                 *)

\* A step of one part changes the variable of no other.
LEMMA OneMoves ==
  ASSUME NEW p, Only(p)
  PROVE  /\ part = p /\ part' = part
         /\ p # "queue" => UNCHANGED aq
         /\ p # "promiseAll" => UNCHANGED pa
         /\ p # "retryHandler" => UNCHANGED hb
         /\ p # "connections" => UNCHANGED wsm
         /\ p # "events" => UNCHANGED bus
         /\ p # "lru" => UNCHANGED lru
         /\ p # "batchProcess" => UNCHANGED bp
         /\ p # "batcher" => UNCHANGED bat
         /\ p # "webSocket" => UNCHANGED ws
         /\ p # "httpClient" => UNCHANGED hc
BY DEF Only

\* A step while "queue" is the part that runs.
LEMMA QueueTurn ==
  ASSUME NextOfAny, \A p : Only(p) => p = part, part = "queue"
  PROVE  AQ!Next
BY SMTT(100) DEF NextOfAny

\* The part "queue" moves by its own steps only.
LEMMA QueueSteps ==
  ASSUME [NextOfAny]_all
  PROVE  part' = part /\ ((part = "queue" /\ AQ!Next) \/ UNCHANGED aq)
<1>1. CASE UNCHANGED all
  BY <1>1 DEF all
<1>2. CASE NextOfAny
  <2>1. \A p : Only(p) => part' = part /\ p = part /\ (p # "queue" => UNCHANGED aq)
    BY OneMoves
  <2>2. PICK p : Only(p)
    BY <1>2, Zenon DEF NextOfAny
  <2>3. \A q : Only(q) => q = part
    BY OneMoves
  <2>4. part = "queue" => AQ!Next
    BY <1>2, <2>3, QueueTurn
  <2> QED
    BY <2>1, <2>2, <2>4
<1> QED
  BY <1>1, <1>2

\* A step while "promiseAll" is the part that runs.
LEMMA PromiseTurn ==
  ASSUME NextOfAny, \A p : Only(p) => p = part, part = "promiseAll"
  PROVE  PA!Next
BY SMTT(100) DEF NextOfAny

\* The part "promiseAll" moves by its own steps only.
LEMMA PromiseSteps ==
  ASSUME [NextOfAny]_all
  PROVE  part' = part /\ ((part = "promiseAll" /\ PA!Next) \/ UNCHANGED pa)
<1>1. CASE UNCHANGED all
  BY <1>1 DEF all
<1>2. CASE NextOfAny
  <2>1. \A p : Only(p) => part' = part /\ p = part /\ (p # "promiseAll" => UNCHANGED pa)
    BY OneMoves
  <2>2. PICK p : Only(p)
    BY <1>2, Zenon DEF NextOfAny
  <2>3. \A q : Only(q) => q = part
    BY OneMoves
  <2>4. part = "promiseAll" => PA!Next
    BY <1>2, <2>3, PromiseTurn
  <2> QED
    BY <2>1, <2>2, <2>4
<1> QED
  BY <1>1, <1>2

\* A step while "retryHandler" is the part that runs.
LEMMA BreakerTurn ==
  ASSUME NextOfAny, \A p : Only(p) => p = part, part = "retryHandler"
  PROVE  HB!Next
BY SMTT(100) DEF NextOfAny

\* The part "retryHandler" moves by its own steps only.
LEMMA BreakerSteps ==
  ASSUME [NextOfAny]_all
  PROVE  part' = part /\ ((part = "retryHandler" /\ HB!Next) \/ UNCHANGED hb)
<1>1. CASE UNCHANGED all
  BY <1>1 DEF all
<1>2. CASE NextOfAny
  <2>1. \A p : Only(p) => part' = part /\ p = part /\ (p # "retryHandler" => UNCHANGED hb)
    BY OneMoves
  <2>2. PICK p : Only(p)
    BY <1>2, Zenon DEF NextOfAny
  <2>3. \A q : Only(q) => q = part
    BY OneMoves
  <2>4. part = "retryHandler" => HB!Next
    BY <1>2, <2>3, BreakerTurn
  <2> QED
    BY <2>1, <2>2, <2>4
<1> QED
  BY <1>1, <1>2

\* A step while "connections" is the part that runs.
LEMMA ManagerTurn ==
  ASSUME NextOfAny, \A p : Only(p) => p = part, part = "connections"
  PROVE  WM!Next
BY SMTT(100) DEF NextOfAny

\* The part "connections" moves by its own steps only.
LEMMA ManagerSteps ==
  ASSUME [NextOfAny]_all
  PROVE  part' = part /\ ((part = "connections" /\ WM!Next) \/ UNCHANGED wsm)
<1>1. CASE UNCHANGED all
  BY <1>1 DEF all
<1>2. CASE NextOfAny
  <2>1. \A p : Only(p) => part' = part /\ p = part /\ (p # "connections" => UNCHANGED wsm)
    BY OneMoves
  <2>2. PICK p : Only(p)
    BY <1>2, Zenon DEF NextOfAny
  <2>3. \A q : Only(q) => q = part
    BY OneMoves
  <2>4. part = "connections" => WM!Next
    BY <1>2, <2>3, ManagerTurn
  <2> QED
    BY <2>1, <2>2, <2>4
<1> QED
  BY <1>1, <1>2

\* A step while "events" is the part that runs.
LEMMA BusTurn ==
  ASSUME NextOfAny, \A p : Only(p) => p = part, part = "events"
  PROVE  EB!Next
BY SMTT(100) DEF NextOfAny

\* The part "events" moves by its own steps only.
LEMMA BusSteps ==
  ASSUME [NextOfAny]_all
  PROVE  part' = part /\ ((part = "events" /\ EB!Next) \/ UNCHANGED bus)
<1>1. CASE UNCHANGED all
  BY <1>1 DEF all
<1>2. CASE NextOfAny
  <2>1. \A p : Only(p) => part' = part /\ p = part /\ (p # "events" => UNCHANGED bus)
    BY OneMoves
  <2>2. PICK p : Only(p)
    BY <1>2, Zenon DEF NextOfAny
  <2>3. \A q : Only(q) => q = part
    BY OneMoves
  <2>4. part = "events" => EB!Next
    BY <1>2, <2>3, BusTurn
  <2> QED
    BY <2>1, <2>2, <2>4
<1> QED
  BY <1>1, <1>2

\* A step while "lru" is the part that runs.
LEMMA LruTurn ==
  ASSUME NextOfAny, \A p : Only(p) => p = part, part = "lru"
  PROVE  LRU!Next
BY SMTT(100) DEF NextOfAny

\* The part "lru" moves by its own steps only.
LEMMA LruSteps ==
  ASSUME [NextOfAny]_all
  PROVE  part' = part /\ ((part = "lru" /\ LRU!Next) \/ UNCHANGED lru)
<1>1. CASE UNCHANGED all
  BY <1>1 DEF all
<1>2. CASE NextOfAny
  <2>1. \A p : Only(p) => part' = part /\ p = part /\ (p # "lru" => UNCHANGED lru)
    BY OneMoves
  <2>2. PICK p : Only(p)
    BY <1>2, Zenon DEF NextOfAny
  <2>3. \A q : Only(q) => q = part
    BY OneMoves
  <2>4. part = "lru" => LRU!Next
    BY <1>2, <2>3, LruTurn
  <2> QED
    BY <2>1, <2>2, <2>4
<1> QED
  BY <1>1, <1>2

\* A step while "batchProcess" is the part that runs.
LEMMA ProcessTurn ==
  ASSUME NextOfAny, \A p : Only(p) => p = part, part = "batchProcess"
  PROVE  BA!AllNext
BY SMTT(100) DEF NextOfAny

\* The part "batchProcess" moves by its own steps only.
LEMMA ProcessSteps ==
  ASSUME [NextOfAny]_all
  PROVE  part' = part /\ ((part = "batchProcess" /\ BA!AllNext) \/ UNCHANGED bp)
<1>1. CASE UNCHANGED all
  BY <1>1 DEF all
<1>2. CASE NextOfAny
  <2>1. \A p : Only(p) => part' = part /\ p = part /\ (p # "batchProcess" => UNCHANGED bp)
    BY OneMoves
  <2>2. PICK p : Only(p)
    BY <1>2, Zenon DEF NextOfAny
  <2>3. \A q : Only(q) => q = part
    BY OneMoves
  <2>4. part = "batchProcess" => BA!AllNext
    BY <1>2, <2>3, ProcessTurn
  <2> QED
    BY <2>1, <2>2, <2>4
<1> QED
  BY <1>1, <1>2

\* A step while "batcher" is the part that runs.
LEMMA BatcherTurn ==
  ASSUME NextOfAny, \A p : Only(p) => p = part, part = "batcher"
  PROVE  BA!BatcherNext
BY SMTT(100) DEF NextOfAny

\* The part "batcher" moves by its own steps only.
LEMMA BatcherSteps ==
  ASSUME [NextOfAny]_all
  PROVE  part' = part /\ ((part = "batcher" /\ BA!BatcherNext) \/ UNCHANGED bat)
<1>1. CASE UNCHANGED all
  BY <1>1 DEF all
<1>2. CASE NextOfAny
  <2>1. \A p : Only(p) => part' = part /\ p = part /\ (p # "batcher" => UNCHANGED bat)
    BY OneMoves
  <2>2. PICK p : Only(p)
    BY <1>2, Zenon DEF NextOfAny
  <2>3. \A q : Only(q) => q = part
    BY OneMoves
  <2>4. part = "batcher" => BA!BatcherNext
    BY <1>2, <2>3, BatcherTurn
  <2> QED
    BY <2>1, <2>2, <2>4
<1> QED
  BY <1>1, <1>2

\* A step while "webSocket" is the part that runs.
LEMMA ClientTurn ==
  ASSUME NextOfAny, \A p : Only(p) => p = part, part = "webSocket"
  PROVE  WC!Next
BY SMTT(100) DEF NextOfAny

\* The part "webSocket" moves by its own steps only.
LEMMA ClientSteps ==
  ASSUME [NextOfAny]_all
  PROVE  part' = part /\ ((part = "webSocket" /\ WC!Next) \/ UNCHANGED ws)
<1>1. CASE UNCHANGED all
  BY <1>1 DEF all
<1>2. CASE NextOfAny
  <2>1. \A p : Only(p) => part' = part /\ p = part /\ (p # "webSocket" => UNCHANGED ws)
    BY OneMoves
  <2>2. PICK p : Only(p)
    BY <1>2, Zenon DEF NextOfAny
  <2>3. \A q : Only(q) => q = part
    BY OneMoves
  <2>4. part = "webSocket" => WC!Next
    BY <1>2, <2>3, ClientTurn
  <2> QED
    BY <2>1, <2>2, <2>4
<1> QED
  BY <1>1, <1>2

\* A step while "httpClient" is the part that runs.
LEMMA HttpClientTurn ==
  ASSUME NextOfAny, \A p : Only(p) => p = part, part = "httpClient"
  PROVE  HC!Next
BY SMTT(100) DEF NextOfAny

\* The part "httpClient" moves by its own steps only.
LEMMA HttpClientSteps ==
  ASSUME [NextOfAny]_all
  PROVE  part' = part /\ ((part = "httpClient" /\ HC!Next) \/ UNCHANGED hc)
<1>1. CASE UNCHANGED all
  BY <1>1 DEF all
<1>2. CASE NextOfAny
  <2>1. \A p : Only(p) => part' = part /\ p = part /\ (p # "httpClient" => UNCHANGED hc)
    BY OneMoves
  <2>2. PICK p : Only(p)
    BY <1>2, Zenon DEF NextOfAny
  <2>3. \A q : Only(q) => q = part
    BY OneMoves
  <2>4. part = "httpClient" => HC!Next
    BY <1>2, <2>3, HttpClientTurn
  <2> QED
    BY <2>1, <2>2, <2>4
<1> QED
  BY <1>1, <1>2

-----------------------------------------------------------------------------
(* AsyncQueue and promiseAll().                                            *)

\* The sizes of the queue and of the list of tasks are numbers.
LEMMA ConcurrencyConstants ==
  /\ Jobs \in Nat /\ QConc \in Nat \ {0}
  /\ TaskCount \in Nat /\ PConc \in 1..TaskCount - 1
BY SuiteAssumption DEF AQ!QConcAssumption, PA!PConcAssumption

\* The queue's invariant holds in the suite.
LEMMA QueueAlways == SpecOfAll => []QueueInv
<1>1. InitAll => QueueInv
  BY QueueInvariant, ConcurrencyConstants DEF InitAll
<1>2. QueueInv /\ [NextOfAny]_all => QueueInv'
  BY QueueInvariant, ConcurrencyConstants, QueueSteps
<1> QED
  BY <1>1, <1>2, PTL DEF SpecOfAll

\* That of promiseAll() does.
LEMMA PromiseAlways == SpecOfAll => []PromiseInv
<1>1. InitAll => PromiseInv
  BY PromiseInvariant, ConcurrencyConstants DEF InitAll
<1>2. PromiseInv /\ [NextOfAny]_all => PromiseInv'
  BY PromiseInvariant, ConcurrencyConstants, PromiseSteps
<1> QED
  BY <1>1, <1>2, PTL DEF SpecOfAll

\* AsyncQueue leaves no slot unused and starts jobs in their order; promiseAll()
\* keeps its limit and loses no task while tasks settle in their order, and awaits
\* the last ones in any: for every number of jobs and tasks, and every limit.
THEOREM ConcurrencyIsKept == SpecOfAll => []ConcurrencyHolds
<1>1. QueueInv /\ PromiseInv => ConcurrencyHolds
  BY QueueInvGives, PromiseInvGives, ConcurrencyConstants DEF ConcurrencyHolds
<1> QED
  BY <1>1, QueueAlways, PromiseAlways, PTL

-----------------------------------------------------------------------------
(* The breaker of the HTTP client.                                         *)

\* A breaker that is not closed has earned it, and a failed probe opens it again, for
\* any callers, thresholds and attempts.
THEOREM RetryBreakerIsKept == SpecOfAll => RetryBreakerHolds
<1>1. InitAll => Sound(hb)
  BY SuiteAssumption, SoundInit DEF InitAll
<1>2. Sound(hb) /\ [NextOfAny]_all => Sound(hb)'
  BY SuiteAssumption, NextSound, BreakerSteps
<1>3. Sound(hb) /\ [NextOfAny]_all
        => [hb.state = "half-open" /\ hb.due /\ ~hb'.due => hb'.state = "open"]_hb
  BY SuiteAssumption, NextSound, BreakerSteps
<1>4. Sound(hb) => (part = "retryHandler" => HB!OpenIsEarned)
  BY DEF Sound, HB!OpenIsEarned
<1> QED
  BY <1>1, <1>2, <1>3, <1>4, PTL DEF SpecOfAll, RetryBreakerHolds, HB!FailedProbeReopens

-----------------------------------------------------------------------------
(* EventBus.                                                               *)

\* An emission that ends without a throw has called every listener that stayed, and
\* once-listeners are called once while emissions neither nest nor end in a throw:
\* for any listeners, registrations and removals by listeners that run.
THEOREM EmissionsReachAll == SpecOfAll => EmissionsHold
<1>1. InitAll => BusInv(bus)
  BY BusStarts DEF InitAll
<1>2. BusInv(bus) /\ [NextOfAny]_all => [EB!Next]_bus
  BY BusSteps
<1>3. BusInv(bus) /\ [EB!Next]_bus => BusInv(bus)'
  BY BusInvariant
<1>4. BusInv(bus) /\ [EB!Next]_bus
        => [Len(bus'.stack) < Len(bus.stack) /\ EB!Top.cur = 0
              => \A i \in EB!Top.due : ~bus.reg[i].live]_bus
  BY BusReachesAll
<1>5. BusInv(bus) /\ [EB!Next]_bus
        => [\A i \in bus.used : ~EB!Running(i) /\ EB!Running(i)' => bus.nested]_bus
  BY BusOnce
<1> QED
  BY <1>1, <1>2, <1>3, <1>4, <1>5, PTL
  DEF SpecOfAll, EmissionsHold, EB!EmissionReachesAll, EB!OnceIsOnce

-----------------------------------------------------------------------------
(* LRUCache and memoizeAsync().                                            *)

\* The cache is within its size and evicts the key that was used least recently, and
\* one call at most is in flight for a key: for any keys and sizes, whatever expires,
\* is deleted and cleared while calls are in flight.
THEOREM CacheIsKept == SpecOfAll => LruHolds
<1>1. InitAll => LruInv(lru)
  BY SuiteAssumption, LruInvariant DEF InitAll
<1>2. LruInv(lru) /\ [NextOfAny]_all => LruInv(lru)'
  BY SuiteAssumption, LruInvariant, LruSteps
<1>3. LruInv(lru) /\ [NextOfAny]_all
        => [\A k, x \in Keys :
              LRU!Has(lru, k) /\ ~LRU!Has(lru, k)' /\ ~LRU!Has(lru, x) /\ LRU!Has(lru, x)'
                => k = Head(lru.recent)]_lru
  <2>1. LruInv(lru) /\ [NextOfAny]_all => Evicts(lru, lru')
    BY SuiteAssumption, LruInvariant, LruSteps
  <2> QED
    BY <2>1 DEF Evicts, LRU!Has
<1>4. LruInv(lru) => (part = "lru" => LRU!WithinSize /\ LRU!SingleFlight)
  BY LruInvGives
<1>5. LruInv(lru) /\ [NextOfAny]_all => [part = "lru" => LRU!EvictsOldest]_lru
  BY <1>3 DEF LRU!EvictsOldest
<1> QED
  BY <1>1, <1>2, <1>4, <1>5, PTL DEF SpecOfAll, LruHolds


-----------------------------------------------------------------------------
(* WebSocketClient.                                                        *)

\* Until an older socket interferes the client has one live socket and is never stuck,
\* and a queued message is overtaken by later messages only while the client still
\* sends its queue: for any numbers of sockets, attempts and messages.
THEOREM ClientIsKept == SpecOfAll => []WebSocketHolds
<1>1. InitAll => ClientExact(ws)
  BY SuiteAssumption, ClientInvariant DEF InitAll
<1>2. ClientExact(ws) /\ [NextOfAny]_all => ClientExact(ws)'
  BY SuiteAssumption, ClientInvariant, ClientSteps
<1>3. ClientExact(ws) => WebSocketHolds
  BY ClientExactGives DEF WebSocketHolds
<1> QED
  BY <1>1, <1>2, <1>3, PTL DEF SpecOfAll

-----------------------------------------------------------------------------
(* batchProcess() and Batcher.                                             *)

\* No permit is lost or made, and the caller is told the truth; no item is lost or
\* doubled, those that wait without a timer were missed by a flush, and promises are
\* honest: for any numbers of batches, permits and items.
THEOREM BatchesAreKept == SpecOfAll => []BatchesHold
<1>1. InitAll => ProcessExact(bp) /\ BatcherExact(bat)
  BY SuiteAssumption, ProcessInvariant, BatcherInvariant DEF InitAll
<1>2. ProcessExact(bp) /\ [NextOfAny]_all => ProcessExact(bp)'
  BY SuiteAssumption, ProcessInvariant, ProcessSteps
<1>3. BatcherExact(bat) /\ [NextOfAny]_all => BatcherExact(bat)'
  BY SuiteAssumption, BatcherInvariant, BatcherSteps
<1>4. ProcessExact(bp) /\ BatcherExact(bat) => BatchesHold
  BY SuiteAssumption, ProcessExactGives, BatcherExactGives DEF BatchesHold
<1> QED
  BY <1>1, <1>2, <1>3, <1>4, PTL DEF SpecOfAll

-----------------------------------------------------------------------------
(* The interceptors and the cache of the HTTP client.                      *)

\* A request that leaves a chain undisturbed has run every interceptor it found there,
\* only answers that passed the interceptors are cached and served, and none that has
\* expired: for any requests, interceptors that come and go, and attempts.
THEOREM InterceptionIsKept == SpecOfAll => HttpClientHolds
<1>1. InitAll => HttpInv(hc)
  BY HttpInvariant DEF InitAll
<1>2. HttpInv(hc) /\ [NextOfAny]_all => HttpInv(hc)'
  BY HttpInvariant, HttpClientSteps DEF HttpStep
<1>3. HttpInv(hc) /\ [NextOfAny]_all => Completes(hc, hc') /\ ServesFresh(hc, hc')
  BY HttpInvariant, HttpClientSteps DEF HttpStep
<1>4. HttpInv(hc) /\ [NextOfAny]_all
        => [\A r \in Requests : LET x == hc.req[r] IN
              x.pc \in {"before", "after"} /\ hc'.req[r].pc \notin {x.pc, "failed"} /\ ~x.disturbed
                => HC!HasRun(x)]_hc
  BY <1>3 DEF Completes
<1>5. HttpInv(hc) /\ [NextOfAny]_all
        => [\A r \in Requests :
              hc.req[r].pc # "cached" /\ hc'.req[r].pc = "cached" => ~hc.expired]_hc
  BY <1>3 DEF ServesFresh
<1>6. HttpInv(hc) => (part = "httpClient" => HC!CachedWasAnswered)
  BY HttpInvGives
<1>7. HttpInv(hc) /\ [NextOfAny]_all
        => [part = "httpClient" => HC!CompleteInterception /\ HC!NeverServesExpired]_hc
  BY <1>4, <1>5 DEF HC!CompleteInterception, HC!NeverServesExpired
<1> QED
  BY <1>1, <1>2, <1>6, <1>7, PTL DEF SpecOfAll, HttpClientHolds
=============================================================================
