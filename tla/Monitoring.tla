------------------------------ MODULE Monitoring ------------------------------
(***************************************************************************)
(* What the packages count about themselves: the performance monitor and   *)
(* the metrics collector of protocol-ucp, and the protocol selector that   *)
(* reads such numbers.                                                     *)
(***************************************************************************)
EXTENDS Integers, SequencesExt, FiniteSetsExt, Functions

CONSTANTS MonitorKeys,  \* sequence of protocol:service:method, in the order of collection
          Latencies,    \* numbers
          MaxRecorded,  \* bound on the requests
          MaxCollected, \* bound on the collections
          Retention,    \* metricsRetention, in collections
          Pairs,        \* label pairs <<name, value>>, the value a sequence of characters
          LabelMax,     \* how many labels a metric has at most
          MaxUpdates,   \* bound on the updates of a metric
          Buckets,      \* upper bounds of the histogram's buckets, ascending
          Protocols,    \* as a sequence: the adapters in the order of registration
          MaxSelections

VARIABLES pm, mc, se

MonitorAssumption ==
  /\ Latencies \subseteq Nat /\ IsFiniteSet(Latencies) /\ Latencies # {}
  /\ MaxRecorded \in Nat /\ MaxCollected \in Nat /\ Retention \in Nat \ {0}
CollectorAssumption ==
  /\ LabelMax \in Nat /\ MaxUpdates \in Nat
  /\ \A i, k \in DOMAIN Buckets : i < k => Buckets[i] < Buckets[k]
SelectorAssumption == IsInjective(Protocols) /\ MaxSelections \in Nat

-----------------------------------------------------------------------------
(* PerformanceMonitor.                                                     *)

NoRequests == [k \in DOMAIN MonitorKeys |-> <<>>]

\* open: the requests of each key since the last collection; stored, alerts: by
\* key; now: the collections so far, as the time; recorded, forgotten: history,
\* the requests of a key and those whose metrics were cleaned up or cleared;
\* again: history, those left in the counters by a collection that threw;
\* cleared: history, the time of the last clearMetrics().
MonitorInit ==
  pm = [running |-> TRUE, open |-> NoRequests, stored |-> NoRequests, alerts |-> NoRequests,
        now |-> 0, recorded |-> [k \in DOMAIN MonitorKeys |-> 0],
        forgotten |-> [k \in DOMAIN MonitorKeys |-> 0],
        again |-> [k \in DOMAIN MonitorKeys |-> 0], cleared |-> 0]

\* recordRequest() goes on after stop(): nothing collects what it counts.
RecordRequest(k, latency, success) ==
  /\ FoldFunction(+, 0, pm.recorded) < MaxRecorded
  /\ pm' = [pm EXCEPT !.open[k] = Append(@, [latency |-> latency, success |-> success]),
                      !.recorded[k] = @ + 1]

\* calculatePercentile() in hundredths, of values in ascending order.
CalculatePercentile(values, percentile) ==
  IF values = <<>> THEN 0
  ELSE LET index == percentile * (Len(values) - 1)
           lower == index \div 100
           weight == index % 100
       IN IF weight = 0 THEN values[lower + 1] * 100
          ELSE values[lower + 1] * (100 - weight) + values[lower + 2] * weight

SortedLatenciesAsRecorded(requests) == [i \in DOMAIN requests |-> requests[i].latency]
SortedLatencies(requests) ==
  SortSeq([i \in DOMAIN requests |-> requests[i].latency], LAMBDA a, b : a < b)

BuildMetrics(at, requests) ==
  LET values == SortedLatencies(requests)
  IN [at |-> at, requests |-> Len(requests),
      errors |-> Cardinality({i \in DOMAIN requests : ~requests[i].success}),
      p50 |-> CalculatePercentile(values, 50), p95 |-> CalculatePercentile(values, 95),
      p99 |-> CalculatePercentile(values, 99),
      highest |-> Max({v \in ToSet(values) : TRUE} \union {0}) * 100]

\* checkAlerts() with a rule on error_rate: an alert of each collection it holds
\* for, whatever the duration of the rule.
Exceeds(metrics) == metrics.errors * 2 > metrics.requests

CountersAfterAll(throws) == pm.open

\* resetCounters(), which a throwing callback skips.
CountersAfter(throws) == IF throws THEN pm.open ELSE NoRequests

\* collectMetrics(): the keys one after another; the callback of an alert may
\* throw, which leaves the remaining keys and the counters as they are (if the
\* process lives on: it throws out of a timer).
CollectMetrics(throws) ==
  LET at == pm.now + 1
      keys == SelectSeq([k \in DOMAIN MonitorKeys |-> k], LAMBDA k : pm.open[k] # <<>>)
      built == [k \in DOMAIN MonitorKeys |-> BuildMetrics(at, pm.open[k])]
      alerted == {i \in DOMAIN keys : Exceeds(built[keys[i]])}
      stopsAt == IF throws THEN Min(alerted) ELSE Len(keys)
      done == {keys[i] : i \in 1..stopsAt}
      told == {keys[i] : i \in alerted \intersect 1..stopsAt}
  IN /\ pm.running /\ pm.now < MaxCollected
     /\ throws => alerted # {}
     /\ pm' = [pm EXCEPT
          !.now = at,
          !.stored = [k \in DOMAIN @ |-> IF k \in done THEN Append(@[k], built[k]) ELSE @[k]],
          !.alerts = [k \in DOMAIN @ |-> IF k \in told THEN Append(@[k], at) ELSE @[k]],
          !.again = [k \in DOMAIN @ |->
                       IF throws /\ k \in done THEN @[k] + Len(pm.open[k]) ELSE @[k]],
          !.open = CountersAfter(throws)]

CountOf(metrics) == FoldLeft(LAMBDA n, m : n + m.requests, 0, metrics)

CleanupMetricsOnly ==
  LET young(at) == at > pm.now - Retention
      kept == [k \in DOMAIN MonitorKeys |-> SelectSeq(pm.stored[k], LAMBDA m : young(m.at))]
  IN pm' = [pm EXCEPT !.stored = kept,
                      !.forgotten = [k \in DOMAIN @ |->
                                       @[k] + CountOf(pm.stored[k]) - CountOf(kept[k])]]

\* cleanupOldMetrics(): metrics and alerts that are older than the retention.
CleanupOldMetrics ==
  LET young(at) == at > pm.now - Retention
      kept == [k \in DOMAIN MonitorKeys |-> SelectSeq(pm.stored[k], LAMBDA m : young(m.at))]
  IN /\ pm.running
     /\ pm' = [pm EXCEPT !.stored = kept,
                         !.alerts = [k \in DOMAIN @ |-> SelectSeq(@[k], young)],
                         !.forgotten = [k \in DOMAIN @ |->
                                          @[k] + CountOf(pm.stored[k]) - CountOf(kept[k])]]

\* clearMetrics(): the counters too, but not the alerts.
ClearMetrics ==
  pm' = [pm EXCEPT !.stored = NoRequests, !.open = NoRequests, !.cleared = pm.now,
                   !.forgotten = [k \in DOMAIN @ |->
                                    @[k] + CountOf(pm.stored[k]) + Len(pm.open[k])]]

StopMonitor == pm.running /\ pm' = [pm EXCEPT !.running = FALSE]

MonitorNext ==
  \/ \E k \in DOMAIN MonitorKeys, l \in Latencies, s \in BOOLEAN : RecordRequest(k, l, s)
  \/ \E t \in BOOLEAN : CollectMetrics(t)
  \/ CleanupOldMetrics \/ ClearMetrics \/ StopMonitor

MonitorSpec == MonitorInit /\ [][MonitorNext]_pm

\* Every request is counted by one collection, or waits for it; it is counted
\* again only after a collection in which the callback of an alert threw.
CountedOnce ==
  \A k \in DOMAIN MonitorKeys :
    CountOf(pm.stored[k]) + pm.forgotten[k] + Len(pm.open[k]) = pm.recorded[k] + pm.again[k]

\* What is stored makes sense: errors among the requests, percentiles in their
\* order and below the highest latency.
MetricsAreSane ==
  \A k \in DOMAIN MonitorKeys : \A m \in ToSet(pm.stored[k]) :
    /\ m.errors <= m.requests
    /\ m.p50 <= m.p95 /\ m.p95 <= m.p99 /\ m.p99 <= m.highest

\* Metrics that raised an alert and the alert are kept as long as one another; only
\* clearMetrics() leaves alerts behind.
AlertsFollowMetrics ==
  \A k \in DOMAIN MonitorKeys :
    LET exceeding == {m.at : m \in {m \in ToSet(pm.stored[k]) : Exceeds(m)}}
    IN /\ exceeding \subseteq ToSet(pm.alerts[k])
       /\ \A at \in ToSet(pm.alerts[k]) \ exceeding : at <= pm.cleared

-----------------------------------------------------------------------------
(* MetricsCollector, with one metric.                                      *)

\* retyped, joined: history, the metric was registered with another type; labels
\* with a separator in a value were used; counted: history, the increments since
\* the counter was emptied, by the set of labels.
CollectorInit ==
  mc = [type |-> "none", stored |-> {}, counter |-> <<>>, histogram |-> <<>>, updates |-> 0,
        retyped |-> FALSE, joined |-> FALSE, counted |-> <<>>]

LabelsOf == {s \in SeqOf(Pairs, LabelMax) : IsInjective([i \in DOMAIN s |-> s[i][1]])}
Separators == {",", "="}
Joined(labels) == \E i \in DOMAIN labels : ToSet(labels[i][2]) \intersect Separators # {}

\* serializeLabels(): the pairs in the order of their names, joined.
SerializeLabelsAsGiven(labels) ==
  FoldLeft(LAMBDA s, p : s \o (IF s = <<>> THEN <<>> ELSE <<",">>) \o <<p[1], "=">> \o p[2],
           <<>>, labels)
SerializeLabels(labels) ==
  SerializeLabelsAsGiven(SetToSortSeq(ToSet(labels), LAMBDA a, b : a[1] = "a" /\ b[1] = "b"))

Get(f, x, default) == IF x \in DOMAIN f THEN f[x] ELSE default
Put(f, x, v) == [y \in DOMAIN f \union {x} |-> IF y = x THEN v ELSE f[y]]

\* register(): empties the metric of this type; one of another type stays.
Register(type) ==
  /\ mc' = [mc EXCEPT !.type = type, !.stored = @ \union {type},
                      !.retyped = @ \/ mc.type \notin {"none", type},
                      !.counter = IF type = "counter" THEN <<>> ELSE @,
                      !.counted = IF type = "counter" THEN <<>> ELSE @,
                      !.histogram = IF type = "histogram" THEN <<>> ELSE @]

IncrementCounter(labels) ==
  LET key == SerializeLabels(labels)
  IN /\ mc.type = "counter" /\ mc.updates < MaxUpdates
     /\ mc' = [mc EXCEPT !.updates = @ + 1, !.joined = @ \/ Joined(labels),
                         !.counter = Put(@, key, Get(@, key, 0) + 1),
                         !.counted = Put(@, ToSet(labels), Get(@, ToSet(labels), 0) + 1)]

NoObservation == [count |-> 0, buckets |-> [b \in DOMAIN Buckets |-> 0]]

\* The buckets of recordHistogram() up to the first that is not below the value.
ObservedFirst(h, value) ==
  [count |-> h.count + 1,
   buckets |-> [b \in DOMAIN Buckets |->
                  IF value <= Buckets[b] /\ (b = 1 \/ value > Buckets[b - 1])
                  THEN h.buckets[b] + 1 ELSE h.buckets[b]]]

\* recordHistogram() counts a value in all buckets that it fits.
Observed(h, value) ==
  [count |-> h.count + 1,
   buckets |-> [b \in DOMAIN Buckets |-> IF value <= Buckets[b] THEN h.buckets[b] + 1
                                         ELSE h.buckets[b]]]

RecordHistogram(labels, value) ==
  LET key == SerializeLabels(labels)
  IN /\ mc.type = "histogram" /\ mc.updates < MaxUpdates
     /\ mc' = [mc EXCEPT !.updates = @ + 1,
                         !.histogram = Put(@, key, Observed(Get(@, key, NoObservation), value))]

\* resetMetric() empties the metric of the type it is registered with.
ResetMetric ==
  /\ mc.type # "none"
  /\ mc' = [mc EXCEPT !.counter = IF mc.type = "counter" THEN <<>> ELSE @,
                      !.counted = IF mc.type = "counter" THEN <<>> ELSE @,
                      !.histogram = IF mc.type = "histogram" THEN <<>> ELSE @]

Values == {Buckets[b] : b \in DOMAIN Buckets} \union {Buckets[Len(Buckets)] + 1}

CollectorNext ==
  \/ \E t \in {"counter", "histogram"} : Register(t)
  \/ \E l \in LabelsOf : IncrementCounter(l) \/ \E v \in Values : RecordHistogram(l, v)
  \/ ResetMetric

CollectorSpec == CollectorInit /\ [][CollectorNext]_mc

\* A counter is exact for each set of labels, in whatever order they were given, as
\* long as no value has had a separator in it.
SeriesAreExact ==
  ~mc.joined =>
    /\ \A l \in LabelsOf : ToSet(l) \in DOMAIN mc.counted =>
         Get(mc.counter, SerializeLabels(l), 0) = mc.counted[ToSet(l)]
    /\ Cardinality(DOMAIN mc.counter) = Cardinality(DOMAIN mc.counted)

\* The buckets of a histogram cumulate, up to the count.
BucketsCumulate ==
  \A h \in {mc.histogram[k] : k \in DOMAIN mc.histogram} :
    /\ \A b \in 2..Len(Buckets) : h.buckets[b - 1] <= h.buckets[b]
    /\ h.buckets[Len(Buckets)] <= h.count

\* getMetrics() lists the metric once, and with the type of its values, unless it
\* was registered with two types.
ListedOnce == Cardinality(mc.stored) > 1 => mc.retyped

-----------------------------------------------------------------------------
(* ProtocolSelector, as ProtocolFactory uses it.                           *)

\* latency: of the measured protocols; chosen: history, how often a protocol was
\* selected in turn since the adapters changed; last: the protocol selected.
SelectorInit ==
  \E s \in {"round_robin", "least_latency"} :
    se = [strategy |-> s, adapters |-> Protocols, index |-> 0, latency |-> <<>>,
          chosen |-> [p \in ToSet(Protocols) |-> 0], last |-> "none"]

\* updateMetrics(): a latency that was never given is 0.
UpdateMetrics(p, latency, given) ==
  /\ se.strategy = "least_latency"
  /\ se' = [se EXCEPT !.latency = Put(@, p, IF given THEN latency ELSE Get(@, p, 0)),
                      !.last = "none"]

SelectRoundRobinTwice == se.adapters[(((se.index + 1) \div 2) % Len(se.adapters)) + 1]
SelectRoundRobin == se.adapters[(se.index % Len(se.adapters)) + 1]

SelectLeastLatencyOfAll ==
  IF DOMAIN se.latency = {} THEN se.adapters[1]
  ELSE CHOOSE p \in DOMAIN se.latency :
         \A q \in DOMAIN se.latency : se.latency[p] <= se.latency[q]

\* selectLeastLatency(): the first of the best that were measured, or the first.
SelectLeastLatency ==
  LET measured == SelectSeq(se.adapters, LAMBDA p : p \in DOMAIN se.latency)
  IN IF measured = <<>> THEN se.adapters[1]
     ELSE measured[Min({i \in DOMAIN measured :
                          \A k \in DOMAIN measured :
                            se.latency[measured[i]] <= se.latency[measured[k]]})]

\* createClient() without a preferred protocol.  Without adapters, the selection
\* fails to find one, after it has counted.
CreateClient ==
  /\ se.index < MaxSelections
  /\ se' = IF se.adapters = <<>>
           THEN [se EXCEPT !.index = @ + 1, !.last = "none"]
           ELSE LET p == IF se.strategy = "round_robin" THEN SelectRoundRobin
                         ELSE SelectLeastLatency
                IN [se EXCEPT !.index = @ + 1, !.last = p, !.chosen[p] = @ + 1]

NoneChosen == [p \in ToSet(Protocols) |-> 0]

\* registerAdapter() puts a new adapter last.
RegisterAdapter(p) ==
  /\ ~Contains(se.adapters, p)
  /\ se' = [se EXCEPT !.adapters = Append(@, p), !.chosen = NoneChosen, !.last = "none"]

UnregisterAdapter(p) ==
  /\ Contains(se.adapters, p)
  /\ se' = [se EXCEPT !.adapters = SelectSeq(@, LAMBDA q : q # p), !.chosen = NoneChosen,
                      !.last = "none"]

SelectorNext ==
  \/ CreateClient
  \/ \E p \in ToSet(Protocols) :
       \/ RegisterAdapter(p) \/ UnregisterAdapter(p)
       \/ \E l \in Latencies, g \in BOOLEAN : UpdateMetrics(p, l, g)

SelectorSpec == SelectorInit /\ [][SelectorNext]_se

\* In turn, no adapter is selected twice more often than another, from wherever the
\* index stood when the adapters changed.
TurnsAreFair ==
  se.strategy = "round_robin" =>
    \A p, q \in ToSet(se.adapters) : se.chosen[p] <= se.chosen[q] + 1

\* A client is created with an adapter that is registered, and with none that was
\* measured faster: metrics of adapters that are gone select nothing.
SelectedIsRegistered ==
  se.last # "none" =>
    /\ Contains(se.adapters, se.last)
    /\ se.strategy = "least_latency" =>
         \A p \in ToSet(se.adapters) \intersect DOMAIN se.latency :
           se.last \in DOMAIN se.latency /\ se.latency[se.last] <= se.latency[p]
=============================================================================
