--------------------------- MODULE ServiceDiscovery ----------------------------
(***************************************************************************)
(* ServiceDiscovery of packages/protocol-ucp/src/discovery/service-        *)
(* discovery.ts with the static registry: registrations and their health   *)
(* intervals, whose checks wait for an answer, and the cache of discover().*)
(***************************************************************************)
EXTENDS Integers

CONSTANTS Services,    \* ids of services, all of the name that is asked for
          CacheFor,    \* cacheTimeout, in ticks
          MaxTick      \* bound: ticks of the clock

DiscoveryAssumption == CacheFor \in Nat \ {0} /\ MaxTick \in Nat

VARIABLE sd

None == [is |-> FALSE, found |-> {}, expires |-> 0]

\* joining, leaving: register() and deregister() at their await; timer: healthChecks;
\* loose: services with an interval the map has forgotten; checks: checks that wait;
\* asked: discover() at its await; crashed: a rejection nobody handles.  History: had,
\* the last time a service was registered; orphan, checks whose service went away
Init == sd = [services |-> {}, joining |-> {}, leaving |-> {}, timer |-> {}, loose |-> {},
              checks |-> {}, cache |-> None, asked |-> None, answer |-> {}, now |-> 0,
              had |-> [s \in Services |-> -1], orphan |-> {}, crashed |-> FALSE,
              destroyed |-> FALSE, revived |-> FALSE]

\* register() up to its await
Register(s) ==
  /\ s \notin sd.joining
  /\ sd' = [sd EXCEPT !.joining = @ \cup {s}]

\* Mutant of Registered: no check is started for a service that was known before.
RegisteredOnce(s) ==
  /\ s \in sd.joining
  /\ sd' = [sd EXCEPT !.joining = @ \ {s}, !.services = @ \cup {s}, !.had[s] = sd.now,
              !.timer = IF sd.had[s] >= 0 THEN @ ELSE @ \cup {s}]

\* and after it: an interval the service has already is overwritten in the map
Registered(s) ==
  /\ s \in sd.joining
  /\ sd' = [sd EXCEPT !.joining = @ \ {s}, !.services = @ \cup {s}, !.had[s] = sd.now,
              !.loose = IF s \in sd.timer THEN @ \cup {s} ELSE @, !.timer = @ \cup {s},
              !.revived = @ \/ sd.destroyed]

\* deregister() up to its await
Deregister(s) ==
  /\ s \in sd.services \ sd.leaving
  /\ sd' = [sd EXCEPT !.leaving = @ \cup {s}]

\* Mutant of Deregistered: stopHealthCheck() is not called.
DeregisteredOnly(s) ==
  /\ s \in sd.leaving
  /\ sd' = [sd EXCEPT !.leaving = @ \ {s}, !.services = @ \ {s},
              !.orphan = @ \cup (sd.checks \cap {s})]

\* and after it
Deregistered(s) ==
  /\ s \in sd.leaving
  /\ sd' = [sd EXCEPT !.leaving = @ \ {s}, !.services = @ \ {s}, !.timer = @ \ {s},
              !.orphan = @ \cup (sd.checks \cap {s})]

\* an interval begins a check
CheckBegins(s) ==
  /\ s \in (sd.timer \cup sd.loose) \ sd.checks
  /\ sd' = [sd EXCEPT !.checks = @ \cup {s}]

\* Mutant of CheckEnds: a service that is about to go counts as gone.
CheckEndsStrict(s) ==
  /\ s \in sd.checks
  /\ sd' = [sd EXCEPT !.checks = @ \ {s}, !.crashed = @ \/ s \notin sd.services \ sd.leaving]

\* and ends it: updateHealth() throws for a service that is gone, and throws again in
\* the handler
CheckEnds(s) ==
  /\ s \in sd.checks
  /\ sd' = [sd EXCEPT !.checks = @ \ {s}, !.crashed = @ \/ s \notin sd.services]

\* Mutant of Discover: an entry is good for one tick more.
DiscoverLonger ==
  /\ ~sd.asked.is
  /\ sd' = IF sd.cache.is /\ sd.cache.expires >= sd.now
           THEN [sd EXCEPT !.answer = sd.cache.found]
           ELSE [sd EXCEPT !.asked = [is |-> TRUE, found |-> sd.services, expires |-> 0]]

\* discover(), from the cache or up to its await
Discover ==
  /\ ~sd.asked.is
  /\ sd' = IF sd.cache.is /\ sd.cache.expires > sd.now
           THEN [sd EXCEPT !.answer = sd.cache.found]
           ELSE [sd EXCEPT !.asked = [is |-> TRUE, found |-> sd.services, expires |-> 0]]

\* and after it
Discovered ==
  /\ sd.asked.is
  /\ sd' = [sd EXCEPT !.asked = None, !.answer = sd.asked.found,
              !.cache = [is |-> TRUE, found |-> sd.asked.found, expires |-> sd.now + CacheFor]]

\* the interval of the cache
CleanCache ==
  /\ sd.cache.is /\ sd.cache.expires < sd.now
  /\ sd' = [sd EXCEPT !.cache = None]

\* destroy(): the services stay, and so do intervals the map has forgotten
Destroy ==
  sd' = [sd EXCEPT !.timer = {}, !.cache = None, !.destroyed = TRUE]

\* time passes, when no call is at an await of the static registry, and the answer
\* of discover() is put away
Tick ==
  /\ sd.now < MaxTick /\ sd.joining = {} /\ sd.leaving = {} /\ ~sd.asked.is
  /\ sd' = [sd EXCEPT !.now = @ + 1, !.answer = {},
              !.had = [s \in Services |-> IF s \in sd.services THEN sd.now + 1 ELSE @[s]]]

Next ==
  \/ Discover \/ Discovered \/ CleanCache \/ Destroy \/ Tick
  \/ \E s \in Services : \/ Register(s) \/ Registered(s) \/ Deregister(s) \/ Deregistered(s)
                         \/ CheckBegins(s) \/ CheckEnds(s)

Spec == Init /\ [][Next]_sd

-----------------------------------------------------------------------------
(* Properties.                                                             *)

\* Health checks follow the services: one interval for each, as far as destroy() has
\* not ended them, and after destroy() only for what was registered later.
HealthFollowsServices ==
  /\ sd.timer \subseteq sd.services
  /\ ~sd.destroyed => sd.services \subseteq sd.timer
  /\ sd.destroyed /\ ~sd.revived => sd.timer = {}

\* A rejection that nobody handles comes of a check whose service was deregistered
\* while it waited, or of an interval that a second registration had detached.
CrashIsExplained == sd.crashed => sd.orphan # {} \/ sd.loose # {}

\* What discover() finds was registered less long ago than an entry of the cache lasts:
\* a service that is gone may be found until then.
FreshEnough == \A s \in sd.answer : sd.had[s] > sd.now - CacheFor
=============================================================================
