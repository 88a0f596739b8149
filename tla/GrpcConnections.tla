--------------------------- MODULE GrpcConnections ---------------------------
(***************************************************************************)
(* packages/protocol-grpc/src/core: the pool of connections, and the       *)
(* client that starts and stops its service discovery and its pool.        *)
(***************************************************************************)
EXTENDS Integers, SequencesExt

(***************************************************************************)
(* ConnectionPool of packages/protocol-grpc/src/core/connection-pool.ts.   *)
(* A request takes an available connection, creates one below the limit,   *)
(* or polls for one.  The poll goes on when its request has timed out, and *)
(* what it takes then is given to nobody.  Health checks use the           *)
(* connections of the pool whoever holds them, and write their verdict     *)
(* when they end, also to a connection that was closed meanwhile.          *)
(***************************************************************************)

CONSTANTS Callers,   \* overlapping callers of getConnection()
          PoolMax,   \* maxConnections
          Warmup,    \* warmupConnections
          MaxMade    \* bound on the connections created

VARIABLE gp

Fresh == [known |-> TRUE, healthy |-> TRUE, checked |-> FALSE]
NoCall == [pc |-> "idle", conn |-> 0]

\* conns: all connections ever created: whether the map has them, isHealthy, and
\* whether a health check of theirs is under way; up: isInitialized; timers: the
\* intervals that run; crowded: history, a creation has overlapped another or close(); lost:
\* history, taken for a request that had timed out; revived: history, closed while
\* a health check was under way
PoolInit == gp = [conns |-> <<>>, avail |-> <<>>, call |-> [r \in Callers |-> NoCall],
                  up |-> FALSE, timers |-> 0, crowded |-> FALSE, lost |-> {}, revived |-> {}]

In(pc) == {r \in Callers : gp.call[r].pc = pc}
Known(g) == {c \in DOMAIN g.conns : g.conns[c].known}
Creating == In("init") \union In("creating")

\* removeConnection(), close() of the connections: they leave the map and the array
Drop(g, cs) ==
  [g EXCEPT !.conns = [c \in DOMAIN @ |-> IF c \in cs THEN [@[c] EXCEPT !.known = FALSE, !.healthy = FALSE]
                                          ELSE @[c]],
            !.avail = SelectSeq(@, LAMBDA c : c \notin cs),
            !.revived = @ \union {c \in cs : g.conns[c].checked}]

\* Mutant of Take: the connection stays in the array.
TakeKeeping(g, r, k) == [g EXCEPT !.call[r] = [pc |-> "holding", conn |-> g.avail[k]]]

\* getAvailableConnection(): the target and the policy choose which
Take(g, r, k) == [g EXCEPT !.call[r] = [pc |-> "holding", conn |-> g.avail[k]], !.avail = RemoveAt(@, k)]

\* Mutant of Serve: the limit may be passed by one.
ServeOneMore(g, r) ==
  IF g.avail # <<>> THEN {Take(g, r, k) : k \in DOMAIN g.avail}
  ELSE IF Cardinality(Known(g)) > PoolMax THEN {[g EXCEPT !.call[r].pc = "waiting"]}
  ELSE {[g EXCEPT !.call[r].pc = "creating", !.crowded = @ \/ Creating \ {r} # {}]}

\* getConnection() of an initialized pool: its possible outcomes
Serve(g, r) ==
  IF g.avail # <<>> THEN {Take(g, r, k) : k \in DOMAIN g.avail}
  ELSE IF Cardinality(Known(g)) >= PoolMax THEN {[g EXCEPT !.call[r].pc = "waiting"]}
  ELSE {[g EXCEPT !.call[r].pc = "creating", !.crowded = @ \/ Creating \ {r} # {}]}

-----------------------------------------------------------------------------
\* getConnection(): the first callers initialize the pool, each on its own
Get(r) ==
  /\ gp.call[r].pc = "idle"
  /\ IF gp.up THEN gp' \in Serve(gp, r)
     ELSE gp' = [gp EXCEPT !.call[r].pc = "init", !.crowded = @ \/ Creating # {}]

\* warmupConnections() ends: the intervals start, and the caller is served
Initialized(r) ==
  LET made == [k \in 1..Warmup |-> Len(gp.conns) + k] IN
  /\ gp.call[r].pc = "init" /\ Len(gp.conns) + Warmup <= MaxMade
  /\ gp' \in Serve([gp EXCEPT !.conns = @ \o [k \in 1..Warmup |-> Fresh], !.avail = @ \o made,
                              !.up = TRUE, !.timers = @ + 1], r)

\* createConnection() resolves
Created(r) ==
  /\ gp.call[r].pc = "creating" /\ Len(gp.conns) < MaxMade
  /\ gp' = [gp EXCEPT !.conns = Append(@, Fresh),
                      !.call[r] = [pc |-> "holding", conn |-> Len(gp.conns) + 1]]

\* waitForConnection(): the timeout rejects, and checkConnection() goes on
Timeout(r) == gp.call[r].pc = "waiting" /\ gp' = [gp EXCEPT !.call[r].pc = "ghost"]

Poll(r) ==
  /\ gp.call[r].pc = "waiting"
  /\ \E k \in DOMAIN gp.avail : gp' = Take(gp, r, k)
GhostPoll(r) ==
  /\ gp.call[r].pc = "ghost"
  /\ \E k \in DOMAIN gp.avail :
       gp' = [Take(gp, r, k) EXCEPT !.call[r] = NoCall, !.lost = @ \union {gp.avail[k]}]

\* Mutant of Release: an unhealthy connection is not removed.
ReleaseHealthy(r) ==
  LET c == gp.call[r].conn
      g == [gp EXCEPT !.call[r] = NoCall] IN
  /\ gp.call[r].pc = "holding"
  /\ gp' = IF gp.conns[c].healthy THEN [g EXCEPT !.avail = Append(@, c)] ELSE g

\* releaseConnection()
Release(r) ==
  LET c == gp.call[r].conn
      g == [gp EXCEPT !.call[r] = NoCall] IN
  /\ gp.call[r].pc = "holding"
  /\ gp' = IF gp.conns[c].healthy THEN [g EXCEPT !.avail = Append(@, c)]
           ELSE IF c \in Known(g) THEN Drop(g, {c}) ELSE g

\* performHealthCheck() of every connection of the map, and the end of one
Check ==
  /\ gp.timers > 0
  /\ gp' = [gp EXCEPT !.conns = [c \in DOMAIN @ |-> [@[c] EXCEPT !.checked = @ \/ c \in Known(gp)]]]
CheckEnds(c, ok) ==
  /\ c \in DOMAIN gp.conns /\ gp.conns[c].checked
  /\ gp' = [gp EXCEPT !.conns[c].checked = FALSE, !.conns[c].healthy = ok]

Unhealthy == {c \in Known(gp) : ~gp.conns[c].healthy}

\* Mutant of Cleanup: removed connections stay available.
CleanupMap(cs) ==
  /\ gp.timers > 0 /\ cs # {} /\ cs \subseteq Known(gp) /\ Unhealthy \subseteq cs
  /\ gp' = [Drop(gp, cs) EXCEPT !.avail = gp.avail]

\* performCleanup(): unhealthy ones go, and any that are too old or too long idle,
\* which a connection in use may seem to be behind a health check
Cleanup(cs) ==
  /\ gp.timers > 0 /\ cs # {} /\ cs \subseteq Known(gp) /\ Unhealthy \subseteq cs
  /\ gp' = Drop(gp, cs)

\* close(): the handles of the last initialization are cleared
Close ==
  /\ gp.up
  /\ gp' = [Drop(gp, Known(gp)) EXCEPT !.up = FALSE, !.timers = @ - 1, !.avail = <<>>,
                                       !.crowded = @ \/ Creating # {}]

PoolNext ==
  \/ \E r \in Callers :
       Get(r) \/ Initialized(r) \/ Created(r) \/ Timeout(r) \/ Poll(r) \/ GhostPoll(r) \/ Release(r)
  \/ Check \/ Close
  \/ \E c \in 1..MaxMade, ok \in BOOLEAN : CheckEnds(c, ok)
  \/ \E cs \in SUBSET (1..MaxMade) : Cleanup(cs)

PoolSpec == PoolInit /\ [][PoolNext]_gp

-----------------------------------------------------------------------------
(* Properties.                                                             *)

Held == {gp.call[r].conn : r \in In("holding")}

PoolTypeOK ==
  /\ gp.avail \in Seq(DOMAIN gp.conns) /\ Held \subseteq DOMAIN gp.conns
  /\ gp.timers \in Nat

\* A connection has one holder or is available once, whatever times out, fails
\* its check or is cleaned up.
Exclusive ==
  /\ Cardinality(Held) = Cardinality(In("holding"))
  /\ IsInjective(gp.avail) /\ ToSet(gp.avail) \intersect Held = {}

\* The limit holds as long as no creation overlaps another one or close().
LimitAlone == ~gp.crowded => Cardinality(Known(gp)) <= PoolMax

\* A connection of the map is available or held, unless it was taken for a
\* request that had timed out.
NoneLeaks == Known(gp) \subseteq ToSet(gp.avail) \union Held \union gp.lost

\* A connection that is available is one of the map, unless a health check that
\* was under way when it was closed has declared it healthy since.
AvailableIsKnown == ToSet(gp.avail) \subseteq Known(gp) \union gp.revived

-----------------------------------------------------------------------------
(***************************************************************************)
(* GRPCClient of packages/protocol-grpc/src/core/grpc-client.ts with the   *)
(* ServiceDiscovery and the pool it starts and stops one after the other.  *)
(* Each of the three tests its flag before its awaits and sets it after    *)
(* them, so that calls that overlap do the work twice.                     *)
(***************************************************************************)

CONSTANTS GrpcCallers,    \* overlapping callers of connect(), disconnect() and close()
          MaxIntervals    \* bound: intervals that run when another connect() begins

VARIABLE gc

\* connected, running, initialized: isConnected of the client, isRunning of its discovery and
\* isInitialized of its pool; refresh, checks: the intervals that run of the two; handle,
\* check: whether refreshInterval and healthCheckInterval hold one of them; pc: of the calls.
\* History: crowded, a connect() has overlapped another call
ClientInit == gc = [connected |-> FALSE, running |-> FALSE, initialized |-> FALSE,
                    refresh |-> 0, handle |-> FALSE, checks |-> 0, check |-> FALSE,
                    pc |-> [r \in GrpcCallers |-> "idle"], crowded |-> FALSE]

At(r, pc) == gc.pc[r] = pc
Busy == {r \in GrpcCallers : gc.pc[r] # "idle"}
Connecting == {"starting", "warming"}
Ends(g, r) == [g EXCEPT !.pc[r] = "idle"]

\* connect() once the discovery runs: initialize() of the pool up to its await
Warms(g, r) ==
  IF g.initialized THEN Ends([g EXCEPT !.connected = TRUE], r)
  ELSE [g EXCEPT !.pc[r] = "warming"]

\* Mutant of Connect: isConnected is not tested, nor isRunning.
ConnectAgain(r) ==
  /\ At(r, "idle") /\ gc.refresh < MaxIntervals /\ gc.checks < MaxIntervals
  /\ LET g == [gc EXCEPT !.crowded = @ \/ Busy # {}] IN
     gc' = [g EXCEPT !.pc[r] = "starting"]

\* connect() up to the initializeProvider() of its discovery
Connect(r) ==
  /\ At(r, "idle") /\ gc.refresh < MaxIntervals /\ gc.checks < MaxIntervals
  /\ LET g == [gc EXCEPT !.crowded = @ \/ Busy # {}] IN
     gc' = IF g.connected THEN Ends(g, r)
           ELSE IF g.running THEN Warms(g, r)
           ELSE [g EXCEPT !.pc[r] = "starting"]

\* startPeriodicRefresh(), isRunning
Discovers(r) ==
  /\ At(r, "starting")
  /\ gc' = Warms([gc EXCEPT !.running = TRUE, !.refresh = @ + 1, !.handle = TRUE], r)

\* startHealthCheck() and startCleanup(), isInitialized, isConnected
Warmed(r) ==
  /\ At(r, "warming")
  /\ gc' = Ends([gc EXCEPT !.initialized = TRUE, !.checks = @ + 1, !.check = TRUE,
                           !.connected = TRUE], r)

\* the provider is not a known one
ConnectFails(r) == At(r, "starting") /\ gc' = Ends(gc, r)

\* Mutant of Stops: the refreshing goes on.
StopsRefreshing(g, r) ==
  IF g.running THEN [g EXCEPT !.pc[r] = "stopping"]
  ELSE Ends([g EXCEPT !.connected = FALSE], r)

\* stop() of the discovery up to its await, and the end of the call if there is none
Stops(g, r) ==
  IF g.running
  THEN [g EXCEPT !.pc[r] = "stopping", !.refresh = IF g.handle THEN @ - 1 ELSE @, !.handle = FALSE]
  ELSE Ends([g EXCEPT !.connected = FALSE], r)

\* disconnect() and close(): close() of the pool up to its await
Disconnect(r) ==
  /\ At(r, "idle")
  /\ LET g == [gc EXCEPT !.crowded = @ \/ \E s \in Busy : gc.pc[s] \in Connecting] IN
     gc' = IF ~g.connected THEN Ends(g, r)
           ELSE IF ~g.initialized THEN Stops(g, r)
           ELSE [g EXCEPT !.pc[r] = "closing", !.checks = IF g.check THEN @ - 1 ELSE @,
                          !.check = FALSE]

PoolCloses(r) == At(r, "closing") /\ gc' = Stops([gc EXCEPT !.initialized = FALSE], r)
Disconnected(r) ==
  /\ At(r, "stopping")
  /\ gc' = Ends([gc EXCEPT !.running = FALSE, !.connected = FALSE], r)

ClientNext == \E r \in GrpcCallers :
  \/ Connect(r) \/ Discovers(r) \/ Warmed(r) \/ ConnectFails(r)
  \/ Disconnect(r) \/ PoolCloses(r) \/ Disconnected(r)

ClientSpec == ClientInit /\ [][ClientNext]_gc

-----------------------------------------------------------------------------
(* Properties.                                                             *)

\* While no call is under way a connected client has its discovery and its pool, with one
\* interval each, and one that is not connected has neither, and none is left running; as
\* far as connect() has not overlapped another call.  One that does starts the intervals
\* twice, whose first handle is lost, or is told of a connection that is being closed.
ConnectedIsUp ==
  gc.crowded \/ Busy # {} \/
    /\ gc.running = gc.connected /\ gc.initialized = gc.connected
    /\ gc.refresh = IF gc.connected THEN 1 ELSE 0
    /\ gc.checks = gc.refresh

\* Whatever overlaps, every interval that no handle holds was started by a connect() that
\* overlapped another, and a handle holds an interval that runs.
HandlesAreHeld ==
  /\ gc.handle => gc.refresh > 0
  /\ gc.check => gc.checks > 0
  /\ ~gc.crowded => gc.refresh <= 1 /\ gc.checks <= 1
=============================================================================
