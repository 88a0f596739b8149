----------------------------- MODULE ConnectionPool -----------------------------
(***************************************************************************)
(* ConnectionPoolManager of                                                *)
(* packages/protocol-ucp/src/utils/connection-pool.ts, for one endpoint.   *)
(*                                                                         *)
(* Every operation runs in pieces between its awaits: acquire() starts a   *)
(* processAcquisition() that nobody awaits and that may create a           *)
(* connection, and the periodic sweeps, drain() and clear() disconnect     *)
(* connections one await at a time.  A piece that follows an await works   *)
(* on the arrays it captured before: `this.pools.get(endpoint) || []'      *)
(* makes a new array when the map has no entry, so pool arrays and pending *)
(* arrays have an identity here, the connection or the request for which   *)
(* they were made.                                                         *)
(***************************************************************************)
EXTENDS Integers, SequencesExt

CONSTANTS Reqs,            \* calls of acquire()
          MaxConnections,  \* config.maxConnectionsPerTarget
          MinConnections,  \* config.minConnections
          Ops,             \* the other operations in use
          MaxConn,         \* bound on the connections ever created
          None             \* no entry in pendingAcquisitions

Sweeps == {"cleanup", "validate"}

ASSUME PoolAssumption ==
  /\ MaxConnections \in Nat \ {0}
  /\ MinConnections \in Nat
  /\ MaxConn \in Nat
  /\ Ops \subseteq Sweeps \union {"drain", "clear"}
  /\ None \notin Reqs

VARIABLES req,      \* of each call: its status and the connection it holds
          conn,     \* the connections, in the order their creation began
          poolArr,  \* the pool array made for each connection
          curPool,  \* this.pools.get(endpoint): the array's connection, 0 if none
          pendArr,  \* the pending array made for each request
          curPend,  \* this.pendingAcquisitions.get(endpoint): its request, or None
          sweep,    \* the periodic cleanupIdleConnections(), validateConnections()
          draining, \* a call of drain()
          clearing  \* a call of clear(): the connections it still disconnects

vars == <<req, conn, poolArr, curPool, pendArr, curPend, sweep, draining, clearing>>
jobs == <<sweep, draining, clearing>>

Conn == 1..MaxConn
nconn == Len(conn)

\* `again': the pool's entry was deleted and added again since the iterator of
\* the map passed it
NoSweep == [pc |-> "idle", todo |-> <<>>, cur |-> 0, again |-> FALSE]
NoDrain == [pc |-> "idle", arr |-> 0, k |-> 0, cur |-> 0, again |-> FALSE, targets |-> {}]
NoClear == [pc |-> "idle", left |-> {}]

Init ==
  /\ req = [r \in Reqs |-> [st |-> "new", conn |-> 0]]
  /\ conn = <<>>
  /\ poolArr = [c \in Conn |-> <<>>]
  /\ curPool = 0
  /\ pendArr = [r \in Reqs |-> <<>>]
  /\ curPend = None
  /\ sweep = [j \in Sweeps |-> NoSweep]
  /\ draining = NoDrain
  /\ clearing = NoClear

\* Requests are interchangeable.
Symmetry == Permutations(Reqs)

-----------------------------------------------------------------------------
Pool == IF curPool = 0 THEN <<>> ELSE poolArr[curPool]

Waiting == IF curPend = None THEN <<>> ELSE pendArr[curPend]

\* the pooled connections that are not in use, in connections cn
Idle(cn) == {c \in ToSet(Pool) : ~cn[c].inUse}

\* resolve() or reject() of a request: a promise settles once
Resolved(rq, r, c) ==
  IF rq[r].st = "pending" THEN [rq EXCEPT ![r] = [st |-> "held", conn |-> c]] ELSE rq
Rejected(rq, r) ==
  IF rq[r].st = "pending" THEN [rq EXCEPT ![r].st = "failed"] ELSE rq

-----------------------------------------------------------------------------
(* processAcquisition() up to its await, from requests rq, pending arrays  *)
(* q with entry cp, and connections cn.                                    *)

\* Mutant of TakeIdle: the connection is not marked.
TakeIdleUnmarked(rq, q, cp, cn) ==
  /\ \E c \in Idle(cn) : req' = Resolved(rq, Head(q[cp]), c)
  /\ pendArr' = [q EXCEPT ![cp] = Tail(@)]
  /\ conn' = cn

\* whichever idle connection the load balancing strategy selects
TakeIdle(rq, q, cp, cn) ==
  /\ \E c \in Idle(cn) :
       /\ req' = Resolved(rq, Head(q[cp]), c)
       /\ conn' = [cn EXCEPT ![c].inUse = TRUE]
  /\ pendArr' = [q EXCEPT ![cp] = Tail(@)]

\* Mutant of Creating: no array is made when the map has none.
CreatingNoArray(arr, cp) ==
  [st |-> "creating", inUse |-> FALSE, arr |-> arr, pend |-> cp]

\* a call of createConnection(), with the arrays it will use when it is back
Creating(arr, cp) ==
  [st |-> "creating", inUse |-> FALSE,
   arr |-> IF arr = 0 THEN nconn + 1 ELSE arr, pend |-> cp]

StartCreate(rq, q, cp, cn) ==
  /\ Idle(cn) = {} /\ Len(Pool) < MaxConnections
  /\ nconn < MaxConn
  /\ conn' = Append(cn, Creating(curPool, cp))
  /\ req' = rq /\ pendArr' = q

\* nobody waits, or the pool is full
NothingToDo(rq, q, cp, cn) ==
  /\ \/ cp = None
     \/ cp # None /\ q[cp] = <<>>
     \/ Idle(cn) = {} /\ Len(Pool) >= MaxConnections
  /\ req' = rq /\ pendArr' = q /\ conn' = cn

Process(rq, q, cp, cn) ==
  \/ NothingToDo(rq, q, cp, cn)
  \/ /\ cp # None
     /\ q[cp] # <<>>
     /\ TakeIdle(rq, q, cp, cn) \/ StartCreate(rq, q, cp, cn)

-----------------------------------------------------------------------------
(* acquire(), its timeout, and release().                                  *)

Acquire(r) ==
  LET cp == IF curPend = None THEN r ELSE curPend IN
  /\ req[r].st = "new"
  /\ curPend' = cp
  /\ Process([req EXCEPT ![r].st = "pending"], [pendArr EXCEPT ![cp] = Append(@, r)],
             cp, conn)
  /\ UNCHANGED <<poolArr, curPool, jobs>>

\* Mutant of RemovePending: the entry goes with any request, not the last.
RemovePendingAll(r) ==
  IF r \in ToSet(Waiting)
  THEN /\ pendArr' = [pendArr EXCEPT ![curPend] = RemoveFirst(@, r)]
       /\ curPend' = None
  ELSE UNCHANGED <<pendArr, curPend>>

RemovePending(r) ==
  IF r \in ToSet(Waiting)
  THEN /\ pendArr' = [pendArr EXCEPT ![curPend] = RemoveFirst(@, r)]
       /\ curPend' = IF Len(Waiting) = 1 THEN None ELSE curPend
  ELSE UNCHANGED <<pendArr, curPend>>

\* the timer of acquire(), which whoever settles the request has cleared
Timeout(r) ==
  /\ req[r].st = "pending"
  /\ RemovePending(r)
  /\ req' = [req EXCEPT ![r].st = "failed"]
  /\ UNCHANGED <<conn, poolArr, curPool, jobs>>

Returned(r) == [req EXCEPT ![r] = [st |-> "returned", conn |-> 0]]

\* release() throws, and changes nothing, if the connection is not pooled
Release(r) ==
  LET c == req[r].conn IN
  /\ req[r].st = "held"
  /\ \/ /\ c \in ToSet(Pool)
        /\ Process(Returned(r), pendArr, curPend, [conn EXCEPT ![c].inUse = FALSE])
     \/ /\ c \notin ToSet(Pool)
        /\ req' = Returned(r)
        /\ UNCHANGED <<conn, pendArr>>
  /\ UNCHANGED <<poolArr, curPool, curPend, jobs>>

-----------------------------------------------------------------------------
(* processAcquisition() after its await.                                   *)

\* this.pools.set(endpoint, arr): an entry that is new is visited by whoever
\* iterates over the map
SetPool(arr) ==
  /\ curPool' = arr
  /\ sweep' = [j \in Sweeps |->
       [sweep[j] EXCEPT !.again = @ \/ (curPool = 0 /\ sweep[j].pc # "idle")]]
  /\ draining' = [draining EXCEPT
       !.again = @ \/ (curPool = 0 /\ draining.pc \notin {"idle", "wait"})]

\* the connection goes to the head of the captured pending array, even if that
\* request was rejected meanwhile; an empty array is a TypeError, thrown again
\* by the handler of the first and reported to nobody
CreateOk(c) ==
  LET arr == conn[c].arr
      cp == conn[c].pend IN
  /\ conn[c].st = "creating"
  /\ conn' = [conn EXCEPT ![c] = [st |-> "live", inUse |-> TRUE, arr |-> 0, pend |-> None]]
  /\ poolArr' = [poolArr EXCEPT ![arr] = Append(@, c)]
  /\ SetPool(arr)
  /\ IF pendArr[cp] = <<>> THEN UNCHANGED <<req, pendArr>>
     ELSE /\ req' = Resolved(req, Head(pendArr[cp]), c)
          /\ pendArr' = [pendArr EXCEPT ![cp] = Tail(@)]
  /\ UNCHANGED <<curPend, clearing>>

CreateFails(c) ==
  LET cp == conn[c].pend IN
  /\ conn[c].st = "creating"
  /\ conn' = [conn EXCEPT ![c] = [st |-> "closed", inUse |-> FALSE, arr |-> 0, pend |-> None]]
  /\ IF pendArr[cp] = <<>> THEN UNCHANGED <<req, pendArr>>
     ELSE /\ req' = Rejected(req, Head(pendArr[cp]))
          /\ pendArr' = [pendArr EXCEPT ![cp] = Tail(@)]
  /\ UNCHANGED <<poolArr, curPool, curPend, jobs>>

-----------------------------------------------------------------------------
(* destroyConnection() after its await: removeFromPool() looks the         *)
(* connection up in the array that the map holds by then.                  *)

RemoveFromPool(c) ==
  /\ IF c \in ToSet(Pool)
     THEN /\ poolArr' = [poolArr EXCEPT ![curPool] = RemoveFirst(@, c)]
          /\ curPool' = IF Len(Pool) = 1 THEN 0 ELSE curPool
     ELSE UNCHANGED <<poolArr, curPool>>

Disconnected(c) ==
  /\ conn' = [conn EXCEPT ![c].st = "closed"]
  /\ RemoveFromPool(c)
  /\ UNCHANGED <<req, pendArr, curPend>>

-----------------------------------------------------------------------------
(* The periodic sweeps: a snapshot of the entry's idle connections, then   *)
(* one await after the other; a pool whose entry is added again meanwhile  *)
(* is visited again by the iterator of the map.                            *)

\* how many connections a sweep may take: the cleanup leaves MinConnections
Quota(j) == IF j = "validate" THEN Len(Pool) ELSE Len(Pool) - MinConnections

\* the snapshots it may take: idle connections that are old enough, whichever these
\* are, in the order of the pool
Snapshots(j) ==
  {todo \in UNION {[1..n -> Idle(conn)] : n \in {0} \union 1..Quota(j)} :
     \A i, k \in DOMAIN todo : i < k =>
       \E p, q \in DOMAIN Pool : p < q /\ Pool[p] = todo[i] /\ Pool[q] = todo[k]}

\* the first of todo is pinged, or disconnected
NextOf(j, todo) ==
  IF todo = <<>> THEN [NoSweep EXCEPT !.pc = "next"]
  ELSE [pc |-> IF j = "validate" THEN "ping" ELSE "close",
        todo |-> Tail(todo), cur |-> Head(todo), again |-> FALSE]

\* the entry the iterator of the map is at, or the next one
SweepEntry(j) ==
  /\ \/ sweep[j].pc = "idle"
     \/ sweep[j].pc = "next" /\ sweep[j].todo = <<>> /\ sweep[j].again
  /\ j \in Ops /\ curPool # 0
  /\ \E todo \in Snapshots(j) : sweep' = [sweep EXCEPT ![j] = NextOf(j, todo)]
  /\ UNCHANGED <<req, conn, poolArr, curPool, pendArr, curPend, draining, clearing>>

SweepNext(j) ==
  /\ sweep[j].pc = "next" /\ sweep[j].todo # <<>>
  /\ sweep' = [sweep EXCEPT ![j] =
       [NextOf(j, sweep[j].todo) EXCEPT !.again = sweep[j].again]]
  /\ UNCHANGED <<req, conn, poolArr, curPool, pendArr, curPend, draining, clearing>>

SweepEnds(j) ==
  /\ sweep[j].pc = "next" /\ sweep[j].todo = <<>>
  /\ ~sweep[j].again \/ curPool = 0
  /\ sweep' = [sweep EXCEPT ![j] = NoSweep]
  /\ UNCHANGED <<req, conn, poolArr, curPool, pendArr, curPend, draining, clearing>>

\* a ping that fails, or takes too long, has the connection destroyed
PingSettles(ok) ==
  /\ sweep["validate"].pc = "ping"
  /\ sweep' = [sweep EXCEPT !["validate"].pc = IF ok THEN "next" ELSE "close"]
  /\ UNCHANGED <<req, conn, poolArr, curPool, pendArr, curPend, draining, clearing>>

SweepDisconnected(j) ==
  /\ sweep[j].pc = "close"
  /\ Disconnected(sweep[j].cur)
  /\ sweep' = [sweep EXCEPT ![j].pc = "next", ![j].cur = 0]
  /\ UNCHANGED <<draining, clearing>>

-----------------------------------------------------------------------------
(* drain(): polls for 30 seconds at most, then walks the live array, from  *)
(* which each destroyed connection is spliced.                             *)

Drain ==
  /\ "drain" \in Ops /\ draining.pc = "idle"
  /\ draining' = [NoDrain EXCEPT !.pc = "wait"]
  /\ UNCHANGED <<req, conn, poolArr, curPool, pendArr, curPend, sweep, clearing>>

\* where the walk over array arr, from index k, awaits next; targets is history,
\* what is left of the connections in use before it
WalkFrom(arr, k, before, again) ==
  LET inUse == {i \in k..Len(poolArr[arr]) : conn[poolArr[arr][i]].inUse}
      targets == {c \in before : conn[c].st = "live" /\ conn[c].inUse} IN
  IF inUse = {}
  THEN [NoDrain EXCEPT !.pc = "next", !.targets = targets, !.again = again]
  ELSE [pc |-> "close", arr |-> arr, k |-> Min(inUse) + 1,
        cur |-> poolArr[arr][Min(inUse)], again |-> again, targets |-> targets]

\* the connections in use are gone, or 30 seconds are over
DrainForces ==
  /\ draining.pc = "wait"
  /\ draining' = IF curPool = 0 THEN NoDrain
                 ELSE WalkFrom(curPool, 1, {c \in ToSet(Pool) : conn[c].inUse}, FALSE)
  /\ UNCHANGED <<req, conn, poolArr, curPool, pendArr, curPend, sweep, clearing>>

DrainDisconnected ==
  /\ draining.pc = "close"
  /\ Disconnected(draining.cur)
  /\ draining' = [draining EXCEPT !.pc = "walk", !.cur = 0]
  /\ UNCHANGED <<sweep, clearing>>

DrainWalks ==
  /\ draining.pc = "walk"
  /\ draining' = WalkFrom(draining.arr, draining.k, draining.targets, draining.again)
  /\ UNCHANGED <<req, conn, poolArr, curPool, pendArr, curPend, sweep, clearing>>

\* the entry was added again and is walked too, or drain() returns
DrainEnds ==
  /\ draining.pc = "next"
  /\ draining' = IF draining.again /\ curPool # 0
                 THEN WalkFrom(curPool, 1, draining.targets, FALSE) ELSE NoDrain
  /\ UNCHANGED <<req, conn, poolArr, curPool, pendArr, curPend, sweep, clearing>>

-----------------------------------------------------------------------------
(* clear().                                                                *)

\* up to the await; a creation under way keeps the rejected requests' array
Clear ==
  /\ "clear" \in Ops /\ clearing.pc = "idle"
  /\ req' = [r \in Reqs |-> IF r \in ToSet(Waiting) THEN Rejected(req, r)[r] ELSE req[r]]
  /\ curPend' = None
  /\ clearing' = [pc |-> "close", left |-> ToSet(Pool)]
  /\ UNCHANGED <<conn, poolArr, curPool, pendArr, sweep, draining>>

ClearDisconnected(c) ==
  /\ c \in clearing.left
  /\ Disconnected(c)
  /\ clearing' = [clearing EXCEPT !.left = @ \ {c}]
  /\ UNCHANGED <<sweep, draining>>

ClearEnds ==
  /\ clearing.pc = "close" /\ clearing.left = {}
  /\ curPool' = 0
  /\ clearing' = NoClear
  /\ UNCHANGED <<req, conn, poolArr, pendArr, curPend, sweep, draining>>

-----------------------------------------------------------------------------
Sweeping(j) == SweepEntry(j) \/ SweepNext(j) \/ SweepEnds(j) \/ SweepDisconnected(j)
Draining == Drain \/ DrainForces \/ DrainWalks \/ DrainDisconnected \/ DrainEnds
Clearing == Clear \/ (\E c \in Conn : ClearDisconnected(c)) \/ ClearEnds

Next ==
  \/ \E r \in Reqs : Acquire(r) \/ Timeout(r) \/ Release(r)
  \/ \E c \in DOMAIN conn : CreateOk(c) \/ CreateFails(c)
  \/ \E j \in Sweeps : Sweeping(j)
  \/ \E ok \in BOOLEAN : PingSettles(ok)
  \/ Draining
  \/ Clearing

Spec == Init /\ [][Next]_vars

-----------------------------------------------------------------------------
(* Properties.                                                             *)

\* Every variable has its type.
TypeOK ==
  /\ req \in [Reqs -> [st : {"new", "pending", "held", "returned", "failed"},
                       conn : 0..nconn]]
  /\ conn \in Seq(     [st : {"creating"}, inUse : {FALSE}, arr : 1..nconn, pend : Reqs]
               \union [st : {"live", "closed"}, inUse : BOOLEAN, arr : {0}, pend : {None}])
  /\ nconn <= MaxConn
  /\ poolArr \in [Conn -> Seq(1..nconn)]
  /\ curPool \in 0..nconn
  /\ pendArr \in [Reqs -> Seq(Reqs)]
  /\ curPend \in Reqs \union {None}
  /\ sweep \in [Sweeps -> [pc : {"idle", "next", "ping", "close"}, todo : Seq(1..nconn),
                           cur : 0..nconn, again : BOOLEAN]]
  /\ draining \in [pc : {"idle", "wait", "close", "walk", "next"}, arr : 0..nconn,
                    k : Nat, cur : 0..nconn, again : BOOLEAN, targets : SUBSET Conn]
  /\ clearing \in [pc : {"idle", "close"}, left : SUBSET Conn]

Lease == INSTANCE ConnectionLease WITH Conns <- Conn, queue <- Waiting, lease <- req

\* Whatever is created, lost, swept, drained or cleared, requests are served in
\* the order they came, each settles once, and no connection has two holders.
ImplementsLease == Lease!Spec

\* Every unsettled request is in the pending array that release() looks at, and
\* no settled one is: neither a timeout nor clear() cuts anybody else off.  The
\* types are part of it.
PendingIsQueued ==
  /\ TypeOK
  /\ IsInjective(Waiting)
  /\ ToSet(Waiting) = {r \in Reqs : req[r].st = "pending"}

\* README, protocol-ucp: maxConnectionsPerTarget is the maximal number of
\* connections of each target.
PoolWithinLimit ==
  Cardinality({c \in DOMAIN conn : conn[c].st = "live"}) <= MaxConnections

\* README, protocol-ucp: idleTimeout is for idle connections, so no connection
\* that somebody holds is disconnected by a sweep.
HeldIsOpen == \A r \in Reqs : req[r].st = "held" => conn[req[r].conn].st = "live"

\* drain(): "close the remaining connections by force".  The connections that
\* are in use when it gives up waiting are not in use when it returns.
DrainClosesAll ==
  [][draining.pc = "next" /\ draining'.pc = "idle"
       => \A c \in draining.targets : ~(conn[c].st = "live" /\ conn[c].inUse)]_vars
=============================================================================
