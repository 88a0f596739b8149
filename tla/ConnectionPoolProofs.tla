------------------------ MODULE ConnectionPoolProofs ------------------------
(***************************************************************************)
(* Theorems about ConnectionPool, for any number of requests and           *)
(* connections, any limits and any of the sweeps and shutdowns in use:     *)
(* every pending request is queued, and the pool implements the abstract   *)
(* lease.                                                                  *)
(***************************************************************************)
EXTENDS ConnectionPool, SequenceLemmas

-----------------------------------------------------------------------------
(* The requests and their arrays, as the steps of processAcquisition() see *)
(* them: requests rq, pending arrays q with entry cp.                      *)

RequestOf(n) == [st : {"new", "pending", "held", "returned", "failed"}, conn : 0..n]

WaitingIn(q, cp) == IF cp = None THEN <<>> ELSE q[cp]

\* The array of the entry lists the pending requests, each once.
ListsPending(rq, q, cp) ==
  /\ IsInjective(WaitingIn(q, cp))
  /\ ToSet(WaitingIn(q, cp)) = {r \in Reqs : rq[r].st = "pending"}

\* A request that is to come has no array yet, and an array that the map has no
\* more holds only requests that have settled: a creation that began under it
\* finds nobody there to serve.
ArraysAreSettled(rq, q, cp) ==
  /\ \A r \in Reqs : rq[r].st = "new" => q[r] = <<>> /\ cp # r
  /\ \A p \in Reqs : p # cp => \A r \in ToSet(q[p]) : rq[r].st \notin {"new", "pending"}

Queued(rq, q, cp) == ListsPending(rq, q, cp) /\ ArraysAreSettled(rq, q, cp)

\* The same with the types, for n connections.
QueueInv(n, rq, q, cp) ==
  /\ rq \in [Reqs -> RequestOf(n)]
  /\ q \in [Reqs -> Seq(Reqs)]
  /\ cp \in Reqs \union {None}
  /\ Queued(rq, q, cp)

\* f with x in place of f[i], and what becomes of a request that x settles
With(f, i, x) == [f EXCEPT ![i] = x]
Settled(rq, r, x) == IF rq[r].st = "pending" THEN With(rq, r, x) ELSE rq

\* shift() of an array, and what its caller does with the request: the one of the
\* entry's array that waited longest, or one that has settled already and stays
\* as it is.
LEMMA HeadLeaves ==
  ASSUME NEW n, NEW rq, NEW q, NEW cp, QueueInv(n, rq, q, cp),
         NEW p \in Reqs, q[p] # <<>>,
         NEW x \in RequestOf(n), x.st \notin {"new", "pending"},
         NEW rq2, rq2 = Settled(rq, Head(q[p]), x),
         NEW q2, q2 = With(q, p, Tail(q[p]))
  PROVE  /\ QueueInv(n, rq2, q2, cp)
         /\ \/ /\ p = cp
               /\ rq[Head(q[p])].st = "pending"
               /\ rq2 = With(rq, Head(q[p]), x)
               /\ WaitingIn(q2, cp) = Tail(WaitingIn(q, cp))
            \/ /\ p # cp
               /\ rq2 = rq
               /\ WaitingIn(q2, cp) = WaitingIn(q, cp)
<1> USE DEF With, Settled, QueueInv
<1> DEFINE h == Head(q[p])
<1>1. q[p] \in Seq(Reqs)
  OBVIOUS
<1>2. /\ h \in Reqs /\ h \in ToSet(q[p]) /\ Tail(q[p]) \in Seq(Reqs)
      /\ Tail(q[p]) = RemoveFirst(q[p], h)
      /\ ToSet(Tail(q[p])) \subseteq ToSet(q[p])
  BY <1>1, TailIsRemoveFirst, ToSetType, RemoveFirstKeeps
<1> HIDE DEF h
<1>3. /\ rq2 = IF rq[h].st = "pending" THEN [rq EXCEPT ![h] = x] ELSE rq
      /\ rq2 \in [Reqs -> RequestOf(n)]
      /\ q2 \in [Reqs -> Seq(Reqs)]
  BY <1>2 DEF h
<1>4. /\ q2[p] = Tail(q[p])
      /\ \A o \in Reqs : o # p => q2[o] = q[o]
      /\ \A o \in Reqs : ToSet(q2[o]) \subseteq ToSet(q[o])
  BY <1>2
<1>5. \A r \in Reqs : /\ r # h => rq2[r] = rq[r]
                      /\ rq2[r].st \in {"new", "pending"} => rq2[r] = rq[r]
  BY <1>2, <1>3
<1>6. ArraysAreSettled(rq2, q2, cp)
  <2>1. ASSUME NEW r \in Reqs, rq2[r].st = "new" PROVE q2[r] = <<>> /\ cp # r
    <3>1. rq[r].st = "new" /\ q[r] = <<>> /\ cp # r
      BY <1>5, <2>1 DEF Queued, ArraysAreSettled
    <3> QED
      BY <1>4, <3>1
  <2>2. ASSUME NEW o \in Reqs, o # cp, NEW r \in ToSet(q2[o])
        PROVE  rq2[r].st \notin {"new", "pending"}
    <3>1. r \in ToSet(q[o]) /\ r \in Reqs /\ rq[r].st \notin {"new", "pending"}
      BY <1>4, <2>2, ToSetType DEF Queued, ArraysAreSettled
    <3> QED
      BY <1>5, <3>1
  <2> QED
    BY <2>1, <2>2 DEF ArraysAreSettled
<1>7. CASE p = cp
  <2>1. cp # None
    BY <1>7, PoolAssumption
  <2>2. WaitingIn(q, cp) = q[p] /\ WaitingIn(q2, cp) = Tail(q[p])
    BY <1>4, <1>7, <2>1 DEF WaitingIn
  <2>3. IsInjective(q[p]) /\ ToSet(q[p]) = {r \in Reqs : rq[r].st = "pending"}
    BY <2>2 DEF Queued, ListsPending
  <2>4. rq[h].st = "pending" /\ rq2 = [rq EXCEPT ![h] = x]
    BY <1>2, <1>3, <2>3
  <2>5. IsInjective(Tail(q[p])) /\ ToSet(Tail(q[p])) = ToSet(q[p]) \ {h}
    <3>1. /\ IsInjective(RemoveFirst(q[p], h))
          /\ ToSet(RemoveFirst(q[p], h)) = ToSet(q[p]) \ {h}
      BY <1>1, <1>2, <2>3, RemoveInjectively
    <3> QED
      BY <1>2, <3>1
  <2>6. {r \in Reqs : rq2[r].st = "pending"} = {r \in Reqs : rq[r].st = "pending"} \ {h}
    BY <1>2, <2>4
  <2>7. ListsPending(rq2, q2, cp)
    BY <2>2, <2>3, <2>5, <2>6 DEF ListsPending
  <2>8. rq[Head(q[p])].st = "pending" /\ rq2 = [rq EXCEPT ![Head(q[p])] = x]
    BY <2>4 DEF h
  <2> QED
    BY <1>3, <1>6, <1>7, <2>2, <2>7, <2>8 DEF Queued
<1>8. CASE p # cp
  <2>1. rq[h].st \notin {"new", "pending"}
    BY <1>2, <1>8 DEF Queued, ArraysAreSettled
  <2>2. rq2 = rq
    BY <1>3, <2>1
  <2>3. WaitingIn(q2, cp) = WaitingIn(q, cp)
    BY <1>4, <1>8 DEF WaitingIn
  <2> QED
    BY <1>3, <1>6, <1>8, <2>2, <2>3 DEF Queued, ListsPending
<1> QED
  BY <1>7, <1>8

\* addPendingAcquisition(): the array of the entry, or a new one, gets a request.
LEMMA NewIsQueued ==
  ASSUME NEW n, NEW rq, NEW q, NEW cp, QueueInv(n, rq, q, cp),
         NEW r \in Reqs, rq[r].st = "new",
         NEW cp2, cp2 = IF cp = None THEN r ELSE cp,
         NEW rq2, rq2 = With(rq, r, [st |-> "pending", conn |-> rq[r].conn]),
         NEW q2, q2 = With(q, cp2, Append(q[cp2], r))
  PROVE  /\ QueueInv(n, rq2, q2, cp2)
         /\ cp2 \in Reqs
         /\ WaitingIn(q2, cp2) = Append(WaitingIn(q, cp), r)
<1> USE DEF With, QueueInv
<1>1. cp2 \in Reqs /\ cp2 # None /\ (cp # None => cp2 = cp) /\ (cp = None => cp2 = r)
  BY PoolAssumption
<1> DEFINE w == WaitingIn(q, cp)
<1>2. q[r] = <<>> /\ cp # r
  BY DEF Queued, ArraysAreSettled
<1>3. q[cp2] = w /\ w \in Seq(Reqs)
  BY <1>1, <1>2 DEF WaitingIn
<1>4. IsInjective(w) /\ ToSet(w) = {s \in Reqs : rq[s].st = "pending"} /\ r \notin ToSet(w)
  BY DEF Queued, ListsPending
<1> HIDE DEF w
<1>5. /\ Append(w, r) \in Seq(Reqs) /\ IsInjective(Append(w, r))
      /\ ToSet(Append(w, r)) = ToSet(w) \union {r}
  BY <1>3, <1>4, AppendInjectively, AppendToSet
<1>6. /\ q2 \in [Reqs -> Seq(Reqs)] /\ q2[cp2] = Append(w, r)
      /\ \A o \in Reqs : o # cp2 => q2[o] = q[o]
  BY <1>1, <1>3, <1>5
<1>7. /\ rq2 \in [Reqs -> RequestOf(n)] /\ rq2[r].st = "pending"
      /\ \A o \in Reqs : o # r => rq2[o] = rq[o]
  BY DEF RequestOf
<1>8. WaitingIn(q2, cp2) = Append(w, r)
  BY <1>1, <1>6 DEF WaitingIn
<1>9. ListsPending(rq2, q2, cp2)
  <2>1. {s \in Reqs : rq2[s].st = "pending"} = {s \in Reqs : rq[s].st = "pending"} \union {r}
    BY <1>7
  <2> QED
    BY <1>4, <1>5, <1>8, <2>1 DEF ListsPending
<1>10. ArraysAreSettled(rq2, q2, cp2)
  <2>1. ASSUME NEW s \in Reqs, rq2[s].st = "new" PROVE q2[s] = <<>> /\ cp2 # s
    <3>1. s # r /\ rq[s].st = "new"
      BY <1>7, <2>1
    <3>2. q[s] = <<>> /\ cp # s
      BY <3>1 DEF Queued, ArraysAreSettled
    <3> QED
      BY <1>1, <1>6, <3>1, <3>2
  <2>2. ASSUME NEW o \in Reqs, o # cp2, NEW s \in ToSet(q2[o])
        PROVE  rq2[s].st \notin {"new", "pending"}
    <3>1. s \in ToSet(q[o]) /\ q[o] \in Seq(Reqs)
      BY <1>6, <2>2
    <3>2. o # cp
      BY <1>1, <2>2, PoolAssumption
    <3>3. s \in Reqs /\ rq[s].st \notin {"new", "pending"}
      BY <3>1, <3>2, ToSetType DEF Queued, ArraysAreSettled
    <3> QED
      BY <1>7, <3>3
  <2> QED
    BY <2>1, <2>2 DEF ArraysAreSettled
<1> QED
  BY <1>1, <1>6, <1>7, <1>8, <1>9, <1>10 DEF Queued, w

\* removePendingAcquisition() and the rejection by the timer: the entry goes with the
\* last request of its array.
LEMMA TimedOutLeaves ==
  ASSUME NEW n, NEW rq, NEW q, NEW cp, QueueInv(n, rq, q, cp),
         NEW r \in Reqs, rq[r].st = "pending",
         NEW cp2, cp2 = IF Len(WaitingIn(q, cp)) = 1 THEN None ELSE cp,
         NEW rq2, rq2 = With(rq, r, [st |-> "failed", conn |-> rq[r].conn]),
         NEW q2, q2 = With(q, cp, RemoveFirst(q[cp], r))
  PROVE  /\ QueueInv(n, rq2, q2, cp2)
         /\ WaitingIn(q2, cp2) = RemoveFirst(WaitingIn(q, cp), r)
<1> USE DEF With, QueueInv
<1> DEFINE w == WaitingIn(q, cp)
<1>1. IsInjective(w) /\ ToSet(w) = {s \in Reqs : rq[s].st = "pending"} /\ r \in ToSet(w)
  BY DEF Queued, ListsPending
<1>2. cp \in Reqs /\ q[cp] = w /\ w \in Seq(Reqs)
  <2>1. ToSet(<<>>) = {}
    BY DEF ToSet
  <2> QED
    BY <1>1, <2>1 DEF WaitingIn
<1> HIDE DEF w
<1> DEFINE v == RemoveFirst(w, r)
<1>3. /\ v \in Seq(Reqs) /\ IsInjective(v) /\ ToSet(v) = ToSet(w) \ {r}
      /\ Len(v) = Len(w) - 1 /\ Len(w) \in Nat
  BY <1>1, <1>2, RemoveInjectively
<1>4. /\ q2 \in [Reqs -> Seq(Reqs)] /\ q2[cp] = v
      /\ \A o \in Reqs : o # cp => q2[o] = q[o]
  BY <1>2, <1>3
<1> HIDE DEF v
<1>5. /\ rq2 \in [Reqs -> RequestOf(n)] /\ rq2[r].st = "failed"
      /\ \A o \in Reqs : o # r => rq2[o] = rq[o]
  BY DEF RequestOf
<1>6. cp2 = IF Len(w) = 1 THEN None ELSE cp
  BY DEF w
<1>7. Len(w) = 1 => v = <<>> /\ ToSet(v) = {}
  <2>1. SUFFICES ASSUME Len(w) = 1 PROVE v = <<>> /\ ToSet(v) = {}
    OBVIOUS
  <2>2. v = <<>>
    BY <1>3, <2>1
  <2> QED
    BY <2>2 DEF ToSet
<1>8. WaitingIn(q2, cp2) = v
  BY <1>2, <1>4, <1>6, <1>7, PoolAssumption DEF WaitingIn
<1>9. ListsPending(rq2, q2, cp2)
  <2>1. {s \in Reqs : rq2[s].st = "pending"} = {s \in Reqs : rq[s].st = "pending"} \ {r}
    BY <1>5
  <2> QED
    BY <1>1, <1>3, <1>8, <2>1 DEF ListsPending
<1>10. ArraysAreSettled(rq2, q2, cp2)
  <2>1. ASSUME NEW s \in Reqs, rq2[s].st = "new" PROVE q2[s] = <<>> /\ cp2 # s
    <3>1. s # r /\ rq[s].st = "new"
      BY <1>5, <2>1
    <3>2. q[s] = <<>> /\ cp # s
      BY <3>1 DEF Queued, ArraysAreSettled
    <3> QED
      BY <1>4, <1>6, <3>2, PoolAssumption
  <2>2. ASSUME NEW o \in Reqs, o # cp2, NEW s \in ToSet(q2[o])
        PROVE  rq2[s].st \notin {"new", "pending"}
    <3>1. o # cp
      <4> SUFFICES ASSUME o = cp PROVE FALSE
        OBVIOUS
      <4>1. Len(w) = 1
        BY <1>6, <2>2
      <4> QED
        BY <1>4, <1>7, <2>2, <4>1
    <3>2. s \in ToSet(q[o]) /\ q[o] \in Seq(Reqs)
      BY <1>4, <2>2, <3>1
    <3>3. s \in Reqs /\ rq[s].st \notin {"new", "pending"}
      BY <3>1, <3>2, ToSetType DEF Queued, ArraysAreSettled
    <3> QED
      BY <1>5, <3>3
  <2> QED
    BY <2>1, <2>2 DEF ArraysAreSettled
<1> QED
  BY <1>2, <1>4, <1>5, <1>6, <1>8, <1>9, <1>10 DEF Queued, v, w

\* clear() rejects the requests of the entry, which are all that are pending, and
\* forgets the entry.
LEMMA AllLeave ==
  ASSUME NEW n, NEW rq, NEW q, NEW cp, QueueInv(n, rq, q, cp),
         NEW rq2, rq2 = [r \in Reqs |-> IF r \in ToSet(WaitingIn(q, cp))
                                        THEN Rejected(rq, r)[r] ELSE rq[r]]
  PROVE  /\ QueueInv(n, rq2, q, None)
         /\ rq2 = [r \in Reqs |-> IF rq[r].st = "pending"
                                  THEN [rq[r] EXCEPT !.st = "failed"] ELSE rq[r]]
<1> USE DEF QueueInv
<1> DEFINE all == [r \in Reqs |-> IF rq[r].st = "pending"
                                  THEN [rq[r] EXCEPT !.st = "failed"] ELSE rq[r]]
<1>1. rq2 = all
  <2>1. \A r \in Reqs : r \in ToSet(WaitingIn(q, cp)) <=> rq[r].st = "pending"
    BY DEF Queued, ListsPending
  <2>2. \A r \in Reqs : rq[r].st = "pending" => Rejected(rq, r)[r] = [rq[r] EXCEPT !.st = "failed"]
    BY DEF Rejected, RequestOf
  <2> QED
    BY <2>1, <2>2
<1>2. all \in [Reqs -> RequestOf(n)]
  BY DEF RequestOf
<1>3. \A r \in Reqs : /\ all[r].st # "pending"
                      /\ all[r].st = "new" => rq[r].st = "new"
  BY DEF RequestOf
<1> HIDE DEF all
<1>4. ToSet(<<>>) = {} /\ IsInjective(<<>>)
  BY DEF ToSet, IsInjective
<1>5. ListsPending(all, q, None)
  BY <1>3, <1>4 DEF ListsPending, WaitingIn
<1>6. ArraysAreSettled(all, q, None)
  <2>1. ASSUME NEW o \in Reqs, NEW s \in ToSet(q[o])
        PROVE  all[s].st \notin {"new", "pending"}
    <3>1. q[o] \in Seq(Reqs) /\ s \in Reqs
      BY <2>1, ToSetType
    <3>2. rq[s].st # "new"
      <4>1. CASE o # cp
        BY <2>1, <4>1 DEF Queued, ArraysAreSettled
      <4>2. CASE o = cp
        <5>1. s \in ToSet(WaitingIn(q, cp))
          BY <2>1, <4>2, PoolAssumption DEF WaitingIn
        <5> QED
          BY <5>1 DEF Queued, ListsPending
      <4> QED
        BY <4>1, <4>2
    <3> QED
      BY <1>3, <3>1, <3>2
  <2>2. ASSUME NEW r \in Reqs, all[r].st = "new" PROVE q[r] = <<>> /\ None # r
    BY <1>3, <2>2, PoolAssumption DEF Queued, ArraysAreSettled
  <2> QED
    BY <2>1, <2>2 DEF ArraysAreSettled
<1> QED
  BY <1>1, <1>2, <1>5, <1>6 DEF Queued, all

\* A request that was served is not queued, whatever becomes of it.
LEMMA ServedIsNotQueued ==
  ASSUME NEW n, NEW rq, NEW q, NEW cp, QueueInv(n, rq, q, cp),
         NEW r \in Reqs, rq[r].st = "held",
         NEW rq2, rq2 = With(rq, r, [st |-> "returned", conn |-> 0]), n \in Nat
  PROVE  QueueInv(n, rq2, q, cp)
<1> USE DEF With, QueueInv
<1>1. /\ rq2 \in [Reqs -> RequestOf(n)] /\ rq2[r].st = "returned"
      /\ \A o \in Reqs : o # r => rq2[o] = rq[o]
  BY DEF RequestOf
<1>2. {s \in Reqs : rq2[s].st = "pending"} = {s \in Reqs : rq[s].st = "pending"}
  BY <1>1
<1>3. ListsPending(rq2, q, cp)
  BY <1>2 DEF Queued, ListsPending
<1>4. ArraysAreSettled(rq2, q, cp)
  <2>1. ASSUME NEW o \in Reqs, o # cp, NEW s \in ToSet(q[o])
        PROVE  rq2[s].st \notin {"new", "pending"}
    <3>1. q[o] \in Seq(Reqs) /\ s \in Reqs
      BY <2>1, ToSetType
    <3>2. rq[s].st \notin {"new", "pending"}
      BY <2>1 DEF Queued, ArraysAreSettled
    <3> QED
      BY <1>1, <3>1, <3>2
  <2>2. ASSUME NEW s \in Reqs, rq2[s].st = "new" PROVE q[s] = <<>> /\ cp # s
    BY <1>1, <2>2 DEF Queued, ArraysAreSettled
  <2> QED
    BY <2>1, <2>2 DEF ArraysAreSettled
<1> QED
  BY <1>1, <1>3, <1>4 DEF Queued

-----------------------------------------------------------------------------
(* The inductive invariant.                                                *)

\* The connections, of which n exist.
CreatingRecord(n) == [st : {"creating"}, inUse : {FALSE}, arr : 1..n, pend : Reqs]
CreatedRecord == [st : {"live", "closed"}, inUse : BOOLEAN, arr : {0}, pend : {None}]
ConnRecord(n) == CreatingRecord(n) \union CreatedRecord

\* The connections whose creation has ended: only these may be in a pool array,
\* be held, or wait to be disconnected.
Created(cn) == {c \in DOMAIN cn : cn[c].st # "creating"}

\* A held connection is marked as in use, so that nobody finds it idle, and has one
\* holder.
Leased(rq, cn) ==
  /\ \A r \in Reqs : rq[r].st = "held" => /\ rq[r].conn \in Created(cn)
                                          /\ cn[rq[r].conn].inUse
  /\ \A r, s \in Reqs :
       rq[r].st = "held" /\ rq[s].st = "held" /\ rq[r].conn = rq[s].conn => r = s


ConnsInv(cn) == cn \in Seq(ConnRecord(Len(cn))) /\ Len(cn) \in Nat

RequestsInv(rq, q, cp, cn) ==
  QueueInv(Len(cn), rq, q, cp) /\ ConnsInv(cn) /\ Len(cn) <= MaxConn /\ Leased(rq, cn)

\* Of n connections those in C are created: the pool arrays list no others.
ArraysInv(pa, cur, n, C) == pa \in [Conn -> Seq(C)] /\ cur \in 0..n

\* Nor does a sweep, drain() or clear() ping or disconnect any other.
SweepRecord(C) ==
         [pc : {"idle", "next"}, todo : Seq(C), cur : C \union {0}, again : BOOLEAN]
  \union [pc : {"ping", "close"}, todo : Seq(C), cur : C, again : BOOLEAN]
DrainRecord(n, C) ==
         [pc : {"idle", "wait", "next"}, arr : {0}, k : Nat, cur : {0}, again : BOOLEAN,
          targets : SUBSET Conn]
  \union [pc : {"close"}, arr : 1..n, k : Nat \ {0}, cur : C, again : BOOLEAN,
          targets : SUBSET Conn]
  \union [pc : {"walk"}, arr : 1..n, k : Nat \ {0}, cur : {0}, again : BOOLEAN,
          targets : SUBSET Conn]
ClearRecord(C) == [pc : {"idle", "close"}, left : SUBSET C]

JobsInv(sw, dr, cl, n, C) ==
  /\ sw \in [Sweeps -> SweepRecord(C)]
  /\ dr \in DrainRecord(n, C)
  /\ cl \in ClearRecord(C)

PoolInv ==
  /\ RequestsInv(req, pendArr, curPend, conn)
  /\ ArraysInv(poolArr, curPool, Len(conn), Created(conn))
  /\ JobsInv(sweep, draining, clearing, Len(conn), Created(conn))

-----------------------------------------------------------------------------
(* What the steps do to the connections.                                   *)

\* A connection is created or under creation, and its record tells.
LEMMA ConnRecords ==
  ASSUME NEW cn, ConnsInv(cn), NEW c \in DOMAIN cn
  PROVE  /\ c \in 1..Len(cn)
         /\ c \in Created(cn) => cn[c] \in CreatedRecord
         /\ c \notin Created(cn) => cn[c] \in CreatingRecord(Len(cn))
<1>1. c \in 1..Len(cn) /\ cn[c] \in ConnRecord(Len(cn))
  BY DEF ConnsInv
<1> QED
  BY <1>1 DEF Created, ConnRecord, CreatingRecord, CreatedRecord

\* A step that writes only to a created connection leaves the others as they are.
LEMMA CreatedChanges ==
  ASSUME NEW cn, ConnsInv(cn), NEW c \in Created(cn),
         NEW x \in CreatedRecord, NEW cn2, cn2 = With(cn, c, x)
  PROVE  /\ ConnsInv(cn2)
         /\ Len(cn2) = Len(cn)
         /\ Created(cn2) = Created(cn)
         /\ cn2[c] = x /\ \A d \in DOMAIN cn : d # c => cn2[d] = cn[d]
<1> DEFINE n == Len(cn)
<1>1. /\ c \in 1..n /\ x \in ConnRecord(n) /\ x.st # "creating" /\ DOMAIN cn = 1..n
      /\ cn \in Seq(ConnRecord(n)) /\ n \in Nat
  BY DEF Created, ConnRecord, CreatedRecord, ConnsInv
<1>2. /\ cn2 \in Seq(ConnRecord(n))
      /\ Len(cn2) = n
      /\ \A j \in 1..n : cn2[j] = IF j = c THEN x ELSE cn[j]
  BY <1>1, ExceptSeq DEF With
<1>3. DOMAIN cn2 = 1..n
  BY <1>2
<1>4. Created(cn2) = Created(cn)
  BY <1>1, <1>2, <1>3 DEF Created
<1> QED
  BY <1>1, <1>2, <1>4 DEF ConnsInv

\* A connection with its inUse changed.
Marked(z, b) == [st |-> z.st, inUse |-> b, arr |-> z.arr, pend |-> z.pend]

\* Marking a created connection keeps it one.
LEMMA MarkedRecord ==
  ASSUME NEW cn, NEW c \in DOMAIN cn, cn[c] \in CreatedRecord, NEW b \in BOOLEAN
  PROVE  /\ Marked(cn[c], b) \in CreatedRecord /\ Marked(cn[c], b).inUse = b
         /\ [cn EXCEPT ![c].inUse = b] = With(cn, c, Marked(cn[c], b))
<1>1. Marked(cn[c], b) \in CreatedRecord /\ Marked(cn[c], b).inUse = b
  BY DEF Marked, CreatedRecord
<1>2. [cn[c] EXCEPT !.inUse = b] = Marked(cn[c], b)
  BY DEF Marked, CreatedRecord
<1> QED
  BY <1>1, <1>2 DEF With

\* Connections that are created stay created, so that what names one keeps its type.
LEMMA MoreConnections ==
  ASSUME NEW n \in Nat, NEW m \in Nat, n <= m, NEW C, NEW D, C \subseteq D
  PROVE  /\ \A pa, cur : ArraysInv(pa, cur, n, C) => ArraysInv(pa, cur, m, D)
         /\ \A sw, dr, cl : JobsInv(sw, dr, cl, n, C) => JobsInv(sw, dr, cl, m, D)
<1>1. Seq(C) \subseteq Seq(D)
  BY WiderSeq
<1>2. 0..n \subseteq 0..m /\ 1..n \subseteq 1..m
  OBVIOUS
<1>3. SweepRecord(C) \subseteq SweepRecord(D)
  BY <1>1 DEF SweepRecord
<1>4. DrainRecord(n, C) \subseteq DrainRecord(m, D)
  BY <1>2 DEF DrainRecord
<1>5. ClearRecord(C) \subseteq ClearRecord(D)
  BY DEF ClearRecord
<1>6. ASSUME NEW pa, NEW cur, ArraysInv(pa, cur, n, C) PROVE ArraysInv(pa, cur, m, D)
  BY <1>1, <1>2, <1>6 DEF ArraysInv
<1>7. ASSUME NEW sw, NEW dr, NEW cl, JobsInv(sw, dr, cl, n, C)
      PROVE  JobsInv(sw, dr, cl, m, D)
  BY <1>3, <1>4, <1>5, <1>7 DEF JobsInv
<1> QED
  BY <1>6, <1>7

\* The array of the pool lists created connections.
LEMMA PoolIsCreated ==
  ASSUME PoolInv
  PROVE  /\ Len(conn) \in Nat /\ Created(conn) \subseteq 1..Len(conn)
         /\ 1..Len(conn) \subseteq Conn
         /\ Pool \in Seq(Created(conn)) /\ ToSet(Pool) \subseteq Created(conn)
<1>1. /\ conn \in Seq(ConnRecord(Len(conn))) /\ Len(conn) <= MaxConn
      /\ ArraysInv(poolArr, curPool, Len(conn), Created(conn))
  BY DEF PoolInv, RequestsInv, ConnsInv
<1>2. Len(conn) \in Nat /\ DOMAIN conn = 1..Len(conn)
  BY <1>1
<1>3. Created(conn) \subseteq 1..Len(conn) /\ 1..Len(conn) \subseteq Conn
  BY <1>1, <1>2, PoolAssumption DEF Created, Conn
<1>4. Pool \in Seq(Created(conn))
  BY <1>1, <1>2, <1>3, EmptySeq DEF Pool, ArraysInv
<1> QED
  BY <1>2, <1>3, <1>4, ToSetType

\* The invariant includes the types, and what is claimed of the requests.
LEMMA InvGivesQueue ==
  ASSUME PoolInv PROVE PendingIsQueued
<1>1. /\ Len(conn) \in Nat /\ Created(conn) \subseteq 1..Len(conn)
      /\ 1..Len(conn) \subseteq Conn
  BY PoolIsCreated
<1> DEFINE N == 1..Len(conn)
<1>2. Seq(Created(conn)) \subseteq Seq(N)
  BY <1>1, WiderSeq
<1>3. /\ req \in [Reqs -> RequestOf(nconn)]
      /\ conn \in Seq(CreatingRecord(nconn) \union CreatedRecord)
      /\ nconn <= MaxConn
      /\ pendArr \in [Reqs -> Seq(Reqs)]
      /\ curPend \in Reqs \union {None}
  BY DEF PoolInv, RequestsInv, QueueInv, ConnsInv, nconn, ConnRecord
<1>4. poolArr \in [Conn -> Seq(1..nconn)] /\ curPool \in 0..nconn
  BY <1>2 DEF PoolInv, ArraysInv, nconn
<1>5. sweep \in [Sweeps -> [pc : {"idle", "next", "ping", "close"}, todo : Seq(1..nconn),
                            cur : 0..nconn, again : BOOLEAN]]
  <2>1. SweepRecord(Created(conn)) \subseteq
          [pc : {"idle", "next", "ping", "close"}, todo : Seq(N),
           cur : 0..Len(conn), again : BOOLEAN]
    BY <1>1, <1>2 DEF SweepRecord
  <2> QED
    BY <2>1 DEF PoolInv, JobsInv, nconn
<1>6. draining \in [pc : {"idle", "wait", "close", "walk", "next"}, arr : 0..nconn,
                    k : Nat, cur : 0..nconn, again : BOOLEAN, targets : SUBSET Conn]
  <2>1. DrainRecord(Len(conn), Created(conn)) \subseteq
          [pc : {"idle", "wait", "close", "walk", "next"}, arr : 0..Len(conn),
           k : Nat, cur : 0..Len(conn), again : BOOLEAN, targets : SUBSET Conn]
    BY <1>1 DEF DrainRecord
  <2> QED
    BY <2>1 DEF PoolInv, JobsInv, nconn
<1>7. clearing \in [pc : {"idle", "close"}, left : SUBSET Conn]
  BY <1>1 DEF PoolInv, JobsInv, ClearRecord
<1>8. TypeOK
  BY <1>3, <1>4, <1>5, <1>6, <1>7 DEF TypeOK, RequestOf, CreatingRecord, CreatedRecord
<1>9. Waiting = WaitingIn(pendArr, curPend)
  BY DEF Waiting, WaitingIn
<1> QED
  BY <1>8, <1>9 DEF PendingIsQueued, PoolInv, RequestsInv, QueueInv, Queued, ListsPending

\* Who was served holds a connection that nobody held, and marked it.
LEMMA LentToOne ==
  ASSUME NEW n, NEW rq, NEW q, NEW cp, QueueInv(n, rq, q, cp),
         NEW cn, NEW cn2, Leased(rq, cn), NEW h \in Reqs, NEW c \in Created(cn2), cn2[c].inUse,
         \A r \in Reqs : rq[r].st = "held" => rq[r].conn # c,
         Created(cn) \subseteq Created(cn2),
         \A d \in Created(cn) : d # c => cn2[d] = cn[d]
  PROVE  Leased(With(rq, h, [st |-> "held", conn |-> c]), cn2)
<1> DEFINE rq2 == With(rq, h, [st |-> "held", conn |-> c])
<1>1. rq2[h].st = "held" /\ rq2[h].conn = c /\ \A r \in Reqs : r # h => rq2[r] = rq[r]
  BY DEF With, QueueInv
<1> HIDE DEF rq2
<1>2. ASSUME NEW r \in Reqs, rq2[r].st = "held"
      PROVE  rq2[r].conn \in Created(cn2) /\ cn2[rq2[r].conn].inUse
  <2>1. CASE r = h
    BY <1>1, <2>1
  <2>2. CASE r # h
    <3>1. rq2[r] = rq[r] /\ rq[r].conn \in Created(cn) /\ cn[rq[r].conn].inUse /\ rq[r].conn # c
      BY <1>1, <1>2, <2>2 DEF Leased
    <3> QED
      BY <3>1
  <2> QED
    BY <2>1, <2>2
<1>3. ASSUME NEW r \in Reqs, NEW s \in Reqs,
             rq2[r].st = "held", rq2[s].st = "held", rq2[r].conn = rq2[s].conn
      PROVE  r = s
  BY <1>1, <1>3 DEF Leased
<1> QED
  BY <1>2, <1>3 DEF Leased, rq2

\* Who does not hold, or holds what it held, does not disturb the others.
LEMMA StillLeased ==
  ASSUME NEW rq, NEW cn, NEW rq2, NEW cn2, Leased(rq, cn), Created(cn) \subseteq Created(cn2),
         \A r \in Reqs : rq2[r].st = "held" => /\ rq2[r] = rq[r]
                                               /\ cn2[rq[r].conn].inUse = cn[rq[r].conn].inUse
  PROVE  Leased(rq2, cn2)
<1>1. ASSUME NEW r \in Reqs, rq2[r].st = "held"
      PROVE  rq2[r].conn \in Created(cn2) /\ cn2[rq2[r].conn].inUse
  <2>1. rq2[r] = rq[r] /\ cn2[rq[r].conn].inUse = cn[rq[r].conn].inUse
    BY <1>1
  <2>2. rq[r].conn \in Created(cn) /\ cn[rq[r].conn].inUse
    BY <1>1, <2>1 DEF Leased
  <2> QED
    BY <2>1, <2>2
<1>2. ASSUME NEW r \in Reqs, NEW s \in Reqs,
             rq2[r].st = "held", rq2[s].st = "held", rq2[r].conn = rq2[s].conn
      PROVE  r = s
  BY <1>2 DEF Leased
<1> QED
  BY <1>1, <1>2 DEF Leased

\* A new creation leaves the created connections as they are.
LEMMA CreationBegins ==
  ASSUME NEW cn, ConnsInv(cn),
         NEW x \in CreatingRecord(Len(cn) + 1), NEW cn2, cn2 = Append(cn, x)
  PROVE  /\ ConnsInv(cn2) /\ Len(cn2) = Len(cn) + 1
         /\ Created(cn2) = Created(cn)
         /\ \A d \in DOMAIN cn : cn2[d] = cn[d]
<1> DEFINE n == Len(cn)
<1>0. cn \in Seq(ConnRecord(n)) /\ n \in Nat
  BY DEF ConnsInv
<1>1. ConnRecord(n) \subseteq ConnRecord(n + 1) /\ x \in ConnRecord(n + 1)
  <2>1. 1..n \subseteq 1..n + 1
    BY <1>0
  <2>2. CreatingRecord(n) \subseteq CreatingRecord(n + 1)
    BY <2>1 DEF CreatingRecord
  <2> QED
    BY <2>2 DEF ConnRecord
<1>2. cn \in Seq(ConnRecord(n + 1))
  BY <1>0, <1>1, WiderSeq
<1>3. /\ cn2 \in Seq(ConnRecord(n + 1)) /\ Len(cn2) = n + 1 /\ DOMAIN cn = 1..n
      /\ DOMAIN cn2 = 1..n + 1
      /\ \A d \in 1..n + 1 : cn2[d] = IF d = n + 1 THEN x ELSE cn[d]
  BY <1>0, <1>1, <1>2, AppendProperties
<1>4. x.st = "creating"
  BY DEF CreatingRecord
<1>5. Created(cn2) = Created(cn)
  BY <1>3, <1>4 DEF Created
<1> QED
  BY <1>0, <1>3, <1>5 DEF ConnsInv

-----------------------------------------------------------------------------
(* processAcquisition() up to its await.                                   *)

\* The same connections are created.
Alike(cn, cn2) == Len(cn) = Len(cn2) /\ Created(cn) = Created(cn2)

\* It may lend an idle connection to the request that waits longest, or begin to
\* create one.
LEMMA ProcessKeeps ==
  ASSUME PoolInv, NEW rq, NEW q, NEW cp, NEW cn, RequestsInv(rq, q, cp, cn),
         Alike(cn, conn), curPend' = cp, Process(rq, q, cp, cn)
  PROVE  /\ RequestsInv(req', pendArr', curPend', conn')
         /\ Len(conn) <= Len(conn') /\ Created(conn') = Created(conn)
         /\ Lease!Serve(WaitingIn(q, cp), rq)
<1> DEFINE n == Len(cn)
<1>1. QueueInv(n, rq, q, cp) /\ ConnsInv(cn) /\ n <= MaxConn /\ Leased(rq, cn)
  BY DEF RequestsInv
<1>2. /\ n \in Nat /\ n = Len(conn) /\ Created(cn) \subseteq 1..n /\ 1..n \subseteq Conn
      /\ ToSet(Pool) \subseteq Created(cn) /\ Created(cn) = Created(conn)
  BY PoolIsCreated DEF Alike
<1>3. Waiting' = WaitingIn(pendArr', cp)
  BY DEF Waiting, WaitingIn
<1>4. CASE NothingToDo(rq, q, cp, cn)
  <2>1. req' = rq /\ pendArr' = q /\ conn' = cn
    BY <1>4 DEF NothingToDo
  <2> QED
    BY <1>2, <1>3, <2>1 DEF Lease!Serve
<1>5. CASE cp # None /\ q[cp] # <<>> /\ TakeIdle(rq, q, cp, cn)
  <2> DEFINE h == Head(q[cp])
  <2>1. PICK c \in Idle(cn) : /\ req' = Resolved(rq, h, c)
                              /\ conn' = [cn EXCEPT ![c].inUse = TRUE]
                              /\ pendArr' = [q EXCEPT ![cp] = Tail(@)]
    BY <1>5 DEF TakeIdle
  <2>2. c \in Created(cn) /\ c \in 1..n /\ c \in Conn /\ ~cn[c].inUse
    BY <1>2 DEF Idle
  <2> DEFINE x == [st |-> "held", conn |-> c]
             y == Marked(cn[c], TRUE)
  <2>3. x \in RequestOf(n) /\ x.st \notin {"new", "pending"}
    BY <2>2 DEF RequestOf
  <2>4. req' = Settled(rq, h, x) /\ pendArr' = With(q, cp, Tail(q[cp]))
    BY <2>1 DEF Resolved, Settled, With
  <2>5. cp \in Reqs /\ h \in Reqs /\ WaitingIn(q, cp) = q[cp]
    <3>1. cp \in Reqs /\ q[cp] \in Seq(Reqs) /\ q[cp] # <<>>
      BY <1>1, <1>5 DEF QueueInv
    <3> QED
      BY <1>5, <3>1 DEF WaitingIn
  <2>6. /\ QueueInv(n, req', pendArr', cp)
        /\ req' = With(rq, h, x) /\ WaitingIn(pendArr', cp) = Tail(q[cp])
    <3> HIDE DEF x, n
    <3>1. QueueInv(n, rq, q, cp) /\ q[cp] # <<>> /\ cp \in Reqs
      BY <1>1, <1>5, <2>5
    <3>2. /\ QueueInv(n, req', pendArr', cp)
          /\ \/ /\ cp = cp
                /\ rq[Head(q[cp])].st = "pending"
                /\ req' = With(rq, Head(q[cp]), x)
                /\ WaitingIn(pendArr', cp) = Tail(WaitingIn(q, cp))
             \/ /\ cp # cp
                /\ req' = rq
                /\ WaitingIn(pendArr', cp) = WaitingIn(q, cp)
      BY <3>1, <2>3, <2>4, HeadLeaves
    <3> QED
      BY <3>2, <2>5
  <2>7. c \in DOMAIN cn /\ cn[c] \in CreatedRecord
    BY <1>1, <2>2, ConnRecords DEF Created
  <2>8. y \in CreatedRecord /\ y.inUse /\ conn' = With(cn, c, y)
    <3>1. PICK b \in BOOLEAN : b = TRUE
      OBVIOUS
    <3>2. /\ Marked(cn[c], b) \in CreatedRecord /\ Marked(cn[c], b).inUse = b
          /\ [cn EXCEPT ![c].inUse = b] = With(cn, c, Marked(cn[c], b))
      BY <2>7, MarkedRecord
    <3> QED
      BY <2>1, <3>1, <3>2
  <2>9. /\ ConnsInv(conn') /\ Len(conn') = n /\ Created(conn') = Created(cn)
        /\ conn'[c] = y /\ \A d \in DOMAIN cn : d # c => conn'[d] = cn[d]
    <3> HIDE DEF y
    <3> QED
      BY <1>1, <2>2, <2>8, CreatedChanges
  <2>10. \A r \in Reqs : rq[r].st = "held" => rq[r].conn # c
    BY <1>1, <2>2 DEF Leased
  <2>11. Leased(With(rq, h, x), conn')
    <3>1. c \in Created(conn') /\ conn'[c].inUse
      BY <2>2, <2>8, <2>9
    <3>2. \A d \in Created(cn) : d # c => conn'[d] = cn[d]
      BY <2>9 DEF Created
    <3>3. Created(cn) \subseteq Created(conn')
      BY <2>9
    <3> HIDE DEF h, n, y
    <3> QED
      BY <1>1, <2>5, <2>10, <3>1, <3>2, <3>3, LentToOne
  <2>12. RequestsInv(req', pendArr', cp, conn')
    BY <1>1, <2>6, <2>9, <2>11 DEF RequestsInv
  <2>13. req' = [rq EXCEPT ![h] = x]
    BY <2>6 DEF With
  <2>14. Lease!Serve(WaitingIn(q, cp), rq)
    BY <1>3, <1>5, <2>2, <2>5, <2>6, <2>10, <2>13 DEF Lease!Serve
  <2> QED
    BY <1>2, <2>9, <2>12, <2>14
<1>6. CASE cp # None /\ q[cp] # <<>> /\ StartCreate(rq, q, cp, cn)
  <2> DEFINE x == Creating(curPool, cp)
  <2>1. conn' = Append(cn, x) /\ req' = rq /\ pendArr' = q /\ n < MaxConn
    BY <1>2, <1>6 DEF StartCreate, nconn
  <2>2. x \in CreatingRecord(n + 1)
    <3>1. curPool \in 0..n
      BY <1>2 DEF PoolInv, ArraysInv
    <3> QED
      BY <1>1, <1>2, <1>6, <3>1 DEF Creating, CreatingRecord, nconn, QueueInv
  <2>3. /\ ConnsInv(conn') /\ Len(conn') = n + 1
        /\ Created(conn') = Created(cn)
        /\ \A d \in DOMAIN cn : conn'[d] = cn[d]
    <3> HIDE DEF x
    <3> QED
      BY <1>1, <2>1, <2>2, CreationBegins
  <2>4. QueueInv(n + 1, req', pendArr', cp)
    <3>1. RequestOf(n) \subseteq RequestOf(n + 1)
      BY <1>2 DEF RequestOf
    <3> QED
      BY <1>1, <2>1, <3>1 DEF QueueInv
  <2>5. Leased(req', conn')
    <3>1. \A r \in Reqs : rq[r].st = "held" => rq[r].conn \in DOMAIN cn
      BY <1>1 DEF Leased, Created
    <3>2. \A r \in Reqs : rq[r].st = "held" =>
            rq[r] = rq[r] /\ conn'[rq[r].conn].inUse = cn[rq[r].conn].inUse
      BY <2>3, <3>1
    <3>3. Created(cn) \subseteq Created(conn') /\ Leased(rq, cn)
      BY <1>1, <2>3
    <3>4. Leased(rq, conn')
      BY <3>2, <3>3, StillLeased
    <3> QED
      BY <2>1, <3>4
  <2>6. MaxConn \in Nat
    BY PoolAssumption
  <2>7. n + 1 <= MaxConn
    BY <1>2, <2>1, <2>6
  <2>8. RequestsInv(req', pendArr', cp, conn')
    BY <2>3, <2>4, <2>5, <2>7 DEF RequestsInv
  <2> QED
    BY <1>2, <1>3, <2>1, <2>3, <2>8 DEF Lease!Serve
<1> QED
  BY <1>4, <1>5, <1>6 DEF Process

-----------------------------------------------------------------------------
(* The steps of the requests, one by one.                                  *)

\* What a step that leaves the pool arrays and the jobs alone has to show.
LEMMA OthersKeep ==
  ASSUME PoolInv, RequestsInv(req', pendArr', curPend', conn'),
         Len(conn) <= Len(conn'), Created(conn) \subseteq Created(conn'),
         UNCHANGED <<poolArr, curPool, jobs>>
  PROVE  PoolInv'
<1>1. Len(conn) \in Nat /\ Len(conn') \in Nat
  BY PoolIsCreated DEF RequestsInv, ConnsInv
<1>2. /\ ArraysInv(poolArr, curPool, Len(conn), Created(conn))
      /\ JobsInv(sweep, draining, clearing, Len(conn), Created(conn))
  BY DEF PoolInv
<1>3. /\ ArraysInv(poolArr, curPool, Len(conn'), Created(conn'))
      /\ JobsInv(sweep, draining, clearing, Len(conn'), Created(conn'))
  BY <1>1, <1>2, MoreConnections
<1> QED
  BY <1>3 DEF PoolInv, jobs

\* The entry's array, before and after a step.
LEMMA WaitingNow ==
  /\ Waiting = WaitingIn(pendArr, curPend)
  /\ Waiting' = WaitingIn(pendArr', curPend')
BY DEF Waiting, WaitingIn

\* The abstract lease removes a request the same way.
LEMMA SameRemoval ==
  ASSUME NEW s, NEW e PROVE Lease!RemoveFirst(s, e) = RemoveFirst(s, e)
<1>1. Lease!SelectInSeq(s, LAMBDA e1 : e1 = e) = SelectInSeq(s, LAMBDA e1 : e1 = e)
  BY DEF Lease!SelectInSeq, SelectInSeq, Lease!Min, Min
<1>2. \A k : Lease!RemoveAt(s, k) = RemoveAt(s, k)
  BY DEF Lease!RemoveAt, RemoveAt
<1> QED
  BY <1>1, <1>2 DEF Lease!RemoveFirst, RemoveFirst

\* acquire() is the abstract request, which may be served at once.
LEMMA AcquireKeeps ==
  ASSUME PoolInv, NEW r \in Reqs, Acquire(r)
  PROVE  PoolInv' /\ Lease!Ask(r)
<1> DEFINE cp == IF curPend = None THEN r ELSE curPend
           x == [st |-> "pending", conn |-> req[r].conn]
           rq == With(req, r, x)
           q == With(pendArr, cp, Append(pendArr[cp], r))
           n == Len(conn)
<1>1. /\ QueueInv(n, req, pendArr, curPend) /\ ConnsInv(conn) /\ n <= MaxConn
      /\ Leased(req, conn)
  BY DEF PoolInv, RequestsInv
<1>2. [req EXCEPT ![r].st = "pending"] = rq
  <2>1. [req[r] EXCEPT !.st = "pending"] = x
    BY <1>1 DEF QueueInv, RequestOf
  <2> QED
    BY <2>1 DEF With
<1>3. /\ req[r].st = "new" /\ curPend' = cp /\ Process(rq, q, cp, conn)
      /\ UNCHANGED <<poolArr, curPool, jobs>>
  BY <1>2 DEF Acquire, With
<1>4. /\ QueueInv(n, rq, q, cp)
      /\ WaitingIn(q, cp) = Append(WaitingIn(pendArr, curPend), r)
  <2> HIDE DEF n
  <2> QED
    BY <1>1, <1>3, NewIsQueued
<1>5. Leased(rq, conn)
  <2>1. \A s \in Reqs : rq[s].st = "held" =>
          rq[s] = req[s] /\ conn[req[s].conn].inUse = conn[req[s].conn].inUse
    BY <1>1 DEF With, QueueInv
  <2> HIDE DEF rq
  <2> QED
    BY <1>1, <2>1, StillLeased
<1>6. RequestsInv(rq, q, cp, conn) /\ Alike(conn, conn)
  BY <1>1, <1>4, <1>5 DEF RequestsInv, Alike
<1>7. /\ RequestsInv(req', pendArr', curPend', conn')
      /\ Len(conn) <= Len(conn') /\ Created(conn') = Created(conn)
      /\ Lease!Serve(WaitingIn(q, cp), rq)
  <2> HIDE DEF rq, q, cp, n
  <2> QED
    BY <1>3, <1>6, ProcessKeeps
<1>8. PoolInv'
  BY <1>3, <1>7, OthersKeep
<1>9. Lease!Serve(Append(Waiting, r), [req EXCEPT ![r].st = "pending"])
  BY <1>2, <1>4, <1>7, WaitingNow
<1> QED
  BY <1>3, <1>8, <1>9 DEF Lease!Ask

\* The timer of acquire() is a request that gives up.
LEMMA TimeoutKeeps ==
  ASSUME PoolInv, NEW r \in Reqs, Timeout(r)
  PROVE  PoolInv' /\ Lease!GiveUp(r)
<1> DEFINE x == [st |-> "failed", conn |-> req[r].conn]
           n == Len(conn)
<1>1. /\ QueueInv(n, req, pendArr, curPend) /\ ConnsInv(conn) /\ n <= MaxConn
      /\ Leased(req, conn) /\ n \in Nat
  BY DEF PoolInv, RequestsInv, ConnsInv
<1>2. [req EXCEPT ![r].st = "failed"] = With(req, r, x)
  <2>1. [req[r] EXCEPT !.st = "failed"] = x
    BY <1>1 DEF QueueInv, RequestOf
  <2> QED
    BY <2>1 DEF With
<1>3. /\ req[r].st = "pending" /\ RemovePending(r) /\ req' = With(req, r, x)
      /\ UNCHANGED <<conn, poolArr, curPool, jobs>>
  BY <1>2 DEF Timeout
<1>4. r \in ToSet(Waiting)
  BY <1>1, <1>3, WaitingNow DEF QueueInv, Queued, ListsPending
<1>5. /\ pendArr' = With(pendArr, curPend, RemoveFirst(pendArr[curPend], r))
      /\ curPend' = IF Len(WaitingIn(pendArr, curPend)) = 1 THEN None ELSE curPend
  BY <1>3, <1>4, WaitingNow DEF RemovePending, With
<1>6. /\ QueueInv(n, req', pendArr', curPend')
      /\ WaitingIn(pendArr', curPend') = RemoveFirst(WaitingIn(pendArr, curPend), r)
  <2> HIDE DEF n
  <2> QED
    BY <1>1, <1>3, <1>5, TimedOutLeaves
<1>7. Leased(req', conn)
  <2>1. \A s \in Reqs : req'[s].st = "held" =>
          req'[s] = req[s] /\ conn[req[s].conn].inUse = conn[req[s].conn].inUse
    BY <1>1, <1>3 DEF With, QueueInv
  <2> QED
    BY <1>1, <2>1, StillLeased
<1>8. conn' = conn
  BY <1>3
<1>9. RequestsInv(req', pendArr', curPend', conn')
  BY <1>1, <1>6, <1>7, <1>8 DEF RequestsInv
<1>10. PoolInv'
  BY <1>1, <1>3, <1>8, <1>9, OthersKeep
<1>11. Waiting' = RemoveFirst(Waiting, r)
  BY <1>6, WaitingNow
<1>12. req' = [req EXCEPT ![r].st = "failed"]
  BY <1>3 DEF Timeout
<1>13. req[r].st = "pending"
  BY <1>3
<1> QED
  BY <1>10, <1>11, <1>12, <1>13, SameRemoval DEF Lease!GiveUp

\* release() is the abstract return, after which the next request may be served; a
\* connection that is pooled no more is just given back.
LEMMA ReleaseKeeps ==
  ASSUME PoolInv, NEW r \in Reqs, Release(r)
  PROVE  PoolInv' /\ Lease!Return(r)
<1> DEFINE c == req[r].conn
           rq == Returned(r)
           n == Len(conn)
<1>1. /\ QueueInv(n, req, pendArr, curPend) /\ ConnsInv(conn) /\ n <= MaxConn
      /\ Leased(req, conn) /\ n \in Nat
  BY DEF PoolInv, RequestsInv, ConnsInv
<1>2. rq = With(req, r, [st |-> "returned", conn |-> 0])
  BY DEF Returned, With
<1>3. req[r].st = "held" /\ curPend' = curPend /\ UNCHANGED <<poolArr, curPool, jobs>>
  BY DEF Release
<1>4. QueueInv(n, rq, pendArr, curPend)
  <2> HIDE DEF n, rq
  <2> QED
    BY <1>1, <1>2, <1>3, ServedIsNotQueued
<1>5. \A s \in Reqs : rq[s].st = "held" => s # r /\ rq[s] = req[s] /\ req[s].conn # c
  BY <1>1, <1>2, <1>3 DEF With, QueueInv, Leased
<1>6. CASE c \in ToSet(Pool) /\ Process(rq, pendArr, curPend, [conn EXCEPT ![c].inUse = FALSE])
  <2>1. PICK b \in BOOLEAN : b = FALSE
    OBVIOUS
  <2> DEFINE y == Marked(conn[c], b)
             cn == With(conn, c, y)
  <2>2. c \in Created(conn)
    BY <1>6, PoolIsCreated
  <2>3. c \in DOMAIN conn /\ conn[c] \in CreatedRecord
    BY <1>1, <2>2, ConnRecords DEF Created
  <2>4. y \in CreatedRecord /\ [conn EXCEPT ![c].inUse = b] = cn
    BY <2>3, MarkedRecord
  <2>5. /\ ConnsInv(cn) /\ Len(cn) = n /\ Created(cn) = Created(conn)
        /\ \A d \in DOMAIN conn : d # c => cn[d] = conn[d]
    <3> HIDE DEF y, c, cn
    <3>1. cn = With(conn, c, y)
      BY DEF cn
    <3> QED
      BY <1>1, <2>2, <2>4, <3>1, CreatedChanges
  <2>6. Leased(rq, cn)
    <3>1. \A s \in Reqs : rq[s].st = "held" =>
            rq[s] = req[s] /\ cn[req[s].conn].inUse = conn[req[s].conn].inUse
      <4> SUFFICES ASSUME NEW s \in Reqs, rq[s].st = "held"
                   PROVE  rq[s] = req[s] /\ cn[req[s].conn].inUse = conn[req[s].conn].inUse
        OBVIOUS
      <4>1. rq[s] = req[s] /\ req[s].conn # c
        BY <1>5
      <4>2. req[s].conn \in DOMAIN conn
        BY <1>1, <4>1 DEF Leased, Created
      <4> HIDE DEF rq, cn, c
      <4> QED
        BY <2>5, <4>1, <4>2
    <3>2. Created(conn) \subseteq Created(cn)
      BY <2>5
    <3> HIDE DEF rq, cn
    <3> QED
      BY <1>1, <3>1, <3>2, StillLeased
  <2>7. RequestsInv(rq, pendArr, curPend, cn) /\ Alike(cn, conn)
    <3> HIDE DEF rq, cn
    <3> QED
      BY <1>1, <1>4, <2>5, <2>6 DEF RequestsInv, Alike
  <2>8. Process(rq, pendArr, curPend, cn)
    BY <1>6, <2>1, <2>4
  <2>9. /\ RequestsInv(req', pendArr', curPend', conn')
        /\ Len(conn) <= Len(conn') /\ Created(conn') = Created(conn)
        /\ Lease!Serve(WaitingIn(pendArr, curPend), rq)
    <3> HIDE DEF rq, cn
    <3> QED
      BY <1>3, <2>7, <2>8, ProcessKeeps
  <2>10. PoolInv'
    BY <1>3, <2>9, OthersKeep
  <2> QED
    BY <1>3, <2>9, <2>10, WaitingNow DEF Lease!Return, Returned
<1>7. CASE c \notin ToSet(Pool) /\ req' = rq /\ UNCHANGED <<conn, pendArr>>
  <2>1. Leased(rq, conn)
    <3>1. \A s \in Reqs : rq[s].st = "held" =>
            rq[s] = req[s] /\ conn[req[s].conn].inUse = conn[req[s].conn].inUse
      BY <1>5
    <3> HIDE DEF rq
    <3> QED
      BY <1>1, <3>1, StillLeased
  <2>2. RequestsInv(req', pendArr', curPend', conn') /\ conn' = conn
    BY <1>1, <1>3, <1>4, <1>7, <2>1 DEF RequestsInv
  <2>3. PoolInv'
    BY <1>1, <1>3, <2>2, OthersKeep
  <2>4. Lease!Serve(Waiting, [req EXCEPT ![r] = [st |-> "returned", conn |-> 0]])
    BY <1>3, <1>7, WaitingNow DEF Lease!Serve, Returned
  <2> QED
    BY <1>3, <2>3, <2>4 DEF Lease!Return
<1> QED
  BY <1>6, <1>7 DEF Release

-----------------------------------------------------------------------------
(* A creation ends.                                                        *)

\* Setting `again' changes no type.
LEMMA AgainKeeps ==
  ASSUME NEW C, NEW n
  PROVE  /\ \A s \in SweepRecord(C), b \in BOOLEAN : [s EXCEPT !.again = b] \in SweepRecord(C)
         /\ \A d \in DrainRecord(n, C), b \in BOOLEAN :
              [d EXCEPT !.again = b] \in DrainRecord(n, C)
<1>1. ASSUME NEW s \in SweepRecord(C), NEW b \in BOOLEAN
      PROVE  [s EXCEPT !.again = b] \in SweepRecord(C)
  BY DEF SweepRecord
<1>2. ASSUME NEW d \in DrainRecord(n, C), NEW b \in BOOLEAN
      PROVE  [d EXCEPT !.again = b] \in DrainRecord(n, C)
  BY DEF DrainRecord
<1> QED
  BY <1>1, <1>2

\* pools.set() keeps what the sweeps and drain() have in hand.
LEMMA SetPoolKeeps ==
  ASSUME PoolInv, NEW arr, SetPool(arr), clearing' = clearing,
         Len(conn') = Len(conn), Created(conn) \subseteq Created(conn')
  PROVE  JobsInv(sweep', draining', clearing', Len(conn'), Created(conn')) /\ curPool' = arr
<1> DEFINE n == Len(conn)
           C == Created(conn)
<1>1. sweep \in [Sweeps -> SweepRecord(C)] /\ draining \in DrainRecord(n, C)
  BY DEF PoolInv, JobsInv
<1>2. sweep' \in [Sweeps -> SweepRecord(C)]
  <2>1. ASSUME NEW j \in Sweeps
        PROVE  [sweep[j] EXCEPT !.again = @ \/ (curPool = 0 /\ sweep[j].pc # "idle")]
                 \in SweepRecord(C)
    <3> DEFINE b == sweep[j].again \/ (curPool = 0 /\ sweep[j].pc # "idle")
    <3>1. b \in BOOLEAN
      OBVIOUS
    <3>2. sweep[j] \in SweepRecord(C)
      BY <1>1
    <3> HIDE DEF b, C
    <3>3. [sweep[j] EXCEPT !.again = b] \in SweepRecord(C)
      BY <3>1, <3>2, AgainKeeps
    <3> QED
      BY <3>3 DEF b
  <2> HIDE DEF C
  <2> QED
    BY <2>1 DEF SetPool
<1>3. draining' \in DrainRecord(n, C)
  <2> DEFINE b == draining.again \/ (curPool = 0 /\ draining.pc \notin {"idle", "wait"})
  <2>1. b \in BOOLEAN
    OBVIOUS
  <2>2. draining' = [draining EXCEPT !.again = b]
    BY DEF SetPool
  <2> HIDE DEF b, C, n
  <2> QED
    BY <1>1, <2>1, <2>2, AgainKeeps
<1>4. n \in Nat /\ Len(conn') = n /\ n <= n
  BY PoolIsCreated
<1>5. JobsInv(sweep', draining', clearing', n, C)
  BY <1>2, <1>3 DEF PoolInv, JobsInv
<1>6. C \subseteq Created(conn')
  OBVIOUS
<1>7. JobsInv(sweep', draining', clearing', n, Created(conn'))
  <2> HIDE DEF C, n
  <2> QED
    BY <1>4, <1>5, <1>6, MoreConnections
<1> QED
  BY <1>4, <1>7 DEF SetPool

\* A creation that ends, with record x of the connection.
LEMMA CreationEnds ==
  ASSUME NEW cn, ConnsInv(cn), NEW c \in DOMAIN cn, c \notin Created(cn),
         NEW x \in CreatedRecord, NEW cn2, cn2 = With(cn, c, x)
  PROVE  /\ ConnsInv(cn2) /\ Len(cn2) = Len(cn)
         /\ Created(cn2) = Created(cn) \union {c}
         /\ cn2[c] = x /\ \A d \in DOMAIN cn : d # c => cn2[d] = cn[d]
<1> DEFINE n == Len(cn)
<1>1. /\ c \in 1..n /\ x \in ConnRecord(n) /\ x.st # "creating" /\ DOMAIN cn = 1..n
      /\ cn \in Seq(ConnRecord(n)) /\ n \in Nat
  BY DEF ConnRecord, CreatedRecord, ConnsInv
<1>2. /\ cn2 \in Seq(ConnRecord(n))
      /\ Len(cn2) = n
      /\ \A j \in 1..n : cn2[j] = IF j = c THEN x ELSE cn[j]
  BY <1>1, ExceptSeq DEF With
<1>3. DOMAIN cn2 = 1..n
  BY <1>2
<1>4. Created(cn2) = Created(cn) \union {c}
  BY <1>1, <1>2, <1>3 DEF Created
<1> QED
  BY <1>1, <1>2, <1>4 DEF ConnsInv

\* A creation that succeeds lends its connection to the request that waits longest, or
\* to nobody.
LEMMA CreateOkKeeps ==
  ASSUME PoolInv, NEW c \in DOMAIN conn, CreateOk(c)
  PROVE  PoolInv' /\ (Lease!Lend \/ UNCHANGED Lease!vars)
<1> DEFINE n == Len(conn)
           arr == conn[c].arr
           p == conn[c].pend
           x == [st |-> "held", conn |-> c]
           y == [st |-> "live", inUse |-> TRUE, arr |-> 0, pend |-> None]
<1>1. /\ QueueInv(n, req, pendArr, curPend) /\ ConnsInv(conn) /\ n <= MaxConn
      /\ Leased(req, conn) /\ ArraysInv(poolArr, curPool, n, Created(conn))
  BY DEF PoolInv, RequestsInv
<1>2. n \in Nat /\ 1..n \subseteq Conn /\ Created(conn) \subseteq 1..n
  BY PoolIsCreated
<1>3. c \notin Created(conn)
  BY DEF CreateOk, Created
<1>4. c \in 1..n /\ arr \in 1..n /\ p \in Reqs
  BY <1>1, <1>3, ConnRecords DEF CreatingRecord
<1>5. y \in CreatedRecord /\ conn' = With(conn, c, y) /\ y.inUse
  BY DEF CreateOk, CreatedRecord, With
<1>6. /\ ConnsInv(conn') /\ Len(conn') = n
      /\ Created(conn') = Created(conn) \union {c}
      /\ conn'[c] = y /\ \A d \in DOMAIN conn : d # c => conn'[d] = conn[d]
  <2> HIDE DEF y
  <2> QED
    BY <1>1, <1>3, <1>5, CreationEnds
<1>7. /\ JobsInv(sweep', draining', clearing', Len(conn'), Created(conn'))
      /\ curPool' = arr
  <2>1. SetPool(arr) /\ clearing' = clearing
    BY DEF CreateOk
  <2> HIDE DEF arr
  <2> QED
    BY <1>6, <2>1, SetPoolKeeps
<1>8. ArraysInv(poolArr', curPool', Len(conn'), Created(conn'))
  <2>1. ArraysInv(poolArr, curPool, n, Created(conn'))
    <3>1. n \in Nat /\ n <= n /\ Created(conn) \subseteq Created(conn')
      BY <1>2, <1>6
    <3> HIDE DEF n
    <3> QED
      BY <1>1, <3>1, MoreConnections
  <2>2. poolArr' = [poolArr EXCEPT ![arr] = Append(@, c)]
    BY DEF CreateOk
  <2>3. arr \in Conn /\ c \in Created(conn')
    BY <1>2, <1>4, <1>6
  <2> HIDE DEF arr
  <2>4. poolArr' \in [Conn -> Seq(Created(conn'))]
    BY <2>1, <2>2, <2>3 DEF ArraysInv
  <2> QED
    BY <1>4, <1>6, <1>7, <2>4 DEF ArraysInv, arr
<1>9. \A r \in Reqs : req[r].st = "held" => req[r].conn # c
  BY <1>1, <1>3 DEF Leased
<1>10. Leased(req, conn')
  <2>1. \A r \in Reqs : req[r].st = "held" =>
          req[r] = req[r] /\ conn'[req[r].conn].inUse = conn[req[r].conn].inUse
    BY <1>1, <1>6, <1>9 DEF Leased, Created
  <2>2. Created(conn) \subseteq Created(conn')
    BY <1>6
  <2> QED
    BY <1>1, <2>1, <2>2, StillLeased
<1>11. curPend' = curPend
  BY DEF CreateOk
<1>12. CASE pendArr[p] = <<>>
  <2>1. req' = req /\ pendArr' = pendArr
    BY <1>12 DEF CreateOk
  <2>2. RequestsInv(req', pendArr', curPend', conn')
    BY <1>1, <1>6, <1>10, <1>11, <2>1 DEF RequestsInv
  <2>3. UNCHANGED Lease!vars
    BY <1>11, <2>1, WaitingNow DEF Lease!vars
  <2> QED
    BY <1>7, <1>8, <2>2, <2>3 DEF PoolInv
<1>13. CASE pendArr[p] # <<>>
  <2> DEFINE h == Head(pendArr[p])
  <2>1. req' = Settled(req, h, x) /\ pendArr' = With(pendArr, p, Tail(pendArr[p]))
    BY <1>13 DEF CreateOk, Resolved, Settled, With
  <2>2. x \in RequestOf(n) /\ x.st \notin {"new", "pending"}
    BY <1>2, <1>4 DEF RequestOf
  <2>3. /\ QueueInv(n, req', pendArr', curPend)
        /\ \/ /\ p = curPend
              /\ req[Head(pendArr[p])].st = "pending"
              /\ req' = With(req, Head(pendArr[p]), x)
              /\ WaitingIn(pendArr', curPend) = Tail(WaitingIn(pendArr, curPend))
           \/ /\ p # curPend
              /\ req' = req
              /\ WaitingIn(pendArr', curPend) = WaitingIn(pendArr, curPend)
    <3> HIDE DEF x, n, p
    <3> QED
      BY <1>1, <1>4, <1>13, <2>1, <2>2, HeadLeaves
  <2>4. h \in Reqs
    BY <1>1, <1>4, <1>13 DEF QueueInv
  <2>5. CASE /\ p = curPend /\ req' = With(req, h, x)
             /\ WaitingIn(pendArr', curPend) = Tail(WaitingIn(pendArr, curPend))
    <3>1. Leased(With(req, h, x), conn')
      <4>1. c \in Created(conn') /\ conn'[c].inUse
        BY <1>5, <1>6
      <4>2. \A d \in Created(conn) : d # c => conn'[d] = conn[d]
        BY <1>6 DEF Created
      <4>3. Created(conn) \subseteq Created(conn')
        BY <1>6
      <4> HIDE DEF h, n, y
      <4> QED
        BY <1>1, <1>9, <2>4, <4>1, <4>2, <4>3, LentToOne
    <3>2. RequestsInv(req', pendArr', curPend', conn')
      BY <1>1, <1>6, <1>11, <2>3, <2>5, <3>1 DEF RequestsInv
    <3>3. Waiting = pendArr[p] /\ Waiting' = Tail(Waiting)
      <4>1. p # None
        BY <1>4, PoolAssumption
      <4> QED
        BY <1>11, <2>5, <4>1, WaitingNow DEF WaitingIn
    <3>4. req' = [req EXCEPT ![Head(Waiting)] = [st |-> "held", conn |-> c]]
      BY <2>5, <3>3 DEF With
    <3>5. Lease!Lend
      BY <1>2, <1>4, <1>9, <1>13, <3>3, <3>4 DEF Lease!Lend, Lease!Serve
    <3> QED
      BY <1>7, <1>8, <3>2, <3>5 DEF PoolInv
  <2>6. CASE /\ req' = req
             /\ WaitingIn(pendArr', curPend) = WaitingIn(pendArr, curPend)
    <3>1. RequestsInv(req', pendArr', curPend', conn')
      BY <1>1, <1>6, <1>10, <1>11, <2>3, <2>6 DEF RequestsInv
    <3>2. UNCHANGED Lease!vars
      BY <1>11, <2>6, WaitingNow DEF Lease!vars
    <3> QED
      BY <1>7, <1>8, <3>1, <3>2 DEF PoolInv
  <2> QED
    BY <2>3, <2>5, <2>6
<1> QED
  BY <1>12, <1>13

\* A creation that fails rejects the request that waits longest, or nobody.
LEMMA CreateFailsKeeps ==
  ASSUME PoolInv, NEW c \in DOMAIN conn, CreateFails(c)
  PROVE  PoolInv' /\ ((\E r \in Reqs : Lease!GiveUp(r)) \/ UNCHANGED Lease!vars)
<1> DEFINE n == Len(conn)
           p == conn[c].pend
           h == Head(pendArr[p])
           x == [st |-> "failed", conn |-> req[h].conn]
           y == [st |-> "closed", inUse |-> FALSE, arr |-> 0, pend |-> None]
<1>1. /\ QueueInv(n, req, pendArr, curPend) /\ ConnsInv(conn) /\ n <= MaxConn
      /\ Leased(req, conn) /\ n \in Nat
  BY DEF PoolInv, RequestsInv, ConnsInv
<1>2. c \notin Created(conn)
  BY DEF CreateFails, Created
<1>3. c \in 1..n /\ p \in Reqs
  BY <1>1, <1>2, ConnRecords DEF CreatingRecord
<1>4. y \in CreatedRecord /\ conn' = With(conn, c, y)
  BY DEF CreateFails, CreatedRecord, With
<1>5. /\ ConnsInv(conn') /\ Len(conn') = n
      /\ Created(conn') = Created(conn) \union {c}
      /\ \A d \in DOMAIN conn : d # c => conn'[d] = conn[d]
  <2> HIDE DEF y
  <2> QED
    BY <1>1, <1>2, <1>4, CreationEnds
<1>6. UNCHANGED <<poolArr, curPool, curPend, jobs>>
  BY DEF CreateFails
<1>7. Leased(req, conn')
  <2>1. \A r \in Reqs : req[r].st = "held" =>
          req[r] = req[r] /\ conn'[req[r].conn].inUse = conn[req[r].conn].inUse
    BY <1>1, <1>2, <1>5 DEF Leased, Created
  <2>2. Created(conn) \subseteq Created(conn')
    BY <1>5
  <2> QED
    BY <1>1, <2>1, <2>2, StillLeased
<1>8. ASSUME QueueInv(n, req', pendArr', curPend'), Leased(req', conn') PROVE PoolInv'
  <2>1. RequestsInv(req', pendArr', curPend', conn')
    BY <1>1, <1>5, <1>8 DEF RequestsInv
  <2>2. Len(conn) <= Len(conn') /\ Created(conn) \subseteq Created(conn')
    BY <1>1, <1>5
  <2> QED
    BY <1>6, <2>1, <2>2, OthersKeep
<1>9. CASE pendArr[p] = <<>>
  <2>1. req' = req /\ pendArr' = pendArr
    BY <1>9 DEF CreateFails
  <2>2. UNCHANGED Lease!vars
    BY <1>6, <2>1, WaitingNow DEF Lease!vars
  <2> QED
    BY <1>1, <1>6, <1>7, <1>8, <2>1, <2>2
<1>10. CASE pendArr[p] # <<>>
  <2>1. h \in Reqs /\ req[h] \in RequestOf(n)
    BY <1>1, <1>3, <1>10 DEF QueueInv
  <2>2. [req EXCEPT ![h].st = "failed"] = With(req, h, x)
    <3>1. [req[h] EXCEPT !.st = "failed"] = x
      BY <2>1 DEF RequestOf
    <3> QED
      BY <3>1 DEF With
  <2>3. req' = Settled(req, h, x) /\ pendArr' = With(pendArr, p, Tail(pendArr[p]))
    BY <1>10, <2>2 DEF CreateFails, Rejected, Settled, With
  <2>4. x \in RequestOf(n) /\ x.st \notin {"new", "pending"}
    BY <2>1 DEF RequestOf
  <2>5. /\ QueueInv(n, req', pendArr', curPend)
        /\ \/ /\ p = curPend
              /\ req[Head(pendArr[p])].st = "pending"
              /\ req' = With(req, Head(pendArr[p]), x)
              /\ WaitingIn(pendArr', curPend) = Tail(WaitingIn(pendArr, curPend))
           \/ /\ p # curPend
              /\ req' = req
              /\ WaitingIn(pendArr', curPend) = WaitingIn(pendArr, curPend)
    <3> HIDE DEF x, n, p
    <3> QED
      BY <1>1, <1>3, <1>10, <2>3, <2>4, HeadLeaves DEF h
  <2>6. CASE /\ p = curPend /\ req[h].st = "pending" /\ req' = With(req, h, x)
             /\ WaitingIn(pendArr', curPend) = Tail(WaitingIn(pendArr, curPend))
    <3>1. Leased(req', conn')
      <4>1. \A r \in Reqs : req'[r].st = "held" =>
              req'[r] = req[r] /\ conn'[req[r].conn].inUse = conn'[req[r].conn].inUse
        BY <1>1, <2>6 DEF With, QueueInv
      <4> QED
        BY <1>7, <4>1, StillLeased
    <3>2. PoolInv'
      BY <1>6, <1>8, <2>5, <3>1
    <3>3. Waiting = pendArr[p] /\ Waiting' = Tail(Waiting)
      <4>1. p # None
        BY <1>3, PoolAssumption
      <4> QED
        BY <1>6, <2>6, <4>1, WaitingNow DEF WaitingIn
    <3>4. Waiting' = RemoveFirst(Waiting, h)
      <4>1. pendArr[p] \in Seq(Reqs)
        BY <1>1, <1>3 DEF QueueInv
      <4> HIDE DEF p
      <4> QED
        BY <1>10, <3>3, <4>1, TailIsRemoveFirst
    <3>5. req' = [req EXCEPT ![h].st = "failed"]
      BY <2>2, <2>6
    <3>6. Lease!GiveUp(h)
      <4> HIDE DEF h
      <4> QED
        BY <2>6, <3>4, <3>5, SameRemoval DEF Lease!GiveUp
    <3> QED
      BY <2>1, <3>2, <3>6
  <2>7. CASE req' = req /\ WaitingIn(pendArr', curPend) = WaitingIn(pendArr, curPend)
    <3>1. PoolInv'
      BY <1>6, <1>7, <1>8, <2>5, <2>7
    <3>2. UNCHANGED Lease!vars
      BY <1>6, <2>7, WaitingNow DEF Lease!vars
    <3> QED
      BY <3>1, <3>2
  <2> QED
    BY <2>5, <2>6, <2>7
<1> QED
  BY <1>9, <1>10

-----------------------------------------------------------------------------
(* The sweeps, drain() and clear(): nobody's request changes, but for       *)
(* those that clear() rejects.                                             *)

\* A connection that was created is disconnected, and leaves the pool.
LEMMA DisconnectedKeeps ==
  ASSUME PoolInv, NEW c \in Created(conn), Disconnected(c)
  PROVE  /\ RequestsInv(req', pendArr', curPend', conn')
         /\ ArraysInv(poolArr', curPool', Len(conn'), Created(conn'))
         /\ Len(conn') = Len(conn) /\ Created(conn') = Created(conn)
         /\ UNCHANGED Lease!vars
<1> DEFINE n == Len(conn)
           y == [st |-> "closed", inUse |-> conn[c].inUse, arr |-> conn[c].arr,
                 pend |-> conn[c].pend]
<1>1. /\ QueueInv(n, req, pendArr, curPend) /\ ConnsInv(conn) /\ n <= MaxConn
      /\ Leased(req, conn) /\ ArraysInv(poolArr, curPool, n, Created(conn))
  BY DEF PoolInv, RequestsInv
<1>2. n \in Nat /\ 1..n \subseteq Conn /\ Pool \in Seq(Created(conn))
  BY PoolIsCreated
<1>3. c \in DOMAIN conn /\ conn[c] \in CreatedRecord
  BY <1>1, ConnRecords DEF Created
<1>4. y \in CreatedRecord /\ y.inUse = conn[c].inUse
  BY <1>3 DEF CreatedRecord
<1>5. [conn[c] EXCEPT !.st = "closed"] = y
  BY <1>3 DEF CreatedRecord
<1>6. conn' = With(conn, c, y)
  BY <1>5 DEF Disconnected, With
<1>7. /\ ConnsInv(conn') /\ Len(conn') = n /\ Created(conn') = Created(conn)
      /\ conn'[c] = y /\ \A d \in DOMAIN conn : d # c => conn'[d] = conn[d]
  <2> HIDE DEF y
  <2> QED
    BY <1>1, <1>4, <1>6, CreatedChanges
<1>8. Leased(req, conn')
  <2>1. \A d \in DOMAIN conn : conn'[d].inUse = conn[d].inUse
    <3> HIDE DEF y
    <3> QED
      BY <1>4, <1>7
  <2>2. \A r \in Reqs : req[r].st = "held" =>
          req[r] = req[r] /\ conn'[req[r].conn].inUse = conn[req[r].conn].inUse
    BY <1>1, <2>1 DEF Leased, Created
  <2>3. Created(conn) \subseteq Created(conn')
    BY <1>7
  <2> QED
    BY <1>1, <2>2, <2>3, StillLeased
<1>9. UNCHANGED <<req, pendArr, curPend>>
  BY DEF Disconnected
<1>10. RequestsInv(req', pendArr', curPend', conn')
  BY <1>1, <1>7, <1>8, <1>9 DEF RequestsInv
<1>11. ArraysInv(poolArr', curPool', n, Created(conn))
  <2>1. CASE c \in ToSet(Pool)
    <3>1. curPool # 0
      BY <2>1 DEF Pool, ToSet
    <3>2. curPool \in Conn /\ Pool = poolArr[curPool]
      BY <1>1, <1>2, <3>1 DEF ArraysInv, Pool
    <3>3. RemoveFirst(poolArr[curPool], c) \in Seq(Created(conn))
      BY <1>2, <3>2, RemoveFirstKeeps
    <3>4. poolArr' \in [Conn -> Seq(Created(conn))]
      BY <1>1, <2>1, <3>2, <3>3 DEF ArraysInv, Disconnected, RemoveFromPool
    <3>5. curPool' \in 0..n
      BY <1>1, <1>2, <2>1 DEF ArraysInv, Disconnected, RemoveFromPool
    <3> QED
      BY <3>4, <3>5 DEF ArraysInv
  <2>2. CASE c \notin ToSet(Pool)
    BY <1>1, <2>2 DEF Disconnected, RemoveFromPool
  <2> QED
    BY <2>1, <2>2
<1>12. UNCHANGED Lease!vars
  BY <1>9, WaitingNow DEF Lease!vars
<1> QED
  BY <1>7, <1>10, <1>11, <1>12

\* A step of a job that leaves requests, connections and pool alone.
LEMMA OnlyJobs ==
  ASSUME PoolInv, UNCHANGED <<req, conn, poolArr, curPool, pendArr, curPend>>,
         JobsInv(sweep', draining', clearing', Len(conn), Created(conn))
  PROVE  PoolInv' /\ UNCHANGED Lease!vars
<1>1. PoolInv'
  BY DEF PoolInv
<1>2. UNCHANGED Lease!vars
  BY WaitingNow DEF Lease!vars
<1> QED
  BY <1>1, <1>2

\* A sweep's next connection comes from the ones it has captured.
LEMMA NextOfType ==
  ASSUME NEW C, NEW todo \in Seq(C), NEW j, NEW b \in BOOLEAN
  PROVE  NextOf(j, todo) \in SweepRecord(C) /\ [NextOf(j, todo) EXCEPT !.again = b] \in SweepRecord(C)
<1>1. NextOf(j, todo) \in SweepRecord(C)
  <2>1. CASE todo = <<>>
    <3>1. NextOf(j, todo) = [pc |-> "next", todo |-> <<>>, cur |-> 0, again |-> FALSE]
      BY <2>1 DEF NextOf, NoSweep
    <3> QED
      BY <3>1, EmptySeq DEF SweepRecord
  <2>2. CASE todo # <<>>
    <3>1. Head(todo) \in C /\ Tail(todo) \in Seq(C)
      BY <2>2, HeadTailProperties
    <3> QED
      BY <2>2, <3>1 DEF NextOf, SweepRecord
  <2> QED
    BY <2>1, <2>2
<1> QED
  BY <1>1, AgainKeeps

\* A sweep captures connections of the pool.
LEMMA SnapshotType ==
  ASSUME PoolInv, NEW j, NEW todo \in Snapshots(j)
  PROVE  todo \in Seq(Created(conn))
<1>1. ToSet(Pool) \subseteq Created(conn) /\ Len(Pool) \in Nat
  BY PoolIsCreated, LenProperties
<1>2. Quota(j) \in Int
  BY <1>1, PoolAssumption DEF Quota
<1>3. PICK n \in {0} \union 1..Quota(j) : todo \in [1..n -> Idle(conn)]
  BY DEF Snapshots
<1>4. n \in Nat /\ todo = [i \in 1..n |-> todo[i]] /\ \A i \in 1..n : todo[i] \in Created(conn)
  BY <1>1, <1>2, <1>3 DEF Idle
<1> QED
  BY <1>4, IsASeq

\* What is left of a sweep's record when the connection it awaited is gone.
LEMMA AfterDisconnect ==
  ASSUME NEW C, NEW s \in SweepRecord(C)
  PROVE  [s EXCEPT !.pc = "next", !.cur = 0]
           = [pc |-> "next", todo |-> s.todo, cur |-> 0, again |-> s.again]
<1> DEFINE t == [pc |-> "next", todo |-> s.todo, cur |-> s.cur, again |-> s.again]
<1>1. [s EXCEPT !.pc = "next"] = t
  BY DEF SweepRecord
<1>2. [s EXCEPT !.pc = "next", !.cur = 0] = [[s EXCEPT !.pc = "next"] EXCEPT !.cur = 0]
  OBVIOUS
<1>3. [t EXCEPT !.cur = 0] = [pc |-> "next", todo |-> s.todo, cur |-> 0, again |-> s.again]
  OBVIOUS
<1> QED
  BY <1>1, <1>2, <1>3

\* No step of a sweep is seen by the requests.
LEMMA SweepingKeeps ==
  ASSUME PoolInv, NEW j \in Sweeps, Sweeping(j)
  PROVE  PoolInv' /\ UNCHANGED Lease!vars
<1> DEFINE n == Len(conn)
           C == Created(conn)
<1>1. /\ sweep \in [Sweeps -> SweepRecord(C)]
      /\ JobsInv(sweep, draining, clearing, n, C)
  BY DEF PoolInv, JobsInv
<1>2. /\ sweep[j] \in SweepRecord(C)
      /\ sweep[j].todo \in Seq(C) /\ sweep[j].again \in BOOLEAN
      /\ sweep[j].pc \in {"ping", "close"} => sweep[j].cur \in C
  <2>1. sweep[j] \in SweepRecord(C)
    BY <1>1
  <2> HIDE DEF C
  <2> QED
    BY <2>1 DEF SweepRecord
<1>3. ASSUME NEW s \in SweepRecord(C), sweep' = [sweep EXCEPT ![j] = s],
             UNCHANGED <<req, conn, poolArr, curPool, pendArr, curPend, draining, clearing>>
      PROVE  PoolInv' /\ UNCHANGED Lease!vars
  <2>1. JobsInv(sweep', draining', clearing', n, C)
    <3> HIDE DEF C, n
    <3> QED
      BY <1>1, <1>3 DEF JobsInv
  <2> QED
    BY <1>3, <2>1, OnlyJobs
<1>4. CASE SweepEntry(j)
  <2>1. PICK todo \in Snapshots(j) : sweep' = [sweep EXCEPT ![j] = NextOf(j, todo)]
    BY <1>4 DEF SweepEntry
  <2>2. NextOf(j, todo) \in SweepRecord(C)
    <3>1. todo \in Seq(C)
      BY SnapshotType
    <3> HIDE DEF C
    <3> QED
      BY <3>1, NextOfType
  <2> QED
    BY <1>3, <1>4, <2>1, <2>2 DEF SweepEntry
<1>5. CASE SweepNext(j)
  <2> DEFINE s == [NextOf(j, sweep[j].todo) EXCEPT !.again = sweep[j].again]
  <2>1. s \in SweepRecord(C)
    <3> HIDE DEF C
    <3> QED
      BY <1>2, NextOfType
  <2> QED
    BY <1>3, <1>5, <2>1 DEF SweepNext
<1>6. CASE SweepEnds(j)
  <2>1. NoSweep \in SweepRecord(C)
    BY EmptySeq DEF NoSweep, SweepRecord
  <2> QED
    BY <1>3, <1>6, <2>1 DEF SweepEnds
<1>7. CASE SweepDisconnected(j)
  <2>1. sweep[j].pc = "close" /\ Disconnected(sweep[j].cur)
    BY <1>7 DEF SweepDisconnected
  <2>2. sweep[j].cur \in C
    BY <1>2, <2>1
  <2>3. /\ RequestsInv(req', pendArr', curPend', conn')
        /\ ArraysInv(poolArr', curPool', Len(conn'), Created(conn'))
        /\ Len(conn') = n /\ Created(conn') = C
        /\ UNCHANGED Lease!vars
    BY <2>1, <2>2, DisconnectedKeeps
  <2> DEFINE s == [pc |-> "next", todo |-> sweep[j].todo, cur |-> 0, again |-> sweep[j].again]
  <2>4. s \in SweepRecord(C)
    <3> HIDE DEF C
    <3> QED
      BY <1>2 DEF SweepRecord
  <2>5. [sweep[j] EXCEPT !.pc = "next", !.cur = 0] = s
    <3> HIDE DEF C
    <3> QED
      BY <1>2, AfterDisconnect
  <2>6. sweep' = [sweep EXCEPT ![j] = s]
    BY <1>1, <1>7, <2>5 DEF SweepDisconnected
  <2>7. JobsInv(sweep', draining', clearing', n, C)
    <3>1. UNCHANGED <<draining, clearing>>
      BY <1>7 DEF SweepDisconnected
    <3> HIDE DEF s, C, n
    <3> QED
      BY <1>1, <2>4, <2>6, <3>1 DEF JobsInv
  <2> QED
    BY <2>3, <2>7 DEF PoolInv
<1> QED
  BY <1>4, <1>5, <1>6, <1>7 DEF Sweeping

\* Nor is a ping.
LEMMA PingSettlesKeeps ==
  ASSUME PoolInv, NEW ok \in BOOLEAN, PingSettles(ok)
  PROVE  PoolInv' /\ UNCHANGED Lease!vars
<1> DEFINE n == Len(conn)
           C == Created(conn)
           j == "validate"
           pc == IF ok THEN "next" ELSE "close"
           s == [pc |-> pc, todo |-> sweep[j].todo, cur |-> sweep[j].cur,
                 again |-> sweep[j].again]
<1>1. /\ sweep \in [Sweeps -> SweepRecord(C)] /\ j \in Sweeps
      /\ JobsInv(sweep, draining, clearing, n, C)
  BY DEF PoolInv, JobsInv, Sweeps
<1>2. sweep[j] \in SweepRecord(C) /\ sweep[j].pc = "ping"
  BY <1>1 DEF PingSettles
<1>3. s \in SweepRecord(C)
  <2> HIDE DEF C
  <2> QED
    BY <1>2 DEF SweepRecord
<1>4. [sweep[j] EXCEPT !.pc = pc] = s
  <2> HIDE DEF C, pc
  <2> QED
    BY <1>2 DEF SweepRecord
<1>5. sweep' = [sweep EXCEPT ![j] = s]
  BY <1>1, <1>4 DEF PingSettles
<1>6. JobsInv(sweep', draining', clearing', n, C)
  <2>1. UNCHANGED <<draining, clearing>>
    BY DEF PingSettles
  <2> HIDE DEF s, C, n
  <2> QED
    BY <1>1, <1>3, <1>5, <2>1 DEF JobsInv
<1> QED
  BY <1>6, OnlyJobs DEF PingSettles

\* Where drain() goes on has the type of its state: the connection it disconnects is
\* in the array it walks.
LEMMA WalkFromType ==
  ASSUME PoolInv, NEW arr \in 1..Len(conn), NEW k \in Nat \ {0}, NEW before \in SUBSET Conn,
         NEW again \in BOOLEAN
  PROVE  WalkFrom(arr, k, before, again) \in DrainRecord(Len(conn), Created(conn))
<1> DEFINE inUse == {i \in k..Len(poolArr[arr]) : conn[poolArr[arr][i]].inUse}
           targets == {c \in before : conn[c].st = "live" /\ conn[c].inUse}
           s == [pc |-> "close", arr |-> arr, k |-> Min(inUse) + 1,
                 cur |-> poolArr[arr][Min(inUse)], again |-> again, targets |-> targets]
           e == [pc |-> "next", arr |-> 0, k |-> 0, cur |-> 0, again |-> again,
                 targets |-> targets]
<1>1. targets \in SUBSET Conn
  OBVIOUS
<1>2. CASE inUse = {}
  <2>1. WalkFrom(arr, k, before, again) = e
    BY <1>2 DEF WalkFrom, NoDrain
  <2> HIDE DEF targets, inUse
  <2> QED
    BY <1>1, <2>1 DEF DrainRecord
<1>3. CASE inUse # {}
  <2>1. WalkFrom(arr, k, before, again) = s
    BY <1>3 DEF WalkFrom
  <2>2. poolArr[arr] \in Seq(Created(conn))
    BY PoolIsCreated DEF PoolInv, ArraysInv
  <2>3. inUse \in SUBSET Nat /\ inUse \subseteq 1..Len(poolArr[arr])
    BY <2>2
  <2>4. Min(inUse) \in inUse
    <3> HIDE DEF inUse
    <3> QED
      BY <1>3, <2>3, LeastElement
  <2>5. Min(inUse) \in 1..Len(poolArr[arr]) /\ Min(inUse) \in Nat
    BY <2>3, <2>4
  <2> HIDE DEF targets, inUse
  <2>6. poolArr[arr][Min(inUse)] \in Created(conn)
    BY <2>2, <2>5
  <2> QED
    BY <1>1, <2>1, <2>5, <2>6 DEF DrainRecord
<1> QED
  BY <1>2, <1>3

\* Nor is a step of drain().
LEMMA DrainingKeeps ==
  ASSUME PoolInv, Draining
  PROVE  PoolInv' /\ UNCHANGED Lease!vars
<1> DEFINE n == Len(conn)
           C == Created(conn)
<1>1. draining \in DrainRecord(n, C) /\ JobsInv(sweep, draining, clearing, n, C)
  BY DEF PoolInv, JobsInv
<1>2. /\ draining.again \in BOOLEAN /\ draining.targets \in SUBSET Conn
      /\ draining.pc \in {"close", "walk"} => draining.arr \in 1..n /\ draining.k \in Nat \ {0}
      /\ draining.pc = "close" => draining.cur \in C
  <2> HIDE DEF C, n
  <2> QED
    BY <1>1 DEF DrainRecord
<1>3. NoDrain \in DrainRecord(n, C) /\ [NoDrain EXCEPT !.pc = "wait"] \in DrainRecord(n, C)
  BY DEF NoDrain, DrainRecord
<1>4. ASSUME draining' \in DrainRecord(n, C),
             UNCHANGED <<req, conn, poolArr, curPool, pendArr, curPend, sweep, clearing>>
      PROVE  PoolInv' /\ UNCHANGED Lease!vars
  <2>1. JobsInv(sweep', draining', clearing', n, C)
    <3> HIDE DEF C, n
    <3> QED
      BY <1>1, <1>4 DEF JobsInv
  <2> QED
    BY <1>4, <2>1, OnlyJobs
<1>5. curPool # 0 => curPool \in 1..n
  BY PoolIsCreated DEF PoolInv, ArraysInv
<1>6. CASE Drain
  BY <1>3, <1>4, <1>6 DEF Drain
<1>7. CASE DrainForces
  <2> DEFINE held == {c \in ToSet(Pool) : conn[c].inUse}
  <2>1. held \in SUBSET Conn
    BY PoolIsCreated
  <2>2. curPool # 0 => WalkFrom(curPool, 1, held, FALSE) \in DrainRecord(n, C)
    <3>1. PICK no \in BOOLEAN : no = FALSE
      OBVIOUS
    <3> HIDE DEF held
    <3>2. curPool # 0 => WalkFrom(curPool, 1, held, no) \in DrainRecord(n, C)
      BY <1>5, <2>1, WalkFromType
    <3> QED
      BY <3>1, <3>2
  <2> QED
    BY <1>3, <1>4, <1>7, <2>2 DEF DrainForces
<1>8. CASE DrainWalks
  <2>1. draining.pc = "walk"
    BY <1>8 DEF DrainWalks
  <2>2. WalkFrom(draining.arr, draining.k, draining.targets, draining.again)
          \in DrainRecord(n, C)
    BY <1>2, <2>1, WalkFromType
  <2> QED
    BY <1>4, <1>8, <2>2 DEF DrainWalks
<1>9. CASE DrainEnds
  <2>1. curPool # 0 => WalkFrom(curPool, 1, draining.targets, FALSE) \in DrainRecord(n, C)
    <3>1. PICK no \in BOOLEAN : no = FALSE
      OBVIOUS
    <3>2. curPool # 0 => WalkFrom(curPool, 1, draining.targets, no) \in DrainRecord(n, C)
      BY <1>2, <1>5, WalkFromType
    <3> QED
      BY <3>1, <3>2
  <2> QED
    BY <1>3, <1>4, <1>9, <2>1 DEF DrainEnds
<1>10. CASE DrainDisconnected
  <2>1. draining.pc = "close" /\ Disconnected(draining.cur) /\ UNCHANGED <<sweep, clearing>>
    BY <1>10 DEF DrainDisconnected
  <2>2. draining.cur \in C
    BY <1>2, <2>1
  <2>3. /\ RequestsInv(req', pendArr', curPend', conn')
        /\ ArraysInv(poolArr', curPool', Len(conn'), Created(conn'))
        /\ Len(conn') = n /\ Created(conn') = C
        /\ UNCHANGED Lease!vars
    BY <2>1, <2>2, DisconnectedKeeps
  <2> DEFINE s == [pc |-> "walk", arr |-> draining.arr, k |-> draining.k, cur |-> 0,
                   again |-> draining.again, targets |-> draining.targets]
  <2>4. s \in DrainRecord(n, C)
    <3> HIDE DEF C, n
    <3> QED
      BY <1>1, <2>1 DEF DrainRecord
  <2>5. draining' = s
    <3> HIDE DEF C, n
    <3>1. draining = [pc |-> draining.pc, arr |-> draining.arr, k |-> draining.k,
                      cur |-> draining.cur, again |-> draining.again,
                      targets |-> draining.targets]
      BY <1>1 DEF DrainRecord
    <3>2. draining' = [draining EXCEPT !.pc = "walk", !.cur = 0]
      BY <1>10 DEF DrainDisconnected
    <3> QED
      BY <3>1, <3>2
  <2>6. JobsInv(sweep', draining', clearing', n, C)
    <3> HIDE DEF s, C, n
    <3> QED
      BY <1>1, <2>1, <2>4, <2>5 DEF JobsInv
  <2> QED
    BY <2>3, <2>6 DEF PoolInv
<1> QED
  BY <1>6, <1>7, <1>8, <1>9, <1>10 DEF Draining

\* clear() rejects everybody who waits, and its disconnections are seen by nobody.
LEMMA ClearingKeeps ==
  ASSUME PoolInv, Clearing
  PROVE  PoolInv' /\ (Lease!RejectAll \/ UNCHANGED Lease!vars)
<1> DEFINE n == Len(conn)
           C == Created(conn)
<1>1. /\ QueueInv(n, req, pendArr, curPend) /\ ConnsInv(conn) /\ n <= MaxConn
      /\ Leased(req, conn) /\ ArraysInv(poolArr, curPool, n, C)
      /\ JobsInv(sweep, draining, clearing, n, C)
  BY DEF PoolInv, RequestsInv
<1>2. clearing \in ClearRecord(C) /\ clearing.left \subseteq C
  BY <1>1 DEF JobsInv, ClearRecord
<1>3. CASE Clear
  <2>1. /\ curPend' = None
        /\ req' = [r \in Reqs |-> IF r \in ToSet(WaitingIn(pendArr, curPend))
                                  THEN Rejected(req, r)[r] ELSE req[r]]
        /\ clearing' = [pc |-> "close", left |-> ToSet(Pool)]
        /\ UNCHANGED <<conn, poolArr, curPool, pendArr, sweep, draining>>
    BY <1>3, WaitingNow DEF Clear
  <2>2. /\ QueueInv(n, req', pendArr, None)
        /\ req' = [r \in Reqs |-> IF req[r].st = "pending"
                                  THEN [req[r] EXCEPT !.st = "failed"] ELSE req[r]]
    <3> HIDE DEF n
    <3> QED
      BY <1>1, <2>1, AllLeave
  <2>3. Leased(req', conn)
    <3>1. \A r \in Reqs : req'[r].st = "held" =>
            req'[r] = req[r] /\ conn[req[r].conn].inUse = conn[req[r].conn].inUse
      BY <1>1, <2>2 DEF QueueInv, RequestOf
    <3> QED
      BY <1>1, <3>1, StillLeased
  <2>4. RequestsInv(req', pendArr', curPend', conn')
    BY <1>1, <2>1, <2>2, <2>3 DEF RequestsInv
  <2>5. JobsInv(sweep', draining', clearing', n, C)
    <3>1. ToSet(Pool) \subseteq C
      BY PoolIsCreated
    <3> HIDE DEF C, n
    <3>2. clearing' \in ClearRecord(C)
      BY <2>1, <3>1 DEF ClearRecord
    <3> QED
      BY <1>1, <2>1, <3>2 DEF JobsInv
  <2>6. PoolInv'
    BY <1>1, <2>1, <2>4, <2>5 DEF PoolInv
  <2>7. Waiting' = <<>>
    BY <2>1 DEF Waiting
  <2> QED
    BY <2>2, <2>6, <2>7 DEF Lease!RejectAll
<1>4. ASSUME NEW c \in Conn, ClearDisconnected(c)
      PROVE  PoolInv' /\ UNCHANGED Lease!vars
  <2>1. /\ c \in C /\ Disconnected(c) /\ UNCHANGED <<sweep, draining>>
        /\ clearing' = [clearing EXCEPT !.left = @ \ {c}]
    BY <1>2, <1>4 DEF ClearDisconnected
  <2>2. /\ RequestsInv(req', pendArr', curPend', conn')
        /\ ArraysInv(poolArr', curPool', Len(conn'), Created(conn'))
        /\ Len(conn') = n /\ Created(conn') = C
        /\ UNCHANGED Lease!vars
    BY <2>1, DisconnectedKeeps
  <2>3. JobsInv(sweep', draining', clearing', n, C)
    <3> HIDE DEF C, n
    <3>1. clearing' \in ClearRecord(C)
      BY <1>2, <2>1 DEF ClearRecord
    <3> QED
      BY <1>1, <2>1, <3>1 DEF JobsInv
  <2> QED
    BY <2>2, <2>3 DEF PoolInv
<1>5. CASE ClearEnds
  <2>1. curPool' = 0 /\ clearing' = NoClear
        /\ UNCHANGED <<req, conn, poolArr, pendArr, curPend, sweep, draining>>
    BY <1>5 DEF ClearEnds
  <2>2. ArraysInv(poolArr', curPool', n, C)
    <3>1. n \in Nat
      BY PoolIsCreated
    <3> HIDE DEF C, n
    <3> QED
      BY <1>1, <2>1, <3>1 DEF ArraysInv
  <2>3. JobsInv(sweep', draining', clearing', n, C)
    <3> HIDE DEF C, n
    <3>1. NoClear \in ClearRecord(C)
      BY DEF NoClear, ClearRecord
    <3> QED
      BY <1>1, <2>1, <3>1 DEF JobsInv
  <2>4. PoolInv'
    BY <1>1, <2>1, <2>2, <2>3 DEF PoolInv, RequestsInv
  <2>5. UNCHANGED Lease!vars
    BY <2>1, WaitingNow DEF Lease!vars
  <2> QED
    BY <2>4, <2>5
<1> QED
  BY <1>3, <1>4, <1>5 DEF Clearing

-----------------------------------------------------------------------------
(* The theorems.                                                           *)

\* At the start nobody waits and no connection exists.
LEMMA InitInv ==
  ASSUME Init PROVE PoolInv /\ Lease!Init
<1>1. conn = <<>> /\ Len(conn) = 0 /\ Created(conn) = {} /\ DOMAIN conn = {}
  BY DEF Init, Created
<1>2. req = [r \in Reqs |-> [st |-> "new", conn |-> 0]] /\ curPend = None
      /\ pendArr = [r \in Reqs |-> <<>>]
  BY DEF Init
<1>3. QueueInv(0, req, pendArr, curPend)
  <2>1. ToSet(<<>>) = {} /\ IsInjective(<<>>) /\ <<>> \in Seq(Reqs)
    BY EmptySeq DEF ToSet, IsInjective
  <2>2. ListsPending(req, pendArr, curPend)
    BY <1>2, <2>1 DEF ListsPending, WaitingIn
  <2>3. ArraysAreSettled(req, pendArr, curPend)
    BY <1>2, <2>1, PoolAssumption DEF ArraysAreSettled
  <2>4. req \in [Reqs -> RequestOf(0)]
    BY <1>2 DEF RequestOf
  <2> QED
    BY <1>2, <2>1, <2>2, <2>3, <2>4 DEF QueueInv, Queued
<1>4. ConnsInv(conn) /\ Len(conn) <= MaxConn
  BY <1>1, EmptySeq, PoolAssumption DEF ConnsInv
<1>5. Leased(req, conn)
  BY <1>2 DEF Leased
<1>6. ArraysInv(poolArr, curPool, 0, {})
  BY EmptySeq DEF Init, ArraysInv
<1>7. JobsInv(sweep, draining, clearing, 0, {})
  BY EmptySeq DEF Init, JobsInv, NoSweep, NoDrain, NoClear, SweepRecord, DrainRecord, ClearRecord
<1>8. PoolInv
  BY <1>1, <1>3, <1>4, <1>5, <1>6, <1>7 DEF PoolInv, RequestsInv
<1>9. Waiting = <<>>
  BY <1>2 DEF Waiting
<1> QED
  BY <1>2, <1>8, <1>9 DEF Lease!Init

\* A step keeps the invariant, and is a step of the abstract lease or none.
LEMMA StepKeeps ==
  ASSUME PoolInv, [Next]_vars
  PROVE  PoolInv' /\ [Lease!Next]_(Lease!vars)
<1>1. ASSUME NEW r \in Reqs, Acquire(r) \/ Timeout(r) \/ Release(r)
      PROVE  PoolInv' /\ Lease!Next
  BY <1>1, AcquireKeeps, TimeoutKeeps, ReleaseKeeps DEF Lease!Next
<1>2. ASSUME NEW c \in DOMAIN conn, CreateOk(c) \/ CreateFails(c)
      PROVE  PoolInv' /\ [Lease!Next]_(Lease!vars)
  BY <1>2, CreateOkKeeps, CreateFailsKeeps DEF Lease!Next
<1>3. ASSUME NEW j \in Sweeps, Sweeping(j)
      PROVE  PoolInv' /\ [Lease!Next]_(Lease!vars)
  BY <1>3, SweepingKeeps
<1>4. ASSUME NEW ok \in BOOLEAN, PingSettles(ok)
      PROVE  PoolInv' /\ [Lease!Next]_(Lease!vars)
  BY <1>4, PingSettlesKeeps
<1>5. CASE Draining
  BY <1>5, DrainingKeeps
<1>6. CASE Clearing
  BY <1>6, ClearingKeeps DEF Lease!Next
<1>7. CASE UNCHANGED vars
  <2>1. UNCHANGED <<req, conn, poolArr, curPool, pendArr, curPend, sweep, draining, clearing>>
    BY <1>7 DEF vars, jobs
  <2>2. JobsInv(sweep', draining', clearing', Len(conn), Created(conn))
    BY <2>1 DEF PoolInv
  <2> QED
    BY <2>1, <2>2, OnlyJobs
<1> QED
  BY <1>1, <1>2, <1>3, <1>4, <1>5, <1>6, <1>7 DEF Next

\* The invariant of the pool holds whatever is acquired, released, swept, drained and
\* cleared in between.
THEOREM PoolInvHolds == Spec => []PoolInv
<1>1. Init => PoolInv
  BY InitInv
<1>2. PoolInv /\ [Next]_vars => PoolInv'
  BY StepKeeps
<1> QED
  BY <1>1, <1>2, PTL DEF Spec

\* Every pending request is in the array from which release() serves the next, in its
\* turn and once, and nobody who has settled is: no timeout, no clear() and no creation
\* that fails or comes too late leaves a caller of acquire() behind unheard of.
THEOREM EveryPendingIsQueued == Spec => []PendingIsQueued
<1>1. PoolInv => PendingIsQueued
  BY InvGivesQueue
<1> QED
  BY <1>1, PoolInvHolds, PTL

\* The pool implements the abstract lease, every step of it: requests are served in the
\* order of their acquire(), each is settled once, and no connection is lent to two
\* requests.
THEOREM PoolIsALease == Spec => ImplementsLease
<1>1. Init => Lease!Init
  BY InitInv
<1>2. PoolInv /\ [Next]_vars => [Lease!Next]_(Lease!vars)
  BY StepKeeps
<1> QED
  BY <1>1, <1>2, PoolInvHolds, PTL DEF Spec, ImplementsLease, Lease!Spec
=============================================================================
