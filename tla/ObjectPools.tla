----------------------------- MODULE ObjectPools -----------------------------
(***************************************************************************)
(* packages/data-udef/src/performance/object-pool.ts: the pool of objects  *)
(* that are used again, and the cache of serialized messages.              *)
(***************************************************************************)
EXTENDS Integers, SequencesExt

(***************************************************************************)
(* ObjectPool of packages/data-udef/src/performance/object-pool.ts: idle   *)
(* objects on a stack, objects in use in a set, and callers who keep what  *)
(* they have released.                                                     *)
(***************************************************************************)

CONSTANTS Borrowers,    \* callers of acquire() and release()
          Objects,    \* bound: objects the factory makes
          IdleMax,    \* maxSize
          IdleInit    \* initialSize

ObjectPoolAssumption ==
  /\ IdleMax \in Nat \ {0} /\ IdleInit \in 0..IdleMax /\ Objects \in Nat /\ IdleInit <= Objects

VARIABLE op

\* pool: the idle objects, the top one last; old: how many of them, from the bottom,
\* have outlived the ttl; current: stats.currentSize; ref: what a caller got last;
\* history: uses, the caller has not released it; stale: an object in use was released
\* by a caller who had released it before
PoolInit == op = [pool |-> [k \in 1..IdleInit |-> k], old |-> 0, active |-> {},
                  made |-> IdleInit, current |-> IdleInit,
                  ref |-> [h \in Borrowers |-> 0], uses |-> [h \in Borrowers |-> FALSE],
                  stale |-> FALSE, exhausted |-> FALSE]

Give(p, h, o) ==
  [p EXCEPT !.active = @ \cup {o}, !.ref[h] = o, !.uses[h] = TRUE]

\* Mutant of Acquire: the object stays on the stack.
AcquireSharing(h) ==
  /\ ~op.uses[h]
  /\ op.pool # <<>>
  /\ op' = Give(op, h, Last(op.pool))

\* acquire(): getFromPool() pops the objects that are too old or not valid, n is the
\* place of the first that is neither, and an empty stack lets the factory make one
Acquire(h) ==
  /\ ~op.uses[h]
  /\ \/ \E n \in op.old + 1..Len(op.pool) :
          op' = Give([op EXCEPT !.pool = SubSeq(@, 1, n - 1), !.current = n - 1], h, op.pool[n])
     \/ LET p == [op EXCEPT !.pool = <<>>, !.old = 0, !.current = 0] IN
        IF p.current < IdleMax
        THEN /\ op.made < Objects
             /\ op' = Give([p EXCEPT !.made = @ + 1], h, op.made + 1)
        ELSE op' = [p EXCEPT !.exhausted = TRUE]

\* Mutant of Release: an object that is not in use is taken as well.
ReleaseAny(h, valid) ==
  /\ op.ref[h] # 0
  /\ LET o == op.ref[h]
         p == [op EXCEPT !.active = @ \ {o}, !.uses[h] = FALSE,
                         !.stale = @ \/ (o \in op.active /\ ~op.uses[h])] IN
     op' = IF ~valid \/ Len(p.pool) >= IdleMax THEN p
           ELSE [p EXCEPT !.pool = Append(@, o), !.current = Len(p.pool) + 1]

\* Mutant of Release: currentSize is left.
ReleaseUncounted(h, valid) ==
  /\ op.ref[h] # 0
  /\ LET o == op.ref[h]
         p == [op EXCEPT !.active = @ \ {o}, !.uses[h] = FALSE,
                         !.stale = @ \/ (o \in op.active /\ ~op.uses[h])] IN
     op' = IF o \notin op.active \/ ~valid \/ Len(p.pool) >= IdleMax
           THEN p
           ELSE [p EXCEPT !.pool = Append(@, o)]

\* release(), by a caller who holds the object or once held it; one that cannot be
\* reset, or is not valid, is dropped
Release(h, valid) ==
  /\ op.ref[h] # 0
  /\ LET o == op.ref[h]
         p == [op EXCEPT !.active = @ \ {o}, !.uses[h] = FALSE,
                         !.stale = @ \/ (o \in op.active /\ ~op.uses[h])] IN
     op' = IF o \notin op.active \/ ~valid \/ Len(p.pool) >= IdleMax THEN p
           ELSE [p EXCEPT !.pool = Append(@, o), !.current = Len(p.pool) + 1]

\* time passes for the oldest of the idle objects that are not too old yet
Age ==
  /\ op.old < Len(op.pool)
  /\ op' = [op EXCEPT !.old = @ + 1]

\* cleanup() of the interval
PoolCleanup ==
  /\ op.old > 0
  /\ op' = [op EXCEPT !.pool = SubSeq(@, op.old + 1, Len(@)), !.old = 0,
                      !.current = Len(op.pool) - op.old]

\* clear(), destroy(): the callers keep what they have
PoolClear ==
  op' = [op EXCEPT !.pool = <<>>, !.old = 0, !.active = {}, !.current = 0]

PoolNext ==
  \/ Age \/ PoolCleanup \/ PoolClear
  \/ \E h \in Borrowers : Acquire(h) \/ \E valid \in BOOLEAN : Release(h, valid)

PoolSpec == PoolInit /\ [][PoolNext]_op

-----------------------------------------------------------------------------
(* Properties.                                                             *)

\* The count of idle objects is exact and bounded, and so the stack that was emptied
\* never counts as full: maxSize does not bound the objects in use, and acquire()
\* never throws.
CountsIdle ==
  /\ op.current = Len(op.pool) /\ Len(op.pool) <= IdleMax /\ op.old \in 0..Len(op.pool)
  /\ ~op.exhausted

\* An object is idle once, and never both idle and in use.
IdleOrActive ==
  /\ IsInjective(op.pool)
  /\ ToSet(op.pool) \cap op.active = {}

\* No two callers use one object, unless a caller released what it had released
\* before and another caller had got.
OneUser ==
  ~op.stale =>
    /\ \A g, h \in Borrowers : g # h /\ op.uses[g] /\ op.uses[h] => op.ref[g] # op.ref[h]
    /\ \A h \in Borrowers : op.uses[h] => ~Contains(op.pool, op.ref[h])

-----------------------------------------------------------------------------
(***************************************************************************)
(* SerializationCache of packages/data-udef/src/performance/object-pool.ts *)
(* with its bounds on the number and the total size of its entries.  The   *)
(* size of an entry that get() finds expired stays in the total; set()     *)
(* evicts until the total leaves room, for ever if it never does.          *)
(***************************************************************************)

CONSTANTS CacheNames,  \* keys
          Sizes,       \* sizes of values
          MaxBytes,    \* maxSize
          MaxItems,    \* maxEntries
          MaxUses      \* bound on the access count of an entry

SerializationCacheAssumption == MaxItems \in Nat \ {0} /\ Sizes \subseteq Nat \ {0}

VARIABLE sc

NoItem == [size |-> 0, uses |-> 0, old |-> FALSE]

\* cache: the keys in the order of the Map, of: their entries; order: accessOrder;
\* total, entries: of the statistics; hung: a set() does not end; drift: history, the
\* sizes of expired entries that get() has left in the total; big: history, the size
\* the last set() has asked for
CacheInit == \E a \in {"lru", "lfu"} :
  sc = [algorithm |-> a, cache |-> <<>>, order |-> <<>>, total |-> 0, entries |-> 0,
        of |-> [k \in CacheNames |-> NoItem], hung |-> FALSE, drift |-> 0, big |-> 0]

Dropped(c, k) ==
  [c EXCEPT !.cache = RemoveFirst(@, k), !.order = RemoveFirst(@, k), !.of[k] = NoItem]

\* delete() of a key that is there
Deleted(c, k) == [Dropped(c, k) EXCEPT !.total = @ - c.of[k].size, !.entries = @ - 1]

\* updateAccessOrder()
Recent(c, k) == [c EXCEPT !.order = Append(RemoveFirst(@, k), k)]

\* findLeastFrequentlyUsed(): the first one in the order of the Map
LeastUsed(c) ==
  c.cache[CHOOSE i \in 1..Len(c.cache) : \A j \in 1..Len(c.cache) :
    LET u == c.of[c.cache[i]].uses  v == c.of[c.cache[j]].uses IN
    u < v \/ (u = v /\ i <= j)]

\* evictOne()
EvictOne(c) ==
  IF c.cache = <<>> THEN c
  ELSE Deleted(c, IF c.algorithm = "lfu" THEN LeastUsed(c) ELSE Head(c.order))

Evicted(c, n) == FoldLeft(LAMBDA x, i : EvictOne(x), c, [i \in 1..n |-> i])

\* Mutant of HasRoom: the total is compared without the new value.
HasRoomWithout(c, size) == Len(c.cache) < MaxItems /\ c.total <= MaxBytes

\* the conditions of ensureCapacity()
HasRoom(c, size) == Len(c.cache) < MaxItems /\ c.total + size <= MaxBytes

\* ensureCapacity(): as few evictions as leave room, or a loop without an end
EnsureCapacity(c, size) ==
  LET enough == {n \in 0..Len(c.cache) : HasRoom(Evicted(c, n), size)} IN
  IF enough = {} THEN [Evicted(c, Len(c.cache)) EXCEPT !.hung = TRUE]
  ELSE Evicted(c, CHOOSE n \in enough : \A m \in enough : n <= m)

\* Mutant of Set: the size of the value replaced stays in the total.
SetAdding(k, size) ==
  LET c == EnsureCapacity([sc EXCEPT !.big = size], size)
      new == ~Contains(c.cache, k) IN
  /\ ~sc.hung
  /\ sc' = IF c.hung THEN c
           ELSE Recent([c EXCEPT !.of[k] = [size |-> size, uses |-> 1, old |-> FALSE],
                          !.cache = IF new THEN Append(@, k) ELSE @,
                          !.entries = IF new THEN @ + 1 ELSE @, !.total = @ + size], k)

\* set()
Set(k, size) ==
  LET c == EnsureCapacity([sc EXCEPT !.big = size], size)
      new == ~Contains(c.cache, k) IN
  /\ ~sc.hung
  /\ sc' = IF c.hung THEN c
           ELSE Recent([c EXCEPT !.of[k] = [size |-> size, uses |-> 1, old |-> FALSE],
                          !.cache = IF new THEN Append(@, k) ELSE @,
                          !.entries = IF new THEN @ + 1 ELSE @,
                          !.total = @ - c.of[k].size + size], k)

\* get() of a key that is there
Get(k) ==
  /\ ~sc.hung /\ Contains(sc.cache, k) /\ sc.of[k].uses < MaxUses
  /\ sc' = IF sc.of[k].old
             THEN [Dropped(sc, k) EXCEPT !.entries = Len(sc.cache) - 1, !.drift = @ + sc.of[k].size]
             ELSE Recent([sc EXCEPT !.of[k].uses = @ + 1], k)

\* delete()
Delete(k) == ~sc.hung /\ Contains(sc.cache, k) /\ sc' = Deleted(sc, k)

\* cleanup(): the expired entries
CacheCleanup ==
  /\ ~sc.hung
  /\ sc' = FoldLeft(Deleted, sc, SelectSeq(sc.cache, LAMBDA k : sc.of[k].old))

\* clear()
CacheClear ==
  /\ ~sc.hung
  /\ sc' = [sc EXCEPT !.cache = <<>>, !.order = <<>>, !.entries = 0, !.total = 0,
              !.drift = 0, !.of = [k \in CacheNames |-> NoItem]]

\* the ttl of an entry passes
Expire(k) ==
  /\ ~sc.hung /\ Contains(sc.cache, k) /\ ~sc.of[k].old
  /\ sc' = [sc EXCEPT !.of[k].old = TRUE]

CacheNext == \/ CacheCleanup \/ CacheClear
             \/ \E k \in CacheNames : \/ Get(k) \/ Delete(k) \/ Expire(k)
                                      \/ \E s \in Sizes : Set(k, s)

CacheSpec == CacheInit /\ [][CacheNext]_sc

-----------------------------------------------------------------------------
(* Properties.                                                             *)

Bytes(c) == FoldLeft(LAMBDA n, k : n + c.of[k].size, 0, c.cache)

\* The access order lists the keys of the cache, each of them once.
TypeOK ==
  /\ ToSet(sc.order) = ToSet(sc.cache) /\ Len(sc.order) = Len(sc.cache)
  /\ sc.entries = Len(sc.cache)

\* The total is the sizes of the entries and those of the expired ones that were
\* read; without the latter it is exact.
TotalIsAccounted == sc.total = Bytes(sc) + sc.drift

\* The cache keeps both of its bounds.
WithinBounds == Len(sc.cache) <= MaxItems /\ Bytes(sc) <= MaxBytes

\* A set() that does not end was given a value larger than the cache, or comes
\* after expired entries were read.
HangsOnlyIfDrifted == sc.hung => sc.big > MaxBytes \/ sc.drift > 0
=============================================================================
