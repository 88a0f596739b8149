------------------------------- MODULE HttpCache -------------------------------
(***************************************************************************)
(* CacheManager of packages/protocol-http/src/utils/cache-manager.ts over  *)
(* its two storages.  In memory each operation is one step, and a full     *)
(* storage evicts the entry with the oldest access.  In Redis get() reads  *)
(* the entry, awaits, and writes back the copy it has read with new access *)
(* data and without the expiry that set() gives, while other operations    *)
(* run: the write back may undo them.  clear() and cleanup() walk over a   *)
(* list of keys they have read before.                                     *)
(***************************************************************************)
EXTENDS Integers, SequencesExt, FiniteSetsExt

CONSTANTS CacheKeys,   \* keys
          MaxEntries,  \* maxEntries of the storage in memory
          Readers,     \* overlapping calls of get()
          MaxSets      \* bound on the calls of set(), numbered in their order

MaxEntriesAssumption == MaxEntries \in Nat \ {0}

VARIABLE ca

NoRead == [pc |-> "idle", key |-> CHOOSE k \in CacheKeys : TRUE, copy |-> 0]

\* store: the set() whose entry a key has, 0 for none; expired: the keys whose
\* `expires' has passed; ttl: those Redis will drop then; lru: the keys in memory,
\* oldest access first; wipe, sweep: what clear() and cleanup() have yet to visit;
\* last: history, the last set() of a key, 0 once it is deleted; raced: history,
\* the keys set or deleted last while a get() of theirs was at its await
Init ==
  \E redis \in BOOLEAN :
    ca = [redis |-> redis, store |-> [k \in CacheKeys |-> 0], expired |-> {}, ttl |-> {},
          lru |-> <<>>, sets |-> 0, read |-> [r \in Readers |-> NoRead], wipe |-> {},
          sweep |-> <<>>, last |-> [k \in CacheKeys |-> 0], raced |-> {}]

Stored == {k \in CacheKeys : ca.store[k] # 0}
Racing == {ca.read[r].key : r \in {q \in Readers : ca.read[q].pc # "idle"}}

Del(c, ks) ==
  [c EXCEPT !.store = [k \in CacheKeys |-> IF k \in ks THEN 0 ELSE @[k]],
            !.expired = @ \ ks, !.ttl = @ \ ks, !.lru = SelectSeq(@, LAMBDA k : k \notin ks)]

\* the keys are given up by the application
Given(c, ks) ==
  [Del(c, ks) EXCEPT !.last = [k \in CacheKeys |-> IF k \in ks THEN 0 ELSE @[k]],
                     !.raced = (@ \ ks) \union (Racing \intersect ks)]

\* a hit in memory
Touch(c, k) == [c EXCEPT !.lru = Append(SelectSeq(@, LAMBDA x : x # k), k)]

\* Mutant of Room: the storage is looked at after the insertion.
RoomForOne(c) == IF c.redis \/ Len(c.lru) <= MaxEntries THEN c ELSE Del(c, {Head(c.lru)})

\* enforceCapacityLimits(): runs before the key is looked for, so that replacing
\* an entry of a full storage evicts one as well
Room(c) == IF c.redis \/ Len(c.lru) < MaxEntries THEN c ELSE Del(c, {Head(c.lru)})

-----------------------------------------------------------------------------
\* Mutant of Put: an entry that is there already is kept.
PutIfAbsent(k) ==
  LET n == ca.sets + 1
      c == [Room(ca) EXCEPT !.sets = n, !.store[k] = IF @ = 0 THEN n ELSE @, !.last[k] = n,
                            !.raced = (@ \ {k}) \union (Racing \intersect {k})] IN
  /\ n <= MaxSets
  /\ ca' = IF ca.redis THEN [c EXCEPT !.ttl = @ \union {k}] ELSE Touch(c, k)

\* set(), and cacheResponse() of a response that may be cached
Put(k) ==
  LET n == ca.sets + 1
      c == [Room(ca) EXCEPT !.sets = n, !.store[k] = n, !.expired = @ \ {k}, !.last[k] = n,
                            !.raced = (@ \ {k}) \union (Racing \intersect {k})] IN
  /\ n <= MaxSets
  /\ ca' = IF ca.redis THEN [c EXCEPT !.ttl = @ \union {k}] ELSE Touch(c, k)

DeleteKey(k) == k \in Stored /\ ca' = Given(ca, {k})

\* clear(): in Redis the keys are listed, and then deleted, whatever they are by then
Clear ==
  ca' = IF ca.redis THEN [ca EXCEPT !.wipe = Stored] ELSE Given(ca, Stored)
Wipe == ca.wipe # {} /\ ca' = [Given(ca, ca.wipe) EXCEPT !.wipe = {}]

\* the `expires' of an entry passes; Redis drops the entries it knows the ttl of
Expire(k) == k \in Stored \ ca.expired /\ ca' = [ca EXCEPT !.expired = @ \union {k}]
RedisDrops(k) == k \in ca.expired \intersect ca.ttl /\ ca' = Del(ca, {k})

\* get() of the storage in memory
Look(c, k) == IF k \in c.expired THEN Del(c, {k})
              ELSE IF k \in Stored THEN Touch(c, k) ELSE c
MemoryGet(k) == ~ca.redis /\ k \in Stored /\ ca' = Look(ca, k)

\* get() of the storage in Redis up to its second await
RedisRead(r, k) ==
  /\ ca.redis /\ ca.read[r].pc = "idle" /\ k \in Stored
  /\ ca' = [ca EXCEPT !.read[r] = [pc |-> IF k \in ca.expired THEN "delete" ELSE "write",
                                   key |-> k, copy |-> ca.store[k]]]

\* the write back: SET without a ttl, whatever the key has become meanwhile
RedisWriteBack(r) ==
  LET x == ca.read[r] IN
  /\ x.pc = "write"
  /\ ca' = [ca EXCEPT !.read[r] = NoRead, !.store[x.key] = x.copy, !.ttl = @ \ {x.key},
                      !.expired = IF ca.store[x.key] = x.copy THEN @ ELSE @ \ {x.key}]

\* an expired entry is deleted, whatever it has become meanwhile
RedisDelete(r) ==
  /\ ca.read[r].pc = "delete"
  /\ ca' = [Del(ca, {ca.read[r].key}) EXCEPT !.read[r] = NoRead]

\* cleanup(): the keys are listed, and each is looked up, which counts as an access
Sweep == ~ca.redis /\ ca.sweep = <<>> /\ ca' = [ca EXCEPT !.sweep = SetToSeq(Stored)]
SweepOne ==
  /\ ca.sweep # <<>>
  /\ ca' = Look([ca EXCEPT !.sweep = Tail(@)], Head(ca.sweep))

Next ==
  \/ \E k \in CacheKeys :
       \/ Put(k) \/ DeleteKey(k) \/ Expire(k) \/ RedisDrops(k) \/ MemoryGet(k)
       \/ \E r \in Readers : RedisRead(r, k)
  \/ \E r \in Readers : RedisWriteBack(r) \/ RedisDelete(r)
  \/ Clear \/ Wipe \/ Sweep \/ SweepOne

Spec == Init /\ [][Next]_ca

-----------------------------------------------------------------------------
(* Properties.                                                             *)

\* The access order has exactly the keys of the storage in memory.
TypeOK ==
  /\ ca.expired \union ca.ttl \subseteq CacheKeys
  /\ ~ca.redis => ToSet(ca.lru) = Stored /\ IsInjective(ca.lru)

\* The storage in memory keeps its bound, though it is enforced before the entry
\* is put and not after it.
EntriesBounded == ~ca.redis => Cardinality(Stored) <= MaxEntries

\* A key has the entry that was set last, or none: another one, or one that was
\* deleted, only if it was set or deleted while a get() of it was under way.
LastSetStands ==
  \A k \in Stored : ca.store[k] # ca.last[k] => k \in ca.raced
=============================================================================
