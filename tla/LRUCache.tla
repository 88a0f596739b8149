------------------------------- MODULE LRUCache -------------------------------
(***************************************************************************)
(* LRUCache of packages/utils/src/cache.ts, and the function that          *)
(* memoizeAsync() of the same file makes over one.  accessOrder holds a    *)
(* number for each key, accessCounter is increased by every access, and    *)
(* clear() sets it back.  A value is the number of the call that made it.  *)
(***************************************************************************)
EXTENDS Integers, SequencesExt, FiniteSetsExt

CONSTANTS Keys,      \* keys, which are the calls' arguments
          MaxSize,   \* maxSize
          MaxCounter,\* bound on accessCounter
          MaxFlights \* bound on the calls of the memoized function

\* maxSize || 100
LRUAssumption == MaxSize \in Nat \ {0}

VARIABLE lru

\* cache: for each key the call that made its value, 0 for none; expired: the
\* entries whose expiresAt has passed; pending: pendingCache, the call in flight;
\* flights: the calls made; recent: history, the keys of the cache in the order of
\* their last use
Init == lru = [cache |-> [k \in Keys |-> 0], access |-> [k \in Keys |-> 0], counter |-> 0,
               expired |-> {}, pending |-> [k \in Keys |-> 0], flights |-> <<>>,
               recent |-> <<>>]

Has(c, k) == c.cache[k] # 0
Size(c) == Cardinality({k \in Keys : Has(c, k)})
Others(c, k) == RemoveFirst(c.recent, k)

\* delete()
Delete(c, k) ==
  [c EXCEPT !.cache[k] = 0, !.access[k] = 0, !.expired = @ \ {k}, !.recent = Others(c, k)]

\* Mutant of Touch: the order is left alone, and entries are evicted first in first out.
TouchNot(c, k) ==
  [c EXCEPT !.access[k] = IF @ = 0 THEN c.counter + 1 ELSE @, !.counter = @ + 1,
            !.recent = Append(Others(c, k), k)]

Touch(c, k) ==
  [c EXCEPT !.access[k] = c.counter + 1, !.counter = @ + 1,
            !.recent = Append(Others(c, k), k)]

\* evictLeastRecentlyUsed(): the least access number; an expired entry may stay
Lru(c) == CHOOSE k \in Keys :
  c.access[k] # 0 /\ \A x \in Keys : c.access[x] # 0 => c.access[k] <= c.access[x]

\* Mutant of Set: the size is looked at after the insertion.
SetOver(c, k, v) ==
  LET room == IF ~Has(c, k) /\ Size(c) > MaxSize THEN Delete(c, Lru(c)) ELSE c IN
  Touch([room EXCEPT !.cache[k] = v, !.expired = @ \ {k}], k)

\* set()
Set(c, k, v) ==
  LET room == IF ~Has(c, k) /\ Size(c) >= MaxSize THEN Delete(c, Lru(c)) ELSE c IN
  Touch([room EXCEPT !.cache[k] = v, !.expired = @ \ {k}], k)

\* has(): an expired entry goes, and the order is not touched
Purge(c, k) == IF k \in c.expired THEN Delete(c, k) ELSE c

Bounded == lru.counter < MaxCounter

-----------------------------------------------------------------------------
\* the ttl of an entry passes
Expire(k) ==
  /\ Has(lru, k) /\ k \notin lru.expired
  /\ lru' = [lru EXCEPT !.expired = @ \union {k}]

\* delete() and clear() by the application
Drop(k) == Has(lru, k) /\ lru' = Delete(lru, k)

\* Mutant of Clear: the numbers start again and the order is kept.
ClearCounter ==
  lru' = [lru EXCEPT !.cache = [k \in Keys |-> 0], !.counter = 0, !.expired = {}, !.recent = <<>>]

Clear == lru' = [lru EXCEPT !.cache = [k \in Keys |-> 0], !.access = [k \in Keys |-> 0],
                            !.counter = 0, !.expired = {}, !.recent = <<>>]

\* Mutant of Call: the call in flight is not looked for.
CallAgain(k) ==
  LET c == Purge(lru, k) IN
  /\ Bounded
  /\ IF Has(c, k) THEN lru' = Touch(c, k)
     ELSE /\ Len(c.flights) < MaxFlights
          /\ lru' = [c EXCEPT !.flights = Append(@, [key |-> k, st |-> "open"]),
                              !.pending[k] = Len(c.flights) + 1]

\* the memoized function is called: get(), the call in flight, or a new call
Call(k) ==
  LET c == Purge(lru, k) IN
  /\ Bounded
  /\ IF Has(c, k) THEN lru' = Touch(c, k)
     ELSE IF c.pending[k] # 0 THEN lru' = c
     ELSE /\ Len(c.flights) < MaxFlights
          /\ lru' = [c EXCEPT !.flights = Append(@, [key |-> k, st |-> "open"]),
                              !.pending[k] = Len(c.flights) + 1]

\* the function's promise settles: a result is cached, an error is not
Settle(f, ok) ==
  /\ f \in DOMAIN lru.flights /\ lru.flights[f].st = "open" /\ Bounded
  /\ LET k == lru.flights[f].key
         c == IF ok THEN Set(lru, k, f) ELSE lru IN
     lru' = [c EXCEPT !.pending[k] = 0, !.flights[f].st = IF ok THEN "ok" ELSE "failed"]

Next ==
  \/ \E k \in Keys : Expire(k) \/ Drop(k) \/ Call(k)
  \/ Clear
  \/ \E f \in 1..MaxFlights, ok \in BOOLEAN : Settle(f, ok)

Spec == Init /\ [][Next]_lru

-----------------------------------------------------------------------------
(* Properties.                                                             *)

\* The access order has exactly the keys of the cache, with different numbers
\* that the counter has passed.
TypeOK ==
  \A k \in Keys :
    /\ lru.access[k] \in 0..lru.counter /\ (lru.access[k] = 0 <=> ~Has(lru, k))
    /\ \A x \in Keys : lru.access[k] # 0 /\ lru.access[x] = lru.access[k] => x = k

\* The cache never grows past its size.
WithinSize == Size(lru) <= MaxSize

\* An entry that leaves for a new one is the one not used for the longest time.
EvictsOldest ==
  \A k, x \in Keys :
    Has(lru, k) /\ ~Has(lru, k)' /\ ~Has(lru, x) /\ Has(lru, x)' => k = Head(lru.recent)

\* At most one call is in flight for a key, and it is the one that others wait
\* for, so the value of a key is that of its latest call to succeed, whatever
\* expires, is removed and cleared while calls are in flight.
SingleFlight ==
  \A k \in Keys :
    LET calls(st) == {f \in DOMAIN lru.flights : lru.flights[f] = [key |-> k, st |-> st]} IN
    /\ calls("open") = {lru.pending[k]} \ {0}
    /\ Has(lru, k) => lru.cache[k] = Max(calls("ok"))
=============================================================================
