---------------------------- MODULE JsonSerializer ----------------------------
(***************************************************************************)
(* packages/serialization-json/src: JSONSerializer with its cache, the     *)
(* CompressionProcessor, and the cache and the object pools of the         *)
(* PerformanceOptimizer.                                                   *)
(***************************************************************************)
EXTENDS Integers, SequencesExt, TLC

(***************************************************************************)
(* JSONSerializer of core/json-serializer.ts.  The values that a caller    *)
(* serializes differ in what JSON.stringify() and the transformers make of *)
(* them: "plain" is an object without anything special, a Date and the     *)
(* string of one, a Buffer and the object that JSON makes of it, undefined *)
(* and null inside an array, a bigint, a string that begins with the       *)
(* marker of a date, an object with the __type of a date, and undefined    *)
(* itself.                                                                 *)
(***************************************************************************)

CONSTANTS JsonCallers, \* callers of serialize()
          JsonValues,  \* what they serialize, of the kinds above
          JsonCacheMax, \* config.cache.maxSize
          JsonTimers   \* bound: timers that are set

JsonSerializerAssumption ==
  /\ JsonCacheMax \in Nat \ {0} /\ JsonTimers \in Nat
  /\ JsonValues \subseteq {"plain", "date", "dateText", "buffer", "bufferJson", "undefined",
                           "null", "bigint", "marked", "typed", "void"}

Failed == [says |-> "error", as |-> "none"]
Idle == [value |-> "nothing", as |-> "none"]

\* keyed: config.cache.enabled; cache: keys and texts, the oldest first; timers: keys of
\* the timers, in their order; calls: what a caller awaits.  History: answered, the call
\* that ended last, whether the cache answered it, and its text
VARIABLE js

JsonInit ==
  \E keyed \in BOOLEAN :
    js = [keyed |-> keyed, cache |-> <<>>, timers |-> <<>>,
          calls |-> [c \in JsonCallers |-> Idle],
          answered |-> [call |-> Idle, hit |-> FALSE, text |-> Failed]]

\* Mutant of Key: the key is made of the type.
KeyOfType(v) == IF v \in {"date", "null", "buffer", "plain"} THEN "object" ELSE v

\* defaultKeyGenerator(): JSON.stringify() of the value
Key(v) ==
  CASE v = "date" -> "dateText" [] v = "buffer" -> "bufferJson"
    [] v = "undefined" -> "null" [] OTHER -> v

\* what it throws for
Unkeyed == {"bigint", "void"}

\* applyTransformers() and JSON.stringify() of the message, for writing
Encoded(v) ==
  CASE v = "date" -> "marked" [] v \in {"undefined", "void"} -> "null" [] OTHER -> v

\* applyTransformers() for reading
Decoded(text) ==
  CASE text = "marked" -> "date" [] text = "typed" -> "error" [] OTHER -> text

\* Mutant of Deserialize: what is compressed is not told from a text.
DeserializeText(text, as) == IF as = "none" THEN Decoded(text.says) ELSE "error"

\* deserialize() with the algorithm of its options
Deserialize(text, as) ==
  IF text.as \in {"none", as} THEN Decoded(text.says) ELSE "error"

At(cache, key) == SelectInSeq(cache, LAMBDA e : e.key = key)

\* Mutant of Stored: the cache never gives anything up.
StoredMore(cache, key, text) ==
  IF At(cache, key) > 0 THEN [cache EXCEPT ![At(cache, key)].text = text]
  ELSE Append(cache, [key |-> key, text |-> text])

\* updateCache(): the oldest goes when the cache is full, also for a key that it has
Stored(cache, key, text) ==
  LET kept == IF Len(cache) >= JsonCacheMax THEN Tail(cache) ELSE cache
  IN IF At(kept, key) > 0 THEN [kept EXCEPT ![At(kept, key)].text = text]
     ELSE Append(kept, [key |-> key, text |-> text])

Answered(call, hit, text) == [call |-> call, hit |-> hit, text |-> text]

\* serialize() up to its first await
Serialize(c, v, as) ==
  LET call == [value |-> v, as |-> as]
      i == At(js.cache, Key(v))
  IN /\ js.calls[c] = Idle
     /\ js' = IF js.keyed /\ v \in Unkeyed
              THEN [js EXCEPT !.answered = Answered(call, FALSE, Failed)]
              ELSE IF js.keyed /\ i > 0
              THEN [js EXCEPT !.answered = Answered(call, TRUE, js.cache[i].text)]
              ELSE [js EXCEPT !.calls[c] = call]

\* Mutant of Timed: an entry that takes the place of another has no timer.
TimedOnce(r, key) ==
  IF Len(r.cache) < JsonCacheMax THEN [r EXCEPT !.timers = Append(@, key)] ELSE r

\* the timer of updateCache(), one for each call
Timed(r, key) == [r EXCEPT !.timers = Append(@, key)]

\* the rest of serialize(): transformed, validated, stringified, compressed and cached
Finish(c) ==
  LET call == js.calls[c]
      text == [says |-> Encoded(call.value), as |-> call.as]
      key == Key(call.value)
      ended == [js EXCEPT !.calls[c] = Idle, !.answered = Answered(call, FALSE, text)]
  IN /\ call # Idle /\ (js.keyed => Len(js.timers) < JsonTimers)
     /\ js' = IF js.keyed THEN [Timed(ended, key) EXCEPT !.cache = Stored(@, key, text)]
              ELSE ended

\* the validation or the compression rejects
Rejects(c) ==
  /\ js.calls[c] # Idle
  /\ js' = [js EXCEPT !.calls[c] = Idle, !.answered = Answered(js.calls[c], FALSE, Failed)]

\* the timer of an entry deletes its key, whoever set it last
Expire ==
  /\ js.timers # <<>>
  /\ js' = [js EXCEPT !.timers = Tail(@),
                      !.cache = SelectSeq(@, LAMBDA e : e.key # Head(js.timers))]

\* dispose() leaves the timers
DisposeSerializer == js' = [js EXCEPT !.cache = <<>>]

JsonNext ==
  \/ \E c \in JsonCallers :
       \/ \E v \in JsonValues, as \in {"none", "gzip"} : Serialize(c, v, as)
       \/ Finish(c) \/ Rejects(c)
  \/ Expire \/ DisposeSerializer

JsonSpec == JsonInit /\ [][JsonNext]_js

\* the values that JSON.stringify() writes in the same way
SameJson(v) ==
  UNION {s \in {{"date", "dateText"}, {"buffer", "bufferJson"}, {"undefined", "null"}} : v \in s}

\* Who reads a text with the options it was asked for with gets the value back.  The
\* exceptions are the values the format changes, and texts of the cache that were
\* written for a value of the same JSON or with another compression.
ReadsBack ==
  LET call == js.answered.call
      text == js.answered.text
      back == Deserialize(text, call.as)
  IN \/ text = Failed \/ back = call.value
     \/ call.value \in {"undefined", "void", "marked", "typed"}
     \/ /\ js.answered.hit
        /\ \/ text.as # call.as
           \/ \E w \in SameJson(call.value) : back = Decoded(Encoded(w))

\* The cache is within its size, has a key once, and every entry a timer to end it.
EntriesExpire ==
  /\ Len(js.cache) <= JsonCacheMax
  /\ \A i, k \in DOMAIN js.cache : js.cache[i].key = js.cache[k].key => i = k
  /\ \A i \in DOMAIN js.cache : js.cache[i].key \in ToSet(js.timers)

-----------------------------------------------------------------------------
(***************************************************************************)
(* CompressionProcessor of processors/compression-processor.ts: compress() *)
(* chooses by the size of the data as long as the adaptive selection is    *)
(* enabled, which it is by default, whatever algorithm it is asked for.    *)
(* benchmark() compresses with one algorithm after the other.  A size is   *)
(* its number among the thresholds, from tiny (1) to huge (5).             *)
(***************************************************************************)

CONSTANT CompressFrom \* config.threshold, as a number of that kind

CompressionAssumption == CompressFrom \in 1..5

Benchmarked == <<"gzip", "brotli", "deflate">>
\* adaptiveConfig.algorithmSelection
Selection == <<"none", "gzip", "gzip", "brotli", "brotli">>

\* adaptive: whether the adaptive selection is enabled; size: of the data of benchmark();
\* step: which of its algorithms it is at; picked: with which compress() began; phase:
\* what is awaited; measured: what it has results for; recommended: the answer to the
\* caller.  History: asAdaptive, asAsked: whether adaptive was on and off at every choice
VARIABLE cz

CompressionInit ==
  \E a \in BOOLEAN, s \in 1..5 :
    cz = [adaptive |-> a, size |-> s, step |-> 0, picked |-> "none", phase |-> "idle",
          measured |-> {}, recommended |-> "unknown", asAdaptive |-> TRUE, asAsked |-> TRUE]

\* Mutant of SelectAlgorithm: what is asked for is taken.
SelectAlgorithmAsked(asked) ==
  IF cz.size < CompressFrom THEN "none" ELSE asked

\* selectAlgorithm(), and compress() below its threshold
SelectAlgorithm(asked) ==
  IF cz.size < CompressFrom THEN "none"
  ELSE IF asked # "none" /\ ~cz.adaptive THEN asked
  ELSE Selection[cz.size]

\* benchmark() begins to compress with the algorithm at step s
Begins(r, s) ==
  [r EXCEPT !.step = s, !.phase = "compress", !.picked = SelectAlgorithm(Benchmarked[s]),
            !.asAdaptive = @ /\ cz.adaptive, !.asAsked = @ /\ ~cz.adaptive]

\* what recommendAlgorithm() may choose: a measured one by the criterion of its caller, or
\* the default, or none for data that hardly shrinks
Recommendable(measured) ==
  (IF measured = {} THEN {"gzip"} ELSE measured) \cup {"none"}

\* benchmark(), called by recommendAlgorithm()
Benchmark ==
  /\ cz.phase = "idle" /\ cz.recommended = "unknown"
  /\ cz' = Begins(cz, 1)

\* compress() returns, and decompress() is called with the algorithm of the step
Compressed ==
  cz.phase = "compress" /\ cz' = [cz EXCEPT !.phase = "decompress"]

\* the loop of benchmark()
Goes(r) ==
  IF r.step < 3 THEN Begins(r, r.step + 1) ELSE [r EXCEPT !.phase = "idle"]

\* decompress() returns, or throws when the data is in another format; the last one ends
\* benchmark(), of which recommendAlgorithm() makes its choice
Decompressed ==
  LET a == Benchmarked[cz.step]
      r == Goes([cz EXCEPT !.measured = IF cz.picked = a THEN @ \cup {a} ELSE @])
  IN /\ cz.phase = "decompress"
     /\ \/ r.phase # "idle" /\ cz' = r
        \/ r.phase = "idle" /\ \E m \in Recommendable(r.measured) : cz' = [r EXCEPT !.recommended = m]

\* updateAdaptiveConfig()
UpdateAdaptiveConfig == cz' = [cz EXCEPT !.adaptive = ~@]

CompressionNext ==
  Benchmark \/ Compressed \/ Decompressed \/ UpdateAdaptiveConfig

CompressionSpec == CompressionInit /\ [][CompressionNext]_cz

\* As long as the adaptive selection is enabled a recommendation follows the size of the
\* data, or is gzip because every measurement failed: deflate is never measured.  With
\* the selection off all the while, every algorithm is, unless the data is too small.
RecommendationFollowsSize ==
  cz.recommended # "unknown" =>
    /\ cz.asAdaptive => /\ cz.measured \subseteq {Selection[cz.size]}
                        /\ cz.recommended \in {Selection[cz.size], "gzip", "none"}
    /\ cz.asAsked /\ cz.size >= CompressFrom => cz.measured = ToSet(Benchmarked)

-----------------------------------------------------------------------------
(***************************************************************************)
(* The cache of PerformanceOptimizer, with a bound on the memory that it   *)
(* estimates, and an object pool.  A cached value is the caller's object,  *)
(* which the caller may change; "undefined" can be cached and never found. *)
(***************************************************************************)

CONSTANTS OptObjects,   \* objects that are cached or pooled
          OptKeys,      \* keys
          OptSize,      \* maxSize
          OptMemory,    \* maxMemory
          OptPooled,    \* maxSize of a pool
          OptDrift      \* bound: how wrong the estimate of the memory may get

OptimizerAssumption == OptSize \in Nat \ {0} /\ OptMemory \in Nat /\ OptPooled \in Nat /\ OptDrift \in Nat

\* po, the cache: keys and objects, the one used last at the end; memory: currentMemory;
\* sizes: of the objects; history: grown, a cached object was changed since the cache was
\* empty last.  pl, a pool: released objects; held: how many users an object has; history:
\* twice, an object was released although nobody had it
VARIABLES po, pl

OptimizerInit ==
  /\ po = [cache |-> <<>>, memory |-> 0, sizes |-> [o \in OptObjects |-> 1], grown |-> FALSE]
  /\ pl = [pool |-> <<>>, held |-> [o \in OptObjects |-> 0], twice |-> FALSE]

Of(cache, k) == SelectInSeq(cache, LAMBDA e : e.key = k)
EstimateSize(o) == IF o = "undefined" THEN 1 ELSE po.sizes[o]
MemoryOf(cache) == FoldLeft(LAMBDA n, e : n + EstimateSize(e.object), 0, cache)

\* get(): what is found is now the last
GetCached(k) ==
  LET i == Of(po.cache, k)
  IN /\ i > 0 /\ po.cache[i].object # "undefined"
     /\ po' = [po EXCEPT !.cache = Append(RemoveAt(@, i), po.cache[i])]

\* Mutant of Evicted: the memory of what is evicted stays counted.
EvictedUncounted(cache, memory, size) ==
  LET n == CHOOSE n \in 0..Len(cache) :
        /\ n = Len(cache) \/ (/\ Len(cache) - n < OptSize
                              /\ memory - MemoryOf(SubSeq(cache, 1, n)) + size <= OptMemory)
        /\ \A j \in 0..n - 1 :
             \/ Len(cache) - j >= OptSize
             \/ memory - MemoryOf(SubSeq(cache, 1, j)) + size > OptMemory
  IN [cache |-> SubSeq(cache, n + 1, Len(cache)), memory |-> memory]


\* the loop of set(): the oldest go until there is room or the cache is empty, each
\* with its size as it is now
Evicted(cache, memory, size) ==
  LET n == CHOOSE n \in 0..Len(cache) :
        /\ n = Len(cache) \/ (/\ Len(cache) - n < OptSize
                              /\ memory - MemoryOf(SubSeq(cache, 1, n)) + size <= OptMemory)
        /\ \A j \in 0..n - 1 :
             \/ Len(cache) - j >= OptSize
             \/ memory - MemoryOf(SubSeq(cache, 1, j)) + size > OptMemory
  IN [cache |-> SubSeq(cache, n + 1, Len(cache)),
      memory |-> memory - MemoryOf(SubSeq(cache, 1, n))]

\* set()
SetCached(k, o) ==
  LET i == Of(po.cache, k)
      without == IF i = 0 THEN po.cache ELSE RemoveAt(po.cache, i)
      before == IF i = 0 THEN po.memory ELSE po.memory - EstimateSize(po.cache[i].object)
      kept == Evicted(without, before, EstimateSize(o))
  IN /\ EstimateSize(o) <= OptMemory
     /\ po' = [po EXCEPT !.cache = Append(kept.cache, [key |-> k, object |-> o]),
                         !.memory = kept.memory + EstimateSize(o)]

\* clearCache()
ClearCache == po' = [po EXCEPT !.cache = <<>>, !.memory = 0, !.grown = FALSE]

\* the object's owner changes it
Changes(o, n) ==
  /\ po.memory - MemoryOf(po.cache) \in -OptDrift..OptDrift
  /\ po' = [po EXCEPT !.sizes[o] = n,
                      !.grown = @ \/ \E i \in DOMAIN po.cache : po.cache[i].object = o]

\* Mutant of AcquireObject: the object stays in the pool.
AcquireObjectCopy(o) ==
  /\ IF pl.pool # <<>> THEN o = Last(pl.pool) ELSE pl.held[o] = 0
  /\ pl.held[o] < 2
  /\ pl' = [pl EXCEPT !.held[o] = @ + 1]

\* acquireObject(), with what the factory makes when the pool is empty
AcquireObject(o) ==
  /\ IF pl.pool # <<>> THEN o = Last(pl.pool) ELSE pl.held[o] = 0
  /\ pl.held[o] < 2
  /\ pl' = [pl EXCEPT !.pool = IF @ = <<>> THEN @ ELSE Front(@), !.held[o] = @ + 1]

\* releaseObject(), by whoever has or had the object
ReleaseObject(o) ==
  /\ Len(pl.pool) < OptPooled
  /\ pl' = [pl EXCEPT !.pool = Append(@, o), !.held[o] = IF @ > 0 THEN @ - 1 ELSE 0,
                      !.twice = @ \/ pl.held[o] = 0]

OptCacheNext ==
  \/ \E k \in OptKeys : GetCached(k) \/ \E o \in OptObjects \cup {"undefined"} : SetCached(k, o)
  \/ \E o \in OptObjects, n \in 1..2 : Changes(o, n)
  \/ ClearCache
OptPoolNext == \E o \in OptObjects : AcquireObject(o) \/ ReleaseObject(o)

OptimizerNext ==
  \/ OptCacheNext /\ UNCHANGED pl
  \/ OptPoolNext /\ UNCHANGED po

OptimizerSpec == OptimizerInit /\ [][OptimizerNext]_<<po, pl>>

\* The memory is what the entries take, and within its bound, unless a cached object was
\* changed since: then what is subtracted for it is not what was added.
MemoryIsExact ==
  /\ Len(po.cache) <= OptSize
  /\ ~po.grown => po.memory = MemoryOf(po.cache) /\ po.memory <= OptMemory

\* An object of a pool has one user and is not in the pool, unless it was released by
\* one who did not have it any more.
OneUserOfObject ==
  ~pl.twice =>
    \A o \in OptObjects : pl.held[o] + Len(SelectSeq(pl.pool, LAMBDA x : x = o)) <= 1
=============================================================================
