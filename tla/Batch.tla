-------------------------------- MODULE Batch --------------------------------
(***************************************************************************)
(* packages/utils/src/batch.ts: batchProcess(), which processes given      *)
(* items, and the Batcher, which collects them.                            *)
(***************************************************************************)
EXTENDS Integers, Sequences, FiniteSetsExt

(***************************************************************************)
(* batchProcess() and processInChunks() of packages/utils/src/batch.ts and *)
(* the Semaphore between them.  With a concurrency of 1 the batches are    *)
(* processed in a loop that ends at the first failure; with more, every    *)
(* batch acquires a permit at once, and Promise.all() rejects with the     *)
(* first failure while the batches behind it go on.  The results are kept  *)
(* as the numbers of the batches they belong to.                           *)
(***************************************************************************)

CONSTANTS Batches,   \* number of batches the items are cut into
          MaxPermits \* largest concurrency

BatchesAssumption == Batches \in Nat /\ MaxPermits \in Nat \ {0}

VARIABLE bp

\* acquire() of a waiting batch has not resolved yet
AllInit ==
  \E c \in 1..MaxPermits :
    bp = [conc |-> c, permits |-> c, wait |-> <<>>, processed |-> 0,
          st |-> [b \in 1..Batches |-> "new"], outcome |-> "pending"]

With(s) == {b \in 1..Batches : bp.st[b] = s}

\* the loop of a concurrency of 1
Turn(b) ==
  /\ bp.conc = 1 /\ bp.outcome = "pending"
  /\ bp.st[b] = "new" /\ \A k \in 1..b - 1 : bp.st[k] = "ok"
  /\ bp' = [bp EXCEPT !.st[b] = "running"]

\* acquire(), called for one batch after the other
Acquire(b) ==
  /\ bp.conc > 1 /\ With("new") # {} /\ b = Min(With("new"))
  /\ bp' = IF bp.permits > 0
           THEN [bp EXCEPT !.permits = @ - 1, !.st[b] = "granted"]
           ELSE [bp EXCEPT !.wait = Append(@, b), !.st[b] = "waiting"]

\* the promise of acquire() has resolved, after all calls of acquire()
Begin(b) ==
  /\ bp.st[b] = "granted" /\ With("new") = {}
  /\ bp' = [bp EXCEPT !.st[b] = "running"]

\* Mutant of Release: the waiting batch does not take the permit that it is given.
ReleaseToAll(r) ==
  IF r.conc = 1 THEN r
  ELSE IF r.wait = <<>> THEN [r EXCEPT !.permits = @ + 1]
  ELSE [r EXCEPT !.permits = @ + 1, !.wait = Tail(@), !.st[Head(r.wait)] = "granted"]

\* Mutant of Release: a permit is only returned when nobody waits.
ReleaseForNobody(r) ==
  IF r.conc = 1 \/ r.wait # <<>> THEN r ELSE [r EXCEPT !.permits = @ + 1]

\* release(): the permit goes to the first that waits
Release(r) ==
  IF r.conc = 1 THEN r
  ELSE IF r.wait = <<>> THEN [r EXCEPT !.permits = @ + 1]
  ELSE [r EXCEPT !.wait = Tail(@), !.st[Head(r.wait)] = "granted"]

\* Mutant of Fail: the loop goes on behind a failure.
FailQuietly(b) ==
  /\ bp.st[b] = "running"
  /\ bp' = Release([bp EXCEPT !.st[b] = "ok"])

\* the processor resolves: the progress is reported, and the caller is told with
\* the last batch
Succeed(b) ==
  /\ bp.st[b] = "running"
  /\ LET r == Release([bp EXCEPT !.st[b] = "ok", !.processed = @ + 1]) IN
     bp' = IF \A k \in 1..Batches : r.st[k] = "ok" THEN [r EXCEPT !.outcome = "ok"] ELSE r

\* it rejects: onError() is called for the items, and the caller is told at once
Fail(b) ==
  /\ bp.st[b] = "running"
  /\ bp' = Release([bp EXCEPT !.st[b] = "failed",
                              !.outcome = IF @ = "pending" THEN "failed" ELSE @])

AllNext == \E b \in 1..Batches : Turn(b) \/ Acquire(b) \/ Begin(b) \/ Succeed(b) \/ Fail(b)

\* Processors settle, and the steps between them are microtasks.
AllFairness == \A b \in 1..Batches :
  WF_bp(Turn(b)) /\ WF_bp(Acquire(b)) /\ WF_bp(Begin(b)) /\ WF_bp(Succeed(b) \/ Fail(b))
AllSpec == AllInit /\ [][AllNext]_bp /\ AllFairness

-----------------------------------------------------------------------------
(* Properties.                                                             *)

\* The counters are bounded by the concurrency and the number of batches.
AllTypeOK == bp.permits \in 0..bp.conc /\ bp.processed \in 0..Batches

\* Permits are neither lost nor made: those that are free and those in use are
\* the concurrency, and a batch waits only while none is free.
PermitsBalance ==
  bp.conc > 1 =>
    /\ bp.permits + Cardinality(With("granted") \union With("running")) = bp.conc
    /\ bp.wait # <<>> => bp.permits = 0

\* A caller that is told of success has been told of the progress of every batch;
\* one that is told of a failure in the loop can rely on nothing running any more.
TruthfulOutcome ==
  /\ bp.outcome = "ok" => bp.processed = Batches
  /\ bp.outcome = "failed" /\ bp.conc = 1 =>
       With("running") = {} /\ Cardinality(With("failed")) = 1

\* Behind a semaphore every batch ends, also when one before it has failed and
\* the caller has been told.
EveryBatchEnds ==
  \A b \in 1..Batches : bp.conc > 1 ~> bp.st[b] \in {"ok", "failed"}

-----------------------------------------------------------------------------
(***************************************************************************)
(* Batcher of packages/utils/src/batch.ts: items are queued and processed  *)
(* together, when BatchLimit of them wait or when a timer fires.  flush()  *)
(* does nothing while a batch is processed, and resolves at once: the      *)
(* items that wait then are left to the next add(), timer or close().      *)
(***************************************************************************)

CONSTANTS Items,      \* bound on the items added, numbered in that order
          BatchLimit  \* maxBatchSize

BatchLimitAssumption == Items \in Nat /\ BatchLimit \in Nat \ {0}

VARIABLE bat

\* timer: the item whose add() has set it, 0 for null; fired: it has, and is not
\* null yet; owner: the item whose promise is that of the flush in progress;
\* promise: of each item, "none" for those that nothing settles; done: the items
\* of the batches processed; missed: history, the items that were queued when a
\* flush() found a batch in progress
BatcherInit == bat = [queue |-> <<>>, batch |-> <<>>, timer |-> 0, fired |-> FALSE,
                      processing |-> FALSE, owner |-> 0, done |-> <<>>, failed |-> {},
                      added |-> 0, promise |-> [i \in 1..Items |-> "none"], missed |-> {}]

Settled(b, i, how) == IF i = 0 THEN b ELSE [b EXCEPT !.promise[i] = how]
Missed(b) == [b EXCEPT !.missed = @ \union Range(b.queue)]

\* Mutant of Flush: the timer is stopped and not forgotten.
FlushKeepingTimer(b, i) ==
  IF b.processing \/ b.queue = <<>> THEN Settled(Missed(b), i, "ok")
  ELSE [Settled(b, i, "flush") EXCEPT
          !.processing = TRUE, !.owner = i, !.fired = TRUE,
          !.batch = b.queue, !.queue = <<>>]

\* Mutant of Flush: a batch in progress does not keep the next one from starting.
FlushOver(b, i) ==
  IF b.queue = <<>> THEN Settled(b, i, "ok")
  ELSE [Settled(b, i, "flush") EXCEPT
          !.processing = TRUE, !.owner = i, !.timer = 0, !.fired = FALSE,
          !.batch = b.queue, !.queue = <<>>]

\* Mutant of Flush: no more than BatchLimit items are taken.
FlushLimited(b, i) ==
  IF b.processing \/ b.queue = <<>> THEN Settled(Missed(b), i, "ok")
  ELSE LET n == IF Len(b.queue) < BatchLimit THEN Len(b.queue) ELSE BatchLimit IN
       [Settled(b, i, "flush") EXCEPT
          !.processing = TRUE, !.owner = i, !.timer = 0, !.fired = FALSE,
          !.batch = SubSeq(b.queue, 1, n),
          !.queue = SubSeq(b.queue, n + 1, Len(b.queue))]

\* flush() up to its await, called for item i, by close() or the application if 0
Flush(b, i) ==
  IF b.processing \/ b.queue = <<>> THEN Settled(Missed(b), i, "ok")
  ELSE [Settled(b, i, "flush") EXCEPT
          !.processing = TRUE, !.owner = i, !.timer = 0, !.fired = FALSE,
          !.batch = b.queue, !.queue = <<>>]

\* add()
Add ==
  LET i == bat.added + 1
      b == [bat EXCEPT !.added = i, !.queue = Append(@, i)] IN
  /\ i <= Items
  /\ bat' = IF Len(b.queue) >= BatchLimit THEN Flush(b, i)
            ELSE IF b.timer # 0 THEN b
            ELSE [b EXCEPT !.timer = i, !.promise[i] = "timer"]

\* Mutant of TimerFires: a batch that is not full is not worth a flush.
TimerFiresFull ==
  /\ bat.timer # 0 /\ ~bat.fired
  /\ bat' = IF Len(bat.queue) < BatchLimit THEN [bat EXCEPT !.fired = TRUE]
            ELSE Flush([bat EXCEPT !.fired = TRUE], bat.timer)

\* the timer fires: it is forgotten by a flush() that gets past its guard only
TimerFires ==
  /\ bat.timer # 0 /\ ~bat.fired
  /\ bat' = Flush([bat EXCEPT !.fired = TRUE], bat.timer)

\* close(), and flush() of the application
Close == bat' = Flush(bat, 0)

\* Mutant of ProcessorSettles: the items of a failed batch are queued again, last.
ProcessorSettlesRetrying(ok) ==
  /\ bat.processing
  /\ bat' = [Settled(bat, bat.owner, IF ok THEN "ok" ELSE "failed") EXCEPT
       !.processing = FALSE, !.batch = <<>>,
       !.done = IF ok THEN @ \o bat.batch ELSE @,
       !.queue = IF ok THEN @ ELSE @ \o bat.batch]

\* the processor resolves or rejects
ProcessorSettles(ok) ==
  /\ bat.processing
  /\ bat' = [Settled(bat, bat.owner, IF ok THEN "ok" ELSE "failed") EXCEPT
       !.processing = FALSE, !.batch = <<>>, !.done = @ \o bat.batch,
       !.failed = IF ok THEN @ ELSE @ \union Range(bat.batch)]

BatcherNext == Add \/ TimerFires \/ Close \/ \E ok \in BOOLEAN : ProcessorSettles(ok)

\* Timers fire and processors settle.
BatcherFairness == WF_bat(TimerFires) /\ WF_bat(\E ok \in BOOLEAN : ProcessorSettles(ok))
BatcherSpec == BatcherInit /\ [][BatcherNext]_bat /\ BatcherFairness

-----------------------------------------------------------------------------
(* Properties.                                                             *)

\* A batch is there while one is processed.
BatcherTypeOK ==
  /\ bat.queue \in Seq(1..bat.added) /\ bat.timer \in 0..bat.added
  /\ bat.processing <=> bat.batch # <<>>

\* Every item added is processed, being processed or queued, once and in the
\* order of the add() calls, whatever fails.
NothingLost == bat.done \o bat.batch \o bat.queue = [i \in 1..bat.added |-> i]

Armed == bat.timer # 0 /\ ~bat.fired

\* Items that nothing will process by itself have been missed by a flush() that
\* came while a batch was processed.
StrandedOnlyIfMissed ==
  bat.queue # <<>> /\ ~bat.processing /\ ~Armed => Head(bat.queue) \in bat.missed

\* The promise of an item rejects only with the batch the item was in, and
\* resolves before the item was processed only if a flush() missed the item.
HonestPromises ==
  \A i \in 1..bat.added :
    /\ bat.promise[i] = "failed" => i \in bat.failed
    /\ bat.promise[i] = "ok" /\ i \notin Range(bat.done) => i \in bat.missed

\* An item that waits while the timer runs is processed in the end, or missed.
ArmedIsProcessed ==
  \A i \in 1..Items :
    i \in Range(bat.queue) /\ Armed ~> i \in Range(bat.done) \/ i \in bat.missed
=============================================================================
