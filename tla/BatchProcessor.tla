---------------------------- MODULE BatchProcessor -----------------------------
(***************************************************************************)
(* BatchProcessor of packages/data-udef/src/performance/object-pool.ts: it *)
(* processes what was added together, when a batch is full or a timer      *)
(* fires, and tries a failed batch again.  The timer is set anew when a    *)
(* batch has ended, and by nothing else: one that fires while there is     *)
(* nothing to do is the last one until a batch gets full.                  *)
(***************************************************************************)
EXTENDS Integers, Sequences, SequencesExt

CONSTANTS Added,       \* bound on the items, numbered in the order of their add()
          BatchSize,   \* batchSize
          MaxRetries   \* maxRetries

BatchProcessorAssumption == BatchSize \in Nat \ {0} /\ MaxRetries \in Nat

VARIABLE ub

\* batch: the items that wait; current: those processed; tries: the attempts that
\* failed; timer: flushTimer runs; slept: history, it has ended and was not set
\* again; done: the items of the batches that ended
Init == ub = [batch |-> <<>>, current |-> <<>>, tries |-> 0, timer |-> TRUE,
              slept |-> FALSE, done |-> <<>>, added |-> 0]

\* Mutant of Flush: it does not wait for the batch in progress.
FlushOver(b) ==
  IF b.batch = <<>> THEN b
  ELSE [b EXCEPT !.current = b.batch, !.batch = <<>>, !.tries = 0]

\* flush() up to its await
Flush(b) ==
  IF b.batch = <<>> \/ b.current # <<>> THEN b
  ELSE [b EXCEPT !.current = b.batch, !.batch = <<>>, !.tries = 0]

\* add()
Add ==
  LET b == [ub EXCEPT !.added = @ + 1, !.batch = Append(@, ub.added + 1)] IN
  /\ ub.added < Added
  /\ ub' = IF Len(b.batch) >= BatchSize THEN Flush(b) ELSE b

\* the timer fires
TimerFires ==
  /\ ub.timer
  /\ ub' = Flush([ub EXCEPT !.timer = FALSE, !.slept = TRUE])

\* stop(): the timer is stopped, and what waits is flushed
Stop == ub' = Flush([ub EXCEPT !.timer = FALSE, !.slept = TRUE])

\* Mutant of Ended: the timer is not set again.
EndedUntimed(b) == [b EXCEPT !.current = <<>>, !.done = @ \o b.current]

\* the rest of flush(): its promises are settled, and startFlushTimer()
Ended(b) ==
  [b EXCEPT !.current = <<>>, !.done = @ \o b.current, !.timer = TRUE, !.slept = FALSE]

\* the processor resolves
ProcessorResolves == ub.current # <<>> /\ ub' = Ended(ub)

\* Mutant of ProcessorRejects: a batch to try again is put behind the others.
ProcessorRejectsRequeued ==
  /\ ub.current # <<>>
  /\ ub' = IF ub.tries < MaxRetries /\ ub.batch # <<>>
             THEN [ub EXCEPT !.tries = @ + 1, !.current = ub.batch, !.batch = ub.current]
           ELSE IF ub.tries < MaxRetries THEN [ub EXCEPT !.tries = @ + 1]
           ELSE Ended(ub)

\* the processor rejects: the batch is tried again after a delay, or given up
ProcessorRejects ==
  /\ ub.current # <<>>
  /\ ub' = IF ub.tries < MaxRetries THEN [ub EXCEPT !.tries = @ + 1]
           ELSE Ended(ub)

Next == Add \/ TimerFires \/ Stop \/ ProcessorResolves \/ ProcessorRejects

\* Timers fire, and the processor settles.
Fairness == WF_ub(TimerFires) /\ WF_ub(ProcessorResolves \/ ProcessorRejects)
Spec == Init /\ [][Next]_ub /\ Fairness

-----------------------------------------------------------------------------
(* Properties.                                                             *)

\* Attempts are bounded, and items are numbered as they were added.
TypeOK == ub.tries \in 0..MaxRetries /\ ub.batch \in Seq(1..ub.added)

\* Every item is processed, being processed or waiting, once and in the order of
\* the add() calls, whatever fails and is tried again.
EachOnce == ub.done \o ub.current \o ub.batch = [i \in 1..ub.added |-> i]

\* Items that nothing will flush are fewer than a batch, and the timer has ended
\* before without a batch to process.
StrandedOnlyIfSlept ==
  ub.batch # <<>> /\ ub.current = <<>> /\ ~ub.timer =>
    ub.slept /\ Len(ub.batch) < BatchSize

\* An item that waits while the timer runs, or a batch is processed, is processed.
TimedIsProcessed ==
  \A i \in 1..Added :
    Contains(ub.batch, i) /\ (ub.timer \/ ub.current # <<>>) ~> Contains(ub.done, i)
=============================================================================
