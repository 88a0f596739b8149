------------------------------ MODULE AsyncQueue ------------------------------
(***************************************************************************)
(* AsyncQueue of packages/utils/src/async.ts: at most QConc jobs run, the  *)
(* others wait in the order they were added.  A job may add a job to the   *)
(* queue it runs in and await it.  The promise of add() settles with the   *)
(* job; the finally block that starts the next job runs a few microtasks   *)
(* later, and other code, add() included, may run in between.              *)
(***************************************************************************)
EXTENDS Integers, Sequences, FiniteSets

CONSTANTS Jobs,   \* bound on the jobs that are added, numbered in that order
          QConc   \* the constructor's concurrency

QConcAssumption == Jobs \in Nat /\ QConc \in Nat \ {0}

VARIABLE aq

\* of a job: whether it is queued, runs, has settled, or has left process();
\* awaits: the job it added and awaits, 0 for none
Init == aq = [queue |-> <<>>, running |-> 0, added |-> 0,
              st |-> [j \in 1..Jobs |-> "new"], awaits |-> [j \in 1..Jobs |-> 0]]

Blocked(q, j) == q.awaits[j] # 0 /\ q.st[q.awaits[j]] \in {"queued", "running"}

\* Mutant of Process: the newest job is taken.
ProcessLast(q) ==
  IF q.running >= QConc \/ q.queue = <<>> THEN q
  ELSE [q EXCEPT !.running = @ + 1, !.queue = SubSeq(@, 1, Len(@) - 1),
                 !.st[q.queue[Len(q.queue)]] = "running"]

\* process()
Process(q) ==
  IF q.running >= QConc \/ q.queue = <<>> THEN q
  ELSE [q EXCEPT !.running = @ + 1, !.queue = Tail(@), !.st[Head(q.queue)] = "running"]

\* add(), called by job `by' that then awaits it, or by somebody else for by = 0
Add(by) ==
  LET j == aq.added + 1 IN
  /\ j <= Jobs
  /\ by # 0 => aq.st[by] = "running" /\ ~Blocked(aq, by)
  /\ aq' = Process([aq EXCEPT !.added = j, !.queue = Append(@, j), !.st[j] = "queued",
                              !.awaits = [k \in 1..Jobs |-> IF k = by THEN j ELSE @[k]]])

\* the function of job j returns or throws: the promise of its add() settles
Settle(j) ==
  /\ aq.st[j] = "running" /\ ~Blocked(aq, j)
  /\ aq' = [aq EXCEPT !.st[j] = "settled"]

\* Mutant of Release: a job that ends does not start the next one.
ReleaseOnly(j) ==
  /\ aq.st[j] = "settled"
  /\ aq' = [aq EXCEPT !.running = @ - 1, !.st[j] = "left"]

\* Mutant of Release: the slot is given back before the job that takes it starts.
ReleaseTwice(j) ==
  /\ aq.st[j] = "settled"
  /\ aq' = Process(Process([aq EXCEPT !.running = @ - 2, !.st[j] = "left"]))

\* the finally block of process(): a failed job passes here as well.  For a failed one the
\* promise of process() rejects after this step, and nobody handles that: a program that ends
\* on unhandled rejections, as the kernel's shutdown handlers make it, ends here.  The
\* behaviours that go on are those of one that does not, with the queue in this same state.
Release(j) ==
  /\ aq.st[j] = "settled"
  /\ aq' = Process([aq EXCEPT !.running = @ - 1, !.st[j] = "left"])

Next ==
  \/ \E by \in 0..Jobs : Add(by)
  \/ \E j \in 1..Jobs : Settle(j) \/ Release(j)

\* A job that need not wait for another one settles, and promises do their steps.
Fairness == \A j \in 1..Jobs : WF_aq(Settle(j)) /\ WF_aq(Release(j))
Spec == Init /\ [][Next]_aq /\ Fairness

-----------------------------------------------------------------------------
(* Properties.                                                             *)

\* The jobs that have a slot, a settled one until its finally block.
Holders == {j \in 1..Jobs : aq.st[j] \in {"running", "settled"}}

\* The queue and the counters have their types.
TypeOK ==
  /\ aq.queue \in Seq(1..aq.added)
  /\ aq.running \in 0..QConc

\* The counter is exact, so no more than QConc jobs run, and a job waits only
\* while every slot is taken: an ended job never leaves its slot unused.
WorkConserving ==
  /\ aq.running = Cardinality(Holders)
  /\ aq.queue # <<>> => aq.running = QConc

\* Jobs start in the order they were added, whichever of their predecessors end.
StartedInOrder ==
  \A j, k \in 1..aq.added : j < k /\ aq.st[j] = "queued" => aq.st[k] = "queued"

\* Every slot is taken by a job that awaits a queued one: nothing can move.
Starved == Holders # {} /\ \A j \in Holders : Blocked(aq, j)

\* A job that was added settles, unless the queue is starved by jobs that await
\* jobs of the same queue.
SettlesOrStarves ==
  \A j \in 1..Jobs : aq.st[j] = "queued" ~> aq.st[j] # "queued" \/ Starved
=============================================================================
