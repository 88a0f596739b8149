------------------------------- MODULE TaskQueue -------------------------------
(***************************************************************************)
(* TaskQueue of packages/serialization-json/src/core/async-serializer.ts:  *)
(* a bounded queue in the order of priorities, whose tasks are started in  *)
(* a later turn of the event loop, `concurrency' of them at a time.        *)
(***************************************************************************)
EXTENDS Integers, Sequences, SequencesExt

CONSTANTS QTasks,      \* tasks, numbered in the order of their add()
          Priorities,  \* their priorities
          TaskLimit,   \* maxSize
          TaskConc     \* concurrency

TaskQueueAssumption == TaskLimit \in Nat \ {0} /\ TaskConc \in Nat \ {0}

VARIABLE tq

\* st: of each task; taken: history, the tasks in the order the loop took them
Init == tq = [queue |-> <<>>, active |-> 0, added |-> 0, taken |-> <<>>,
              st |-> [t \in 1..QTasks |-> "none"], prio |-> [t \in 1..QTasks |-> 0]]

\* Mutant of Process: the task that was added last is taken.
ProcessLast(q) ==
  LET room == TaskConc - q.active
      n == IF room < Len(q.queue) THEN room ELSE Len(q.queue)
      ts == SubSeq(Reverse(q.queue), 1, n) IN
  [q EXCEPT !.queue = SubSeq(@, 1, Len(@) - n), !.active = @ + n, !.taken = @ \o ts,
            !.st = [t \in 1..QTasks |-> IF Contains(ts, t) THEN "running" ELSE @[t]]]

\* processQueue(): the loop has no await
Process(q) ==
  LET room == TaskConc - q.active
      n == IF room < Len(q.queue) THEN room ELSE Len(q.queue)
      ts == SubSeq(q.queue, 1, n) IN
  [q EXCEPT !.queue = SubSeq(@, n + 1, Len(@)), !.active = @ + n, !.taken = @ \o ts,
            !.st = [t \in 1..QTasks |-> IF Contains(ts, t) THEN "running" ELSE @[t]]]

\* Mutant of Position: in front of the tasks of its own priority.
PositionFirst(q, p) ==
  LET before == {k \in 1..Len(q.queue) : q.prio[q.queue[k]] <= p} IN
  IF before = {} THEN Len(q.queue) + 1 ELSE CHOOSE k \in before : \A l \in before : k <= l

\* the place of a task: before the first one of a lower priority
Position(q, p) ==
  LET lower == {k \in 1..Len(q.queue) : q.prio[q.queue[k]] < p} IN
  IF lower = {} THEN Len(q.queue) + 1 ELSE CHOOSE k \in lower : \A l \in lower : k <= l

\* add()
Add(p) ==
  LET t == tq.added + 1
      q == [tq EXCEPT !.added = t, !.prio[t] = p] IN
  /\ t <= QTasks
  /\ tq' = IF Len(q.queue) >= TaskLimit THEN [q EXCEPT !.st[t] = "rejected"]
           ELSE Process([q EXCEPT !.st[t] = "queued",
                                  !.queue = InsertAt(@, Position(q, p), t)])

\* Mutant of Settle: the queue waits for the next add().
SettleQuietly(t) ==
  /\ tq.st[t] = "running"
  /\ tq' = [tq EXCEPT !.st[t] = "settled", !.active = @ - 1]

\* executeTask() of a task settles, and the finally block goes on with the queue
Settle(t) ==
  /\ tq.st[t] = "running"
  /\ tq' = Process([tq EXCEPT !.st[t] = "settled", !.active = @ - 1])

\* clear(): the queued tasks are rejected, the running ones go on
Clear ==
  tq' = [tq EXCEPT !.queue = <<>>,
           !.st = [t \in 1..QTasks |-> IF @[t] = "queued" THEN "rejected" ELSE @[t]]]

Next == Clear \/ \E p \in Priorities : Add(p) \/ \E t \in 1..QTasks : Settle(t)

Fairness == \A t \in 1..QTasks : WF_tq(Settle(t))
Spec == Init /\ [][Next]_tq /\ Fairness

-----------------------------------------------------------------------------
(* Properties.                                                             *)

\* The queue holds the queued tasks, within its size.
TypeOK ==
  /\ Len(tq.queue) <= TaskLimit
  /\ ToSet(tq.queue) = {t \in 1..QTasks : tq.st[t] = "queued"}

\* The count of active tasks is that of the tasks running, never above the limit,
\* and below it only while nobody waits.
SlotsAreUsed ==
  /\ tq.active = Len(SelectSeq(tq.taken, LAMBDA t : tq.st[t] = "running"))
  /\ tq.active <= TaskConc
  /\ tq.queue # <<>> => tq.active = TaskConc

\* Of two tasks that wait together the one of the higher priority is in front, and
\* of the same priority the older one.
UrgentFirst ==
  \A k, l \in 1..Len(tq.queue) : k < l =>
    LET s == tq.queue[k]  t == tq.queue[l] IN
    tq.prio[s] > tq.prio[t] \/ (tq.prio[s] = tq.prio[t] /\ s < t)

\* No task that is taken leaves a more urgent one behind.
TakesTheMostUrgent ==
  [][\A t \in ToSet(tq'.taken) \ ToSet(tq.taken) :
       \A s \in ToSet(tq'.queue) : tq'.prio[s] <= tq'.prio[t]]_tq

\* Every task that is added settles or is rejected.
TaskEnds ==
  \A t \in 1..QTasks : tq.st[t] = "queued" ~> tq.st[t] \in {"settled", "rejected"}
=============================================================================
