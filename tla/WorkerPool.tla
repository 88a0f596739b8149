------------------------------- MODULE WorkerPool ------------------------------
(***************************************************************************)
(* WorkerPool of packages/serialization-json/src/core/async-serializer.ts. *)
(* A message of a worker reaches the handler the worker was made with and  *)
(* the once-handlers of the tasks it was given: each puts the worker back  *)
(* among the available ones, so that it is there more than once and may be *)
(* given several tasks, which the next message settles together.           *)
(***************************************************************************)
EXTENDS Integers, Sequences, SequencesExt, FiniteSets

CONSTANTS PoolSize,   \* size
          PoolTasks,  \* tasks
          MaxWorkers  \* bound on the workers made

WorkerPoolAssumption == PoolSize \in Nat \ {0} /\ MaxWorkers >= PoolSize

VARIABLE wp

\* workers, available, queue: the fields of those names; alive: the threads, those
\* replaced included; box: the tasks a thread was posted and has not answered; once:
\* the handlers on a worker; st, at, answer: of each task, what its promise is, its
\* worker, and the task whose answer it was given; replaced: history, a worker was
\* made since the queue or the available workers last ran out; crowded: history, the
\* tasks that were posted to a worker with others to answer
Init == wp = [workers |-> 1..PoolSize, available |-> [w \in 1..PoolSize |-> w],
              queue |-> <<>>, alive |-> 1..PoolSize, made |-> PoolSize,
              box |-> [w \in 1..MaxWorkers |-> <<>>], once |-> [w \in 1..MaxWorkers |-> <<>>],
              st |-> [t \in PoolTasks |-> "none"], at |-> [t \in PoolTasks |-> 0],
              answer |-> [t \in PoolTasks |-> {}], replaced |-> FALSE, crowded |-> {}]

\* processNextTask(): at most one task
ProcessNext(p) ==
  IF p.queue = <<>> \/ p.available = <<>> THEN [p EXCEPT !.replaced = FALSE]
  ELSE LET w == Head(p.available)  t == Head(p.queue) IN
       [p EXCEPT !.available = Tail(@), !.queue = Tail(@), !.st[t] = "posted", !.at[t] = w,
                 !.box[w] = Append(@, t), !.once[w] = Append(@, t),
                 !.crowded = IF p.box[w] = <<>> THEN @ ELSE @ \union {t},
                 !.replaced = @ /\ Tail(p.queue) # <<>> /\ Tail(p.available) # <<>>]

\* replaceWorker(): the old thread is not ended, and one of its entries among the
\* available workers is removed
Replace(p, w) ==
  IF w \notin p.workers THEN p
  ELSE [p EXCEPT !.workers = (@ \ {w}) \union {p.made + 1}, !.made = @ + 1,
                 !.available = Append(RemoveFirst(@, w), p.made + 1),
                 !.alive = @ \union {p.made + 1}, !.replaced = TRUE]

\* execute()
Execute(t) ==
  /\ wp.st[t] = "none"
  /\ wp' = ProcessNext([wp EXCEPT !.st[t] = "queued", !.queue = Append(@, t)])

Free(p, w) == ProcessNext([p EXCEPT !.available = Append(@, w)])

\* Mutant of Answered: the worker is put back and the queue is not looked at.
AnsweredQuietly(p, w, x) ==
  LET t == Head(p.once[w]) IN
  [p EXCEPT !.once[w] = Tail(@), !.st[t] = IF @ = "posted" THEN "settled" ELSE @,
            !.answer[t] = IF p.st[t] = "posted" THEN {x} ELSE @,
            !.available = Append(@, w)]

\* a once-handler, given the answer to task x
Answered(p, w, x) ==
  LET t == Head(p.once[w]) IN
  Free([p EXCEPT !.once[w] = Tail(@), !.st[t] = IF @ = "posted" THEN "settled" ELSE @,
                 !.answer[t] = IF p.st[t] = "posted" THEN {x} ELSE @], w)

\* Mutant of Message: a handler that is added meanwhile is called, too.
MessageToAll(w) ==
  LET x == Head(wp.box[w])
      p == Free([wp EXCEPT !.box[w] = Tail(@)], w) IN
  /\ w \in wp.alive /\ wp.box[w] # <<>>
  /\ wp' = FoldLeft(LAMBDA q, t : Answered(q, w, x), p, p.once[w])

\* a worker answers the first task of its box: its own handler runs, then the
\* once-handlers that were there before
Message(w) ==
  LET x == Head(wp.box[w]) IN
  /\ w \in wp.alive /\ wp.box[w] # <<>>
  /\ wp' = FoldLeft(LAMBDA p, t : Answered(p, w, x),
                    Free([wp EXCEPT !.box[w] = Tail(@)], w), wp.once[w])

\* the 30 seconds of a task are over
Timeout(t) ==
  /\ wp.st[t] = "posted" /\ (wp.at[t] \in wp.workers => wp.made < MaxWorkers)
  /\ wp' = Replace([wp EXCEPT !.st[t] = "failed"], wp.at[t])

\* a thread ends with an error
Crash(w) ==
  /\ w \in wp.alive /\ (w \in wp.workers => wp.made < MaxWorkers)
  /\ wp' = Replace([wp EXCEPT !.alive = @ \ {w}], w)

\* dispose(): the queued tasks are forgotten
Dispose ==
  wp' = [wp EXCEPT !.alive = @ \ wp.workers, !.workers = {}, !.available = <<>>, !.queue = <<>>]

Next == \/ Dispose
        \/ \E t \in PoolTasks : Execute(t) \/ Timeout(t)
        \/ \E w \in 1..wp.made : Message(w) \/ Crash(w)

Spec == Init /\ [][Next]_wp

-----------------------------------------------------------------------------
(* Properties.                                                             *)

\* The pool has its size, unless it was disposed of; a queued task is in the queue.
TypeOK ==
  /\ wp.workers = {} \/ Cardinality(wp.workers) = PoolSize
  /\ \A k \in 1..Len(wp.queue) : wp.st[wp.queue[k]] = "queued"

\* Tasks and available workers are left beside one another only when a worker was
\* made: replaceWorker() does not look at the queue.
IdleOnlyIfReplaced ==
  wp.queue # <<>> /\ wp.available # <<>> => wp.replaced

\* A task is settled with the answer to another one only if it was posted to a
\* worker that had that one to answer still.
OwnUnlessCrowded ==
  \A t \in PoolTasks : wp.st[t] = "settled" => wp.answer[t] = {t} \/ t \in wp.crowded
=============================================================================
