--------------------------- MODULE MiddlewareManager ---------------------------
(***************************************************************************)
(* MiddlewareManager of packages/core/src/middleware/index.ts: a list      *)
(* sorted lazily by priority, and the executions of its chain.  All next() *)
(* of one execution advance one shared index; a handler may call next()    *)
(* more than once, before it awaits the first, or not at all, and an       *)
(* execution that is timed out goes on behind its caller's back.           *)
(***************************************************************************)
EXTENDS Integers, SequencesExt, FiniteSetsExt

CONSTANTS Middlewares,  \* handlers, which are their names
          Prios,        \* priorities
          Execs,        \* calls of execute() and executeWithTimeout()
          MaxNext       \* bound on the next() calls of one handler

VARIABLE chain

NoExec == [st |-> "new", list |-> <<>>, index |-> 0, inv |-> <<>>]

Init == chain = [mws |-> <<>>, sorted |-> TRUE, exec |-> [e \in Execs |-> NoExec]]

Index(m) == CHOOSE k \in DOMAIN chain.mws : chain.mws[k].name = m
Present(m) == \E k \in DOMAIN chain.mws : chain.mws[k].name = m
Info(m, p, on) == [name |-> m, prio |-> p, on |-> on]

-----------------------------------------------------------------------------
\* Mutant of Use: the list counts as sorted although it may not be.
UseSorted(m, p, on) ==
  /\ ~Present(m)
  /\ chain' = [chain EXCEPT !.mws = Append(@, Info(m, p, on))]

\* use()
Use(m, p, on) ==
  /\ ~Present(m)
  /\ chain' = [chain EXCEPT !.mws = Append(@, Info(m, p, on)), !.sorted = FALSE]

\* insertBefore() and insertAfter(), after = 0 and 1: the place holds until the sort
Insert(m, p, at, after) ==
  /\ ~Present(m) /\ Present(at)
  /\ chain' = [chain EXCEPT !.mws = InsertAt(@, Index(at) + after, Info(m, p, TRUE)),
                            !.sorted = FALSE]

\* remove()
RemoveOne(m) ==
  /\ Present(m)
  /\ chain' = [chain EXCEPT !.mws = RemoveAt(@, Index(m))]

\* enable() and disable()
SetEnabled(m, on) ==
  /\ Present(m)
  /\ chain' = [chain EXCEPT !.mws[Index(m)].on = on]

Clear == chain' = [chain EXCEPT !.mws = <<>>, !.sorted = TRUE]

\* sortMiddlewares(): a stable sort, highest priority first
Sorted(mws) ==
  LET desc == SetToSortSeq(Prios, LAMBDA a, b : a > b) IN
  FlattenSeq([k \in DOMAIN desc |-> SelectSeq(mws, LAMBDA m : m.prio = desc[k])])

\* execute() up to its first await: the enabled handlers are copied, of which
\* their priorities are kept here, and next() calls the first of them
Execute(e) ==
  LET mws == IF chain.sorted THEN chain.mws ELSE Sorted(chain.mws)
      on == SelectSeq(mws, LAMBDA m : m.on)
      list == [k \in DOMAIN on |-> on[k].prio] IN
  /\ chain.exec[e].st = "new"
  /\ chain' = [chain EXCEPT
       !.mws = mws, !.sorted = TRUE,
       !.exec[e] = IF list = <<>> THEN [NoExec EXCEPT !.st = "ok"]
                   ELSE [st |-> "running", list |-> list, index |-> 1,
                         inv |-> <<[parent |-> 0, st |-> "running", nexts |-> 0, clean |-> TRUE]>>]]

\* Mutant of CallNext: the end of the chain is noticed one handler too early.
CallNextShort(e, i) ==
  LET x == chain.exec[e] IN
  /\ i \in DOMAIN x.inv /\ x.inv[i].st = "running" /\ x.inv[i].nexts < MaxNext
  /\ chain' = [chain EXCEPT !.exec[e] =
       IF x.index + 1 >= Len(x.list) THEN [x EXCEPT !.inv[i].nexts = @ + 1]
       ELSE [x EXCEPT !.index = @ + 1,
                      !.inv = Append([@ EXCEPT ![i].nexts = @ + 1],
                        [parent |-> i, st |-> "running", nexts |-> 0, clean |-> TRUE])]]

\* the handler of invocation i calls next()
CallNext(e, i) ==
  LET x == chain.exec[e] IN
  /\ i \in DOMAIN x.inv /\ x.inv[i].st = "running" /\ x.inv[i].nexts < MaxNext
  /\ chain' = [chain EXCEPT !.exec[e] =
       IF x.index >= Len(x.list) THEN [x EXCEPT !.inv[i].nexts = @ + 1]
       ELSE [x EXCEPT !.index = @ + 1,
                      !.inv = Append([@ EXCEPT ![i].nexts = @ + 1],
                        [parent |-> i, st |-> "running", nexts |-> 0, clean |-> TRUE])]]

\* The handler of invocation i returns or throws; the first one's promise is the
\* outcome of execute().  A handler is clean if it has called next() once, has
\* awaited it, and passes on what that threw.
Settle(e, i, ok) ==
  LET x == chain.exec[e]
      children == {j \in DOMAIN x.inv : x.inv[j].parent = i} IN
  /\ i \in DOMAIN x.inv /\ x.inv[i].st = "running"
  /\ chain' = [chain EXCEPT !.exec[e] = [x EXCEPT
       !.inv[i].st = IF ok THEN "ok" ELSE "failed",
       !.inv[i].clean = x.inv[i].nexts = 1 /\ \A j \in children :
                          x.inv[j].st = "ok" \/ (x.inv[j].st = "failed" /\ ~ok),
       !.st = IF i = 1 /\ @ = "running" THEN (IF ok THEN "ok" ELSE "failed") ELSE @]]

\* the timer of executeWithTimeout() wins the race
Timeout(e) ==
  /\ chain.exec[e].st = "running"
  /\ chain' = [chain EXCEPT !.exec[e].st = "timeout"]

Next ==
  \/ \E m \in Middlewares, p \in Prios :
       \/ \E on \in BOOLEAN : Use(m, p, on)
       \/ \E at \in Middlewares, after \in {0, 1} : Insert(m, p, at, after)
  \/ \E m \in Middlewares : RemoveOne(m) \/ \E on \in BOOLEAN : SetEnabled(m, on)
  \/ Clear
  \/ \E e \in Execs :
       \/ Execute(e) \/ Timeout(e)
       \/ \E i \in 1..Cardinality(Middlewares) :
            CallNext(e, i) \/ \E ok \in BOOLEAN : Settle(e, i, ok)

Spec == Init /\ [][Next]_chain

-----------------------------------------------------------------------------
(* Properties.                                                             *)

TypeOK ==
  /\ chain.mws \in Seq([name : Middlewares, prio : Prios, on : BOOLEAN])
  /\ \A e \in Execs : chain.exec[e].index \in 0..Len(chain.exec[e].list)

\* Whatever is inserted, removed, enabled and disabled between the executions,
\* the handlers of an execution are ordered by priority.
ByPriority ==
  \A e \in Execs : LET list == chain.exec[e].list IN
    \A j, k \in DOMAIN list : j < k => list[j] >= list[k]

\* An execution whose handlers all call next() once, await it and pass errors on
\* succeeds only after every enabled handler has run and succeeded.
CompleteChain ==
  \A e \in Execs : LET x == chain.exec[e] IN
    x.st = "ok" /\ (\A i \in DOMAIN x.inv : x.inv[i].clean /\ x.inv[i].st # "running")
      => Len(x.inv) = Len(x.list) /\ \A i \in DOMAIN x.inv : x.inv[i].st = "ok"
=============================================================================
