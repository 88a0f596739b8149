------------------------------ MODULE PromiseAll ------------------------------
(***************************************************************************)
(* promiseAll() of packages/utils/src/async.ts with a concurrency below    *)
(* the number of tasks.  The loop starts the tasks, and when PConc of them *)
(* are in `executing' it awaits the race of those.  findIndex() is then    *)
(* given promises, which are truthy, so the first of `executing' is the    *)
(* one removed whichever of them settled.                                  *)
(***************************************************************************)
EXTENDS Integers, Sequences, FiniteSetsExt

CONSTANTS Tasks,  \* number of tasks
          PConc   \* the concurrency option

PConcAssumption == Tasks \in Nat /\ PConc \in 1..Tasks - 1

VARIABLE pa

\* pc: "loop" before task i is started, "race" and "all" at the awaits; winner:
\* the promise that decides the race; inOrder: history, whether the tasks have
\* settled in the order they were started
Init == pa = [pc |-> "loop", i |-> 1, executing |-> <<>>, winner |-> 0, inOrder |-> TRUE,
              st |-> [t \in 1..Tasks |-> "new"], outcome |-> "pending"]

With(s) == {t \in 1..Tasks : pa.st[t] = s}
Settled == With("ok") \union With("failed")
Of(s) == {s[k] : k \in DOMAIN s}

\* the loop up to the next await: a race is won by the first promise of the list
\* that has settled already
Start ==
  LET ex == Append(pa.executing, pa.i)
      over == Of(ex) \intersect Settled IN
  /\ pa.pc = "loop"
  /\ pa' = [pa EXCEPT !.st[pa.i] = "running", !.executing = ex, !.i = @ + 1,
                      !.pc = IF Len(ex) < PConc THEN "loop" ELSE "race",
                      !.winner = IF Len(ex) < PConc \/ over = {} THEN 0
                                 ELSE ex[Min({k \in DOMAIN ex : ex[k] \in over})]]

\* a task settles, and with it perhaps the race
Settle(t, ok) ==
  /\ pa.st[t] = "running" /\ pa.pc # "loop"
  /\ pa' = [pa EXCEPT !.st[t] = IF ok THEN "ok" ELSE "failed",
                      !.winner = IF pa.pc = "race" /\ @ = 0 /\ t \in Of(pa.executing)
                                 THEN t ELSE @,
                      !.inOrder = @ /\ t = Min(With("running"))]

Won == pa.pc = "race" /\ pa.winner # 0 /\ pa.st[pa.winner] = "ok"
After == IF pa.i > Tasks THEN "all" ELSE "loop"

\* Mutant of RaceWon: the newest promise is removed in place of the oldest.
RaceWonRemovingLast ==
  /\ Won
  /\ pa' = [pa EXCEPT !.executing = SubSeq(@, 1, Len(@) - 1), !.pc = After]

\* Mutant of RaceWon: nothing is removed, and the list grows.
RaceWonKeeping ==
  /\ Won
  /\ pa' = [pa EXCEPT !.pc = After]

\* the race is won: the first promise is removed, whichever the winner is
RaceWon ==
  /\ Won
  /\ pa' = [pa EXCEPT !.executing = Tail(@), !.pc = After]

\* a failed task decides the race or the final Promise.all(); one that was removed
\* from `executing' is noticed by nobody
Lost ==
  /\ \/ pa.pc = "race" /\ pa.winner \in With("failed")
     \/ pa.pc = "all" /\ Of(pa.executing) \intersect With("failed") # {}
  /\ pa' = [pa EXCEPT !.pc = "end", !.outcome = "failed"]

\* Mutant of Resolve: the final Promise.all() is not awaited.
ResolveAtOnce ==
  /\ pa.pc = "all"
  /\ pa' = [pa EXCEPT !.pc = "end", !.outcome = "ok"]

Resolve ==
  /\ pa.pc = "all" /\ \A t \in Of(pa.executing) : pa.st[t] = "ok"
  /\ pa' = [pa EXCEPT !.pc = "end", !.outcome = "ok"]

Next ==
  \/ Start \/ RaceWon \/ Lost \/ Resolve
  \/ \E t \in 1..Tasks, ok \in BOOLEAN : Settle(t, ok)

Spec == Init /\ [][Next]_pa

-----------------------------------------------------------------------------
(* Properties.                                                             *)

\* The list of promises is bounded by the concurrency.
TypeOK == pa.executing \in Seq(1..Tasks) /\ Len(pa.executing) <= PConc

\* While tasks settle in the order they were started, no more than PConc run.
LimitInOrder == pa.inOrder => Cardinality(With("running")) <= PConc

\* A result that is resolved lacks no task unless a later one overtook it.
CompleteInOrder == pa.outcome = "ok" /\ pa.inOrder => With("ok") = 1..Tasks

\* In any order, the last PConc - 1 tasks are awaited.
LastAreAwaited ==
  pa.outcome = "ok" => \A t \in Tasks - PConc + 2..Tasks : pa.st[t] = "ok"
=============================================================================
