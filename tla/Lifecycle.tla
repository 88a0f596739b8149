------------------------------ MODULE Lifecycle ------------------------------
(***************************************************************************)
(* LifecycleManager of packages/core/src/lifecycle/index.ts: the state     *)
(* machine that starts and stops a service by running hooks one by one,    *)
(* each one raced against a timeout, while any number of parties call      *)
(* start(), stop() and restart(), register and remove hooks, and while     *)
(* the process receives signals.                                           *)
(*                                                                         *)
(* An action is the code between two awaits.  A hook is the number of its  *)
(* registration, so that a smaller number was registered earlier.          *)
(*                                                                         *)
(* doStart() and doStop() announce the new state, and call the first hook, *)
(* synchronously: until they return, `entering' holds, the field that      *)
(* start() and stop() hand to a joining caller still has the promise of    *)
(* the previous run, and only code called from those listeners and from    *)
(* that hook can act.  A run that ends well sets its state and calls the   *)
(* listeners of STARTED or STOPPED before its promise settles: `leaving'   *)
(* is the stack of the runs inside those listeners, which may start or     *)
(* stop the manager again.                                                 *)
(*                                                                         *)
(* Listeners are taken not to throw: one that does sends the run to ERROR, *)
(* like a hook that fails.                                                 *)
(***************************************************************************)
EXTENDS Integers, SequencesExt

CONSTANTS Callers,  \* the parties that call start, stop, restart, or are a signal
          MaxHooks  \* bound on the hooks ever registered

ASSUME MaxHooksAssumption == MaxHooks \in Nat

VARIABLES state,    \* this.state
          hooks,    \* [start, stop]: this.startHooks and this.stopHooks
          nhooks,   \* hooks registered so far
          run,      \* the doStart() or doStop() in progress, or the last one
          running,  \* hooks whose handler has been called and has not settled
          entering, \* the run has not returned its promise yet
          leaving,  \* the runs whose final state is announced, the innermost last
          promise,  \* [start, stop]: what this.startPromise, this.stopPromise hold
          call,     \* what each caller is doing
          exitCode, \* of process.exit, -1 while the process lives
          ran,      \* history: the hooks the run has called
          plan,     \* history: the hooks of the phase when the run began
          edits,    \* history: how the hooks of the phase changed during the run
          owed      \* history: the callers whose call has not come true yet

vars == <<state, hooks, nhooks, run, running, entering, leaving, promise, call,
          exitCode, ran, plan, edits, owed>>

Phase  == {"start", "stop"}
HookId == 1..MaxHooks
Doing(phase) == IF phase = "start" THEN "starting" ELSE "stopping"
Done(phase)  == IF phase = "start" THEN "started" ELSE "stopped"
Active == state \in {"starting", "stopping"}
Alive  == exitCode = -1

\* no code of the manager is on the call stack
Quiet  == ~entering /\ leaving = <<>>

NoRun == [phase |-> "start", i |-> 0, hook |-> 0, res |-> "ok"]
NoCall == [op |-> "none", pc |-> "idle", phase |-> "start", res |-> "ok"]

Init ==
  /\ state = "created"
  /\ hooks = [p \in Phase |-> <<>>]
  /\ nhooks = 0
  /\ run = NoRun
  /\ running = {}
  /\ entering = FALSE
  /\ leaving = <<>>
  /\ promise = [p \in Phase |-> "none"]
  /\ call = [c \in Callers |-> NoCall]
  /\ exitCode = -1
  /\ ran = <<>>
  /\ plan = <<>>
  /\ edits = {}
  /\ owed = {}

\* Callers are interchangeable.
Symmetry == Permutations(Callers)

-----------------------------------------------------------------------------
(* Hooks: start hooks are appended, stop hooks put in front.               *)

EditHooks(phase, edit, seq) ==
  /\ hooks' = [hooks EXCEPT ![phase] = seq]
  /\ edits' = IF Active /\ run.phase = phase THEN edits \union {edit} ELSE edits
  /\ UNCHANGED <<state, run, running, entering, leaving, promise, call, exitCode,
                 ran, plan, owed>>

OnStart ==
  /\ Alive /\ nhooks < MaxHooks
  /\ nhooks' = nhooks + 1
  /\ EditHooks("start", "add", Append(hooks["start"], nhooks + 1))

\* Mutant of OnStop: push() instead of unshift().
OnStopPushed ==
  /\ Alive /\ nhooks < MaxHooks
  /\ nhooks' = nhooks + 1
  /\ EditHooks("stop", "add", Append(hooks["stop"], nhooks + 1))

OnStop ==
  /\ Alive /\ nhooks < MaxHooks
  /\ nhooks' = nhooks + 1
  /\ EditHooks("stop", "add", <<nhooks + 1>> \o hooks["stop"])

\* splice(findIndex(hook.name === name), 1): of either list
RemoveHook(phase) ==
  /\ Alive
  /\ \E k \in 1..Len(hooks[phase]) :
       EditHooks(phase, "remove", RemoveAt(hooks[phase], k))
  /\ UNCHANGED nhooks

-----------------------------------------------------------------------------
(* Calls.  A call is done when its promise settled, for the caller and for *)
(* good; it resumes when code of this class still follows its await.       *)

Settled(cl, r) ==
  [cl EXCEPT !.res = r,
             !.pc = IF cl.op \in {"signal", "crash"} \/ (cl.op = "restart" /\ cl.phase = "stop")
                    THEN "resume" ELSE "done"]

\* the calls of W are told r
Settle(W, r) == [c \in Callers |-> IF c \in W THEN Settled(call[c], r) ELSE call[c]]

Await(op, phase) == [op |-> op, pc |-> "wait", phase |-> phase, res |-> "pending"]

\* the callers that await the promise of the run in progress
Awaiting ==
  {c \in Callers : /\ call[c].pc = "wait"
                   /\ \A k \in 1..Len(leaving) : c \notin leaving[k].wait}

\* a run that is leaving has its promise in the field of its phase
Kept(phase, f) == f.phase = phase /\ f.field = "held"

\* the field of its phase has the promise of the run in progress
Held ==
  /\ promise[run.phase] = "pending"
  /\ \A k \in 1..Len(leaving) : ~Kept(run.phase, leaving[k])

\* start() and stop() up to their return: caller c, on behalf of op
Return(c, op, phase, r) ==
  /\ call' = [call EXCEPT ![c] = Settled(Await(op, phase), r)]
  /\ UNCHANGED <<state, run, entering, leaving, ran, plan, edits>>

\* Mutant of Join: the field is handed on whatever it holds.
JoinUnchecked(c, op, phase) ==
  IF promise[phase] = "pending"
  THEN /\ call' = [call EXCEPT ![c] = Await(op, phase)]
       /\ UNCHANGED <<state, run, entering, leaving, ran, plan, edits>>
  ELSE Return(c, op, phase, promise[phase])

\* A caller that finds the run it asks for in progress is handed what the field
\* holds: the promise of that run, of one that is leaving, or a settled one.
Join(c, op, phase) ==
  \/ /\ promise[phase] = "pending"
     /\ call' = [call EXCEPT ![c] = Await(op, phase)]
     /\ leaving' = [k \in 1..Len(leaving) |->
                      [leaving[k] EXCEPT !.wait = IF Kept(phase, leaving[k])
                                                  THEN @ \union {c} ELSE @]]
     /\ UNCHANGED <<state, run, entering, ran, plan, edits>>
  \/ promise[phase] \in {"none", "ok"} /\ Return(c, op, phase, "ok")
  \/ promise[phase] = "err" /\ Return(c, op, phase, "err")

\* doStart() and doStop() up to their first listener
Begin(c, op, phase) ==
  /\ state' = Doing(phase)
  /\ run' = [phase |-> phase, i |-> 0, hook |-> 0, res |-> "ok"]
  /\ entering' = TRUE
  /\ ran' = <<>>
  /\ plan' = hooks[phase]
  /\ edits' = {}
  /\ call' = [call EXCEPT ![c] = Await(op, phase)]
  /\ UNCHANGED leaving

\* Mutant of CanBegin: start() may retry from ERROR.
CanBeginFromError(phase) ==
  state \in (IF phase = "start" THEN {"created", "stopped", "error"} ELSE {"started"})

CanBegin(phase) ==
  state \in (IF phase = "start" THEN {"created", "stopped"} ELSE {"started"})

\* A call is owed what it asks for, unless the manager is there already or the
\* caller is handed another promise than that of the run it finds in progress.
Owing(c, phase) ==
  IF state = Done(phase) \/ (state = Doing(phase) /\ ~Held) THEN owed \ {c}
  ELSE owed \union {c}

Invoke(c, op, phase) ==
  /\ \/ state = Done(phase) /\ Return(c, op, phase, "ok")
     \/ state = Doing(phase) /\ Join(c, op, phase)
     \/ CanBegin(phase) /\ Begin(c, op, phase)
     \/ /\ state # Done(phase) /\ state # Doing(phase) /\ ~CanBegin(phase)
        /\ Return(c, op, phase, "err")
  /\ owed' = Owing(c, phase)
  /\ UNCHANGED <<hooks, nhooks, running, promise, exitCode>>

Free(c) == Alive /\ call[c].pc \in {"idle", "done"}

Start(c) == Free(c) /\ Invoke(c, "start", "start")

Stop(c) == Free(c) /\ Invoke(c, "stop", "stop")

\* restart() up to its first await: it stops first only what has started
Restart(c) ==
  Free(c) /\ Invoke(c, "restart", IF state = "started" THEN "stop" ELSE "start")

\* SIGINT or SIGTERM; an uncaught exception or an unhandled rejection
Signal(c) == Free(c) /\ Quiet /\ Invoke(c, "signal", "stop")

Crash(c) == Free(c) /\ Quiet /\ Invoke(c, "crash", "stop")

Exit(code) ==
  /\ exitCode' = code
  /\ UNCHANGED <<state, hooks, nhooks, run, running, entering, leaving, promise,
                 call, ran, plan, edits, owed>>

\* what follows the await of stop() in restart() and in the process handlers
Resume(c) ==
  /\ Alive /\ Quiet /\ call[c].pc = "resume"
  /\ \/ call[c].op = "restart" /\ call[c].res = "ok" /\ Invoke(c, "restart", "start")
     \/ /\ call[c].op = "restart" /\ call[c].res = "err"
        /\ call' = [call EXCEPT ![c].pc = "done"]
        /\ UNCHANGED <<state, hooks, nhooks, run, running, entering, leaving,
                       promise, exitCode, ran, plan, edits, owed>>
     \/ call[c].op = "signal" /\ Exit(IF call[c].res = "ok" THEN 0 ELSE 1)
     \/ call[c].op = "crash" /\ Exit(1)

-----------------------------------------------------------------------------
(* A run: for (const hook of list) await executeHook(hook).  The loop      *)
(* reads the live list at its own index.                                   *)

\* the loop is about to read the list: at its start, or after a hook
AtLoopHead ==
  /\ Alive /\ Active
  /\ \/ entering /\ run.hook = 0
     \/ Quiet /\ run.hook # 0 /\ run.res = "ok"

\* executeHook up to its await: the handler is called and the timer armed
NextHook ==
  /\ AtLoopHead /\ run.i < Len(hooks[run.phase])
  /\ LET h == hooks[run.phase][run.i + 1] IN
       /\ run' = [run EXCEPT !.i = @ + 1, !.hook = h, !.res = "pending"]
       /\ running' = running \union {h}
       /\ ran' = Append(ran, h)
  /\ UNCHANGED <<state, hooks, nhooks, entering, leaving, promise, call, exitCode,
                 plan, edits, owed>>

\* the final state is set and announced; the promise is still to settle
Announce ==
  /\ state' = Done(run.phase)
  /\ leaving' = Append(leaving, [phase |-> run.phase, wait |-> Awaiting,
                                 field |-> IF entering THEN "unset"
                                           ELSE IF Held THEN "held" ELSE "lost"])
  /\ entering' = FALSE
  /\ owed' = {c \in owed : call[c].pc # "wait" \/ call[c].phase # run.phase}
  /\ UNCHANGED <<hooks, nhooks, run, running, promise, call, exitCode, ran, plan, edits>>

\* Mutant of Finish: the loop stops one hook early.
FinishEarly == AtLoopHead /\ run.i >= Len(hooks[run.phase]) - 1 /\ Announce

Finish == AtLoopHead /\ run.i >= Len(hooks[run.phase]) /\ Announce

\* the runs left on the stack lose the field of a phase to another promise
Overwrite(phase, fs) ==
  [k \in 1..Len(fs) |->
     [fs[k] EXCEPT !.field = IF Kept(phase, fs[k]) THEN "lost" ELSE @]]

\* Mutant of Leave: whoever waits is told, whichever run it waits for.
LeaveTellingAll ==
  /\ Alive /\ ~entering /\ leaving # <<>>
  /\ call' = Settle({c \in Callers : call[c].pc = "wait"}, "ok")
  /\ LET f == Last(leaving) IN
       /\ promise' = IF f.field = "lost" THEN promise
                     ELSE [promise EXCEPT ![f.phase] = "ok"]
       /\ leaving' = IF f.field = "unset" THEN Overwrite(f.phase, Front(leaving))
                     ELSE Front(leaving)
  /\ UNCHANGED <<state, hooks, nhooks, run, running, entering, exitCode, ran, plan,
                 edits, owed>>

\* The listeners return and the promise resolves.  One that was never handed out
\* before, its run having no hook, is now assigned to the field.
Leave ==
  /\ Alive /\ ~entering /\ leaving # <<>>
  /\ LET f == Last(leaving) IN
       /\ call' = Settle(f.wait, "ok")
       /\ promise' = IF f.field = "lost" THEN promise
                     ELSE [promise EXCEPT ![f.phase] = "ok"]
       /\ leaving' = IF f.field = "unset" THEN Overwrite(f.phase, Front(leaving))
                     ELSE Front(leaving)
  /\ UNCHANGED <<state, hooks, nhooks, run, running, entering, exitCode, ran, plan,
                 edits, owed>>

\* in ERROR a listener can neither start nor stop the manager
Fail ==
  /\ Alive /\ Active /\ Quiet /\ run.res = "err"
  /\ state' = "error"
  /\ call' = Settle(Awaiting, "err")
  /\ promise' = IF Held THEN [promise EXCEPT ![run.phase] = "err"] ELSE promise
  /\ UNCHANGED <<hooks, nhooks, run, running, entering, leaving, exitCode, ran, plan,
                 edits, owed>>

\* doStart(), doStop() reach their first await and return their promise
AssignPromise ==
  /\ Alive /\ entering /\ run.hook # 0
  /\ promise' = [promise EXCEPT ![run.phase] = "pending"]
  /\ leaving' = Overwrite(run.phase, leaving)
  /\ entering' = FALSE
  /\ UNCHANGED <<state, hooks, nhooks, run, running, call, exitCode, ran, plan, edits,
                 owed>>

\* the handler of h resolves or rejects; the race is lost if it was timed out
HandlerSettles(h, r) ==
  /\ Alive /\ h \in running
  /\ running' = running \ {h}
  /\ run' = IF Active /\ run.hook = h /\ run.res = "pending"
            THEN [run EXCEPT !.res = r] ELSE run
  /\ UNCHANGED <<state, hooks, nhooks, entering, leaving, promise, call, exitCode,
                 ran, plan, edits, owed>>

\* Mutant of HookTimeout: only start hooks are raced against a timer.
HookTimeoutOfStart ==
  /\ Alive /\ Active /\ Quiet /\ run.hook # 0 /\ run.res = "pending"
  /\ run.phase = "start"
  /\ run' = [run EXCEPT !.res = "err"]
  /\ UNCHANGED <<state, hooks, nhooks, running, entering, leaving, promise, call,
                 exitCode, ran, plan, edits, owed>>

\* the timer of the hook fires; its handler keeps running
HookTimeout ==
  /\ Alive /\ Active /\ Quiet /\ run.hook # 0 /\ run.res = "pending"
  /\ run' = [run EXCEPT !.res = "err"]
  /\ UNCHANGED <<state, hooks, nhooks, running, entering, leaving, promise, call,
                 exitCode, ran, plan, edits, owed>>

-----------------------------------------------------------------------------
Next ==
  \/ OnStart \/ OnStop
  \/ \E phase \in Phase : RemoveHook(phase)
  \/ \E c \in Callers : Start(c) \/ Stop(c) \/ Restart(c) \/ Signal(c) \/ Crash(c) \/ Resume(c)
  \/ NextHook \/ Finish \/ Leave \/ Fail \/ AssignPromise \/ HookTimeout
  \/ \E h \in HookId, r \in {"ok", "err"} : HandlerSettles(h, r)

\* The event loop runs what is runnable and timers fire.  Nothing is assumed
\* of the handlers, which may never settle, nor of the callers.  A continuation
\* is queued once, and the queue is served as soon as synchronous code returns:
\* that the code may enter again and again does not hold it back (SF).  A
\* listener returns, however often it starts and stops the manager before.
Fairness ==
  /\ WF_vars(NextHook) /\ WF_vars(Finish) /\ WF_vars(Fail)
  /\ WF_vars(AssignPromise) /\ WF_vars(HookTimeout)
  /\ \A c \in Callers : SF_vars(Resume(c))
  /\ \A n \in 1..Cardinality(Callers) : SF_vars(Len(leaving) = n /\ Leave)

Spec == Init /\ [][Next]_vars

FairSpec == Spec /\ Fairness

-----------------------------------------------------------------------------
(* Properties.                                                             *)

\* Every variable has its type.
TypeOK ==
  /\ state \in {"created", "starting", "started", "stopping", "stopped", "error"}
  /\ hooks \in [Phase -> Seq(HookId)]
  /\ nhooks \in 0..MaxHooks
  /\ run \in [phase : Phase, i : Nat, hook : HookId \union {0},
              res : {"pending", "ok", "err"}]
  /\ running \in SUBSET HookId
  /\ entering \in BOOLEAN
  /\ leaving \in Seq([phase : Phase, wait : SUBSET Callers,
                      field : {"unset", "held", "lost"}])
  /\ promise \in [Phase -> {"none", "pending", "ok", "err"}]
  /\ call \in [Callers -> [op : {"none", "start", "stop", "restart", "signal", "crash"},
                           pc : {"idle", "wait", "resume", "done"},
                           phase : Phase, res : {"pending", "ok", "err"}]]
  /\ exitCode \in {-1, 0, 1}
  /\ ran \in Seq(HookId)
  /\ plan \in Seq(HookId)
  /\ edits \in SUBSET {"add", "remove"}
  /\ owed \in SUBSET Callers

\* Two handlers never overlap: whatever the interleaving of start(), stop(),
\* restart(), timeouts and list edits, at most one handler is running, no hook
\* is called while the handler of a timed-out one goes on, and a handler that
\* outlives its run leaves the manager in ERROR.
HandlersNeverOverlap ==
  /\ \A g, h \in running : g = h
  /\ \A h \in running : \/ state = "error"
                        \/ Active /\ run.hook = h

\* A run that ends well has called exactly the hooks its list held, in their
\* order, when nobody edits that list while the loop iterates over it; hooks
\* that are only added under the loop make it skip none of them.
CompleteRun ==
  \/ state = "started" /\ run.phase = "start"
  \/ state = "stopped" /\ run.phase = "stop"
  => /\ edits = {} => ran = plan
     /\ "remove" \notin edits => ToSet(plan) \subseteq ToSet(ran)

\* Start hooks are called in registration order and each at most once, whatever
\* is added or removed under the loop.  Stop hooks are called in the reverse
\* order, each at most once, unless one is added: unshift() moves the list
\* under the index of the loop, which then calls the current hook again.
RunOrder ==
  \A i, j \in 1..Len(ran) : i < j =>
    \/ run.phase = "start" /\ ran[i] < ran[j]
    \/ run.phase = "stop" /\ (ran[i] > ran[j] \/ "add" \in edits)

\* A caller told that its start, stop or restart succeeded is told what came true:
\* since it called, the manager has been in the state it asked for, although
\* listeners may have moved it on by then.  The exception is a caller that was
\* handed another promise than that of the run it found in progress: the field
\* holds one until doStart() or doStop() returns, and after a run that ends
\* without an await has returned over one that its listeners began.
TruthfulOutcome ==
  \A c \in Callers :
    call[c].pc \in {"done", "resume"} /\ call[c].res = "ok" => c \notin owed

\* Every call settles: no hook, however it behaves, keeps start(), stop(),
\* restart() or a signal handler waiting for ever, because every hook is raced
\* against a timer.
CallsSettle ==
  \A c \in Callers : call[c].pc \in {"wait", "resume"} ~> (call[c].pc = "done" \/ ~Alive)

\* What the log line of the signal handler says when it exits with code 0:
\* "Graceful shutdown completed".
ShutdownCompleted == exitCode = 0 => state = "stopped"
=============================================================================
