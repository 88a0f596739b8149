------------------------------- MODULE SkerCore -------------------------------
(***************************************************************************)
(* SkerCore of packages/core/src/core/index.ts: the service object that    *)
(* puts a LifecycleManager and a PluginManager together.  Its constructor  *)
(* registers one start hook, which initializes every plugin, and one stop  *)
(* hook, which destroys them, and starts the import of the configured      *)
(* plugins, which are registered whenever their import resolves.           *)
(*                                                                         *)
(* The handler of a hook is a task of the plugin manager: it begins with   *)
(* the hook, settles when the task returns, and goes on when the hook is   *)
(* timed out.                                                              *)
(***************************************************************************)
EXTENDS Integers, SequencesExt

CONSTANTS Callers,    \* the parties that call start, stop, restart, or are a signal
          Configured, \* the names in options.plugins that are enabled
          Packaged    \* those with a `package' to import

ASSUME CoreAssumption == IsFiniteSet(Configured) /\ Packaged \subseteq Configured

VARIABLES state, hooks, nhooks, run, running, entering, leaving, promise, call,
          exitCode, ran, plan, edits, owed  \* of Lifecycle
VARIABLES plugins, inst, order, task, live  \* of PluginManager
VARIABLES loading,  \* the plugins whose import() is pending
          snap      \* history: the plugins the last start hook found

lvars == <<state, hooks, nhooks, run, running, entering, leaving, promise, call,
           exitCode, ran, plan, edits, owed>>
pvars == <<plugins, inst, order, task, live>>
vars == <<lvars, pvars, loading, snap>>

Hook == 1..2
StartHook == 1
StopHook == 2

L == INSTANCE Lifecycle WITH MaxHooks <- 2
P == INSTANCE PluginManager WITH
       Names <- Configured, Tasks <- Hook, Ops <- {},
       MaxInst <- Cardinality(Configured), MaxOrder <- Cardinality(Configured)

\* the constructor has returned
Init ==
  /\ state = "created"
  /\ hooks = [start |-> <<StartHook>>, stop |-> <<StopHook>>]
  /\ nhooks = 2
  /\ run = L!NoRun
  /\ running = {}
  /\ entering = FALSE /\ leaving = <<>>
  /\ promise = [p \in L!Phase |-> "none"]
  /\ call = [c \in Callers |-> L!NoCall]
  /\ exitCode = -1
  /\ ran = <<>> /\ plan = <<>> /\ edits = {} /\ owed = {}
  /\ P!Init
  /\ loading = Packaged
  /\ snap = {}

\* Callers are interchangeable.
Symmetry == Permutations(Callers)

-----------------------------------------------------------------------------
\* start(), stop() and restart() of the core, which add events to those of the
\* lifecycle manager, and what is not about hooks in the latter
Lifecycle ==
  /\ \/ \E c \in Callers : \/ L!Start(c) \/ L!Stop(c) \/ L!Restart(c)
                            \/ L!Signal(c) \/ L!Crash(c) \/ L!Resume(c)
     \/ L!Finish \/ L!Leave \/ L!Fail \/ L!AssignPromise \/ L!HookTimeout
  /\ UNCHANGED <<pvars, loading, snap>>

\* Mutant of HookBegins: the plugins come up on stop and go down on start.
HookBeginsSwapped ==
  /\ L!NextHook
  /\ \/ run'.hook = StopHook /\ P!InitializeAll(StopHook) /\ snap' = ToSet(plugins)
     \/ run'.hook = StartHook /\ P!DestroyAll(StartHook) /\ UNCHANGED snap
  /\ UNCHANGED loading

\* the handlers of setupLifecycleHooks(), up to their first await
HookBegins ==
  /\ L!NextHook
  /\ \/ run'.hook = StartHook /\ P!InitializeAll(StartHook) /\ snap' = ToSet(plugins)
     \/ run'.hook = StopHook /\ P!DestroyAll(StopHook) /\ UNCHANGED snap
  /\ UNCHANGED loading

\* Mutant of HookSettles: the errors collected by the All operations are dropped.
HookSettlesQuietly(h) ==
  /\ P!Finish(h)
  /\ L!HandlerSettles(h, "ok")
  /\ UNCHANGED <<loading, snap>>

\* initializeAll() or destroyAll() returns or throws
HookSettles(h) ==
  /\ P!Finish(h)
  /\ L!HandlerSettles(h, IF task[h].failed THEN "err" ELSE "ok")
  /\ UNCHANGED <<loading, snap>>

\* Mutant of HookContinues: the handler returns without awaiting the plugins.
HookContinuesNotAwaited(h) ==
  /\ L!Alive /\ L!Quiet
  /\ \/ /\ \/ \E ok \in BOOLEAN : P!InitSettles(h, ok) \/ P!DestroySettles(h, ok)
           \/ P!Continue(h)
        /\ UNCHANGED lvars
     \/ L!HandlerSettles(h, "ok") /\ UNCHANGED pvars
  /\ UNCHANGED <<loading, snap>>

HookContinues(h) ==
  /\ L!Alive /\ L!Quiet
  /\ \/ \E ok \in BOOLEAN : P!InitSettles(h, ok) \/ P!DestroySettles(h, ok)
     \/ P!Continue(h)
  /\ UNCHANGED <<lvars, loading, snap>>

\* the import() of a configured plugin resolves and registers it, or fails and
\* is only logged
PluginLoads(name) ==
  /\ L!Alive /\ L!Quiet
  /\ name \in loading
  /\ loading' = loading \ {name}
  /\ P!Register(name, TRUE) \/ UNCHANGED pvars
  /\ UNCHANGED <<lvars, snap>>

Next ==
  \/ Lifecycle
  \/ HookBegins
  \/ \E h \in Hook : HookContinues(h) \/ HookSettles(h)
  \/ \E name \in Configured : PluginLoads(name)

Spec == Init /\ [][Next]_vars

-----------------------------------------------------------------------------
(* Properties.                                                             *)

Up == {inst[id].name : id \in {i \in ToSet(plugins) : live[i] > 0}}

\* Both components keep their types, and the handler of a hook runs exactly
\* while its task does.
TypeOK ==
  /\ L!TypeOK
  /\ P!TypeOK
  /\ loading \subseteq Packaged
  /\ snap \subseteq ToSet(plugins)
  /\ \A h \in Hook : h \in running <=> task[h].pc # "idle"

ServicePhase ==
  CASE state \in {"created", "stopped"} -> "down"
    [] state = "started" -> "up"
    [] state = "error" /\ run.phase = "start" -> "startFailed"
    [] state = "error" /\ run.phase = "stop" -> "stopFailed"
    [] OTHER -> state

Service == INSTANCE ManagedService WITH
             Plugin <- Configured, phase <- ServicePhase, up <- Up

\* Whatever fails or is timed out, plugins come up only for a start and go down
\* only for a stop, and a service that reached STOPPED has none up.
ImplementsManagedService == Service!Spec

\* A service that reached STARTED has every plugin up that was registered when
\* its start hook ran: one that fails keeps the service from starting.  The types
\* are part of it.
StartedMeansReady ==
  TypeOK /\ (state = "started" => \A id \in snap : inst[id].initialized)

\* A service that goes down does so one plugin at a time, the last one first,
\* and never while a start that was timed out still brings plugins up.
OrderlyTeardown ==
  task[StopHook].pc = "destroy" =>
    /\ task[StartHook].pc = "idle"
    /\ ~task[StopHook].failed => inst[task[StopHook].id].name = Last(order)
=============================================================================
