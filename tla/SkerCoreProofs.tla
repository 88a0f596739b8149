--------------------------- MODULE SkerCoreProofs ---------------------------
(***************************************************************************)
(* Theorems about SkerCore, for any callers and any plugins: what a start  *)
(* and a stop of the service do to the plugins, and that the service is a  *)
(* ManagedService.  What the lifecycle manager and the plugin manager keep *)
(* for themselves is taken from the proofs about them: their lemmas speak  *)
(* of LP and PP, which are L and P of SkerCore with the theorems about     *)
(* them.                                                                   *)
(***************************************************************************)
EXTENDS SkerCore, SequenceLemmas

LP == INSTANCE LifecycleProofs WITH MaxHooks <- 2
PP == INSTANCE PluginManagerProofs WITH
        Names <- Configured, Tasks <- Hook, Ops <- {},
        MaxInst <- Cardinality(Configured), MaxOrder <- Cardinality(Configured)

\* The constants are as both managers assume.
LEMMA ManagersAssumptions ==
  /\ 2 \in Nat
  /\ {} \subseteq PP!AllOps /\ Cardinality(Configured) \in Nat
BY CoreAssumption, FS_CardinalityType

-----------------------------------------------------------------------------
(* L and LP, P and PP are the same.                                        *)

\* A call of start() or stop() is the same step in both.
LEMMA SameInvoke ==
  ASSUME NEW c, NEW op, NEW p
  PROVE  L!Invoke(c, op, p) <=> LP!Invoke(c, op, p)
BY DEF L!Invoke, LP!Invoke, L!Return, LP!Return, L!Settled, LP!Settled, L!Await, LP!Await,
       L!Join, LP!Join, L!Begin, LP!Begin, L!CanBegin, LP!CanBegin,
       L!Owing, LP!Owing, L!Held, LP!Held, L!Kept, LP!Kept,
       L!Doing, LP!Doing, L!Done, LP!Done

\* So is every call, signal and crash.
LEMMA SameCalls ==
  ASSUME NEW c
  PROVE  /\ L!Start(c) <=> LP!Start(c)
         /\ L!Stop(c) <=> LP!Stop(c)
         /\ L!Restart(c) <=> LP!Restart(c)
         /\ L!Signal(c) <=> LP!Signal(c)
         /\ L!Crash(c) <=> LP!Crash(c)
         /\ L!Resume(c) <=> LP!Resume(c)
BY SameInvoke DEF L!Start, LP!Start, L!Stop, LP!Stop, L!Restart, LP!Restart, L!Signal, LP!Signal,
       L!Crash, LP!Crash, L!Resume, LP!Resume, L!Free, LP!Free, L!Alive, LP!Alive, L!Exit, LP!Exit,
       L!Quiet, LP!Quiet

\* So is every step of a run.
LEMMA SameRuns ==
  /\ L!NextHook <=> LP!NextHook
  /\ L!Finish <=> LP!Finish
  /\ L!Leave <=> LP!Leave
  /\ L!Fail <=> LP!Fail
  /\ L!AssignPromise <=> LP!AssignPromise
  /\ L!HookTimeout <=> LP!HookTimeout
  /\ \A h, r : L!HandlerSettles(h, r) <=> LP!HandlerSettles(h, r)
BY DEF L!NextHook, LP!NextHook, L!Finish, LP!Finish, L!Fail, LP!Fail,
       L!AssignPromise, LP!AssignPromise, L!HookTimeout, LP!HookTimeout,
       L!HandlerSettles, LP!HandlerSettles, L!AtLoopHead, LP!AtLoopHead,
       L!Announce, LP!Announce, L!Leave, LP!Leave, L!Overwrite, LP!Overwrite,
       L!Settle, LP!Settle, L!Settled, LP!Settled, L!Done, LP!Done,
       L!Awaiting, LP!Awaiting, L!Held, LP!Held, L!Kept, LP!Kept,
       L!Last, LP!Last, L!Front, LP!Front,
       L!Alive, LP!Alive, L!Active, LP!Active, L!Quiet, LP!Quiet

\* The types of both managers are the same.
LEMMA SameTypes ==
  /\ L!TypeOK <=> LP!TypeOK
  /\ P!TypeOK <=> PP!TypeOK
BY DEF L!TypeOK, LP!TypeOK, L!Phase, LP!Phase, L!HookId, LP!HookId,
       P!TypeOK, PP!TypeOK, P!ninst, PP!ninst, P!AllOps, PP!AllOps, P!Id, PP!Id

\* So is every step of the plugin manager.
LEMMA SamePlugins ==
  /\ P!Init <=> PP!Init
  /\ \A name, b : P!Register(name, b) <=> PP!Register(name, b)
  /\ \A h : /\ P!InitializeAll(h) <=> PP!InitializeAll(h)
            /\ P!DestroyAll(h) <=> PP!DestroyAll(h)
            /\ P!Continue(h) <=> PP!Continue(h)
            /\ P!Finish(h) <=> PP!Finish(h)
            /\ \A b : /\ P!InitSettles(h, b) <=> PP!InitSettles(h, b)
                      /\ P!DestroySettles(h, b) <=> PP!DestroySettles(h, b)
BY DEF P!Init, PP!Init, P!Register, PP!Register, P!InitializeAll, PP!InitializeAll,
       P!DestroyAll, PP!DestroyAll, P!Continue, PP!Continue, P!Finish, PP!Finish,
       P!InitSettles, PP!InitSettles, P!DestroySettles, PP!DestroySettles,
       P!ninst, PP!ninst, P!Get, PP!Get, P!ToSet, PP!ToSet, P!Idle, PP!Idle, P!Began, PP!Began,
       P!Visit, PP!Visit, P!Skip, PP!Skip, P!IsInitializing, PP!IsInitializing,
       P!Reverse, PP!Reverse, P!AfterAwait, PP!AfterAwait, P!NoTask, PP!NoTask,
       P!RemoveFirst, PP!RemoveFirst, P!RemoveAt, PP!RemoveAt, P!SelectInSeq, PP!SelectInSeq,
       P!Min, PP!Min, P!Id, PP!Id

\* So are the operators on sequences that it takes from the library.
LEMMA SameSequences ==
  ASSUME NEW s
  PROVE  /\ PP!ToSet(s) = ToSet(s) /\ PP!Reverse(s) = Reverse(s)
         /\ \A e : PP!RemoveFirst(s, e) = RemoveFirst(s, e)
BY DEF PP!ToSet, ToSet, PP!Reverse, Reverse, PP!RemoveFirst, RemoveFirst, PP!RemoveAt, RemoveAt,
       PP!SelectInSeq, SelectInSeq, PP!Min, Min

-----------------------------------------------------------------------------
(* The invariant.                                                          *)

HookOf(p) == IF p = "start" THEN StartHook ELSE StopHook

\* The lists of hooks are those of the constructor.  A run has called its hook
\* or is about to, and the service is in STARTED or STOPPED by its merit.
RunInv ==
  /\ hooks = [start |-> <<StartHook>>, stop |-> <<StopHook>>]
  /\ \/ run.hook = 0 /\ run.i = 0
     \/ run.hook = HookOf(run.phase) /\ run.i = 1
  /\ L!Active => state = L!Doing(run.phase)
  /\ state \in {"started", "stopped"} =>
       state = L!Done(run.phase) /\ run.hook # 0 /\ run.res = "ok"
  /\ state = "created" => run.hook = 0

\* A handler runs as long as its task.
HandlersAreTasks == \A h \in Hook : h \in running <=> task[h].pc # "idle"

\* Nothing is unregistered or disabled, so that a plugin is up, counted once, and
\* in the order once, or none of it.
PluginsInv ==
  /\ ToSet(plugins) = 1..PP!ninst
  /\ snap \subseteq 1..PP!ninst
  /\ IsInjective(order)
  /\ \A name \in ToSet(order) : \E id \in 1..PP!ninst : inst[id].name = name
  /\ \A id \in 1..PP!ninst :
       /\ inst[id].enabled
       /\ inst[id].initialized <=> inst[id].name \in ToSet(order)
  /\ \A id \in PP!Id : live[id] = IF id <= PP!ninst /\ inst[id].initialized THEN 1 ELSE 0

\* The start hook initializes, the stop hook destroys, and what an operation
\* found before its await is so after it.
TasksInv ==
  /\ task[StartHook].op \in {"none", "initializeAll"}
  /\ task[StopHook].op \in {"none", "destroyAll"}
  /\ \A h \in Hook :
       /\ task[h].pc = "init" => ~inst[task[h].id].initialized
       /\ task[h].pc = "destroy" => inst[task[h].id].initialized

SnapIsUp == \A id \in snap : inst[id].initialized

\* A plugin of the snapshot is up, still ahead, or being initialized.
Covers(S, tk) ==
  \A id \in S : \/ inst[id].initialized
                \/ inst[id].name \in ToSet(tk.todo)
                \/ tk.pc = "init" /\ tk.id = id

StartInv ==
  /\ task[StartHook].pc # "idle" /\ ~task[StartHook].failed => Covers(snap, task[StartHook])
  /\ run.hook = StartHook /\ run.res = "ok" => SnapIsUp

\* What is ahead is the order from its end, after the plugin being destroyed.
Mirrors(tk) ==
  /\ Len(order) = Len(tk.todo) + (IF tk.pc = "destroy" THEN 1 ELSE 0)
  /\ \A k \in 1..Len(tk.todo) : tk.todo[k] = order[Len(tk.todo) - k + 1]
  /\ tk.pc = "destroy" => order[Len(order)] = inst[tk.id].name

StopInv ==
  /\ task[StopHook].pc # "idle" /\ ~task[StopHook].failed => Mirrors(task[StopHook])
  /\ run.hook = StopHook /\ run.res = "ok" => order = <<>>
  /\ state = "created" => order = <<>>

CoreInv ==
  /\ LP!IInv /\ PP!BaseInv
  /\ loading \subseteq Packaged /\ HandlersAreTasks
  /\ RunInv /\ PluginsInv /\ TasksInv /\ StartInv /\ StopInv

-----------------------------------------------------------------------------
(* What the steps of the lifecycle manager do to the run.                  *)

Steady ==
  /\ state' = state /\ run'.phase = run.phase /\ run'.i = run.i /\ run'.hook = run.hook
  /\ \/ run'.res = run.res
     \/ L!Active /\ run'.res = "err"

Begins(p) ==
  L!CanBegin(p) /\ state' = L!Doing(p) /\ run' = [phase |-> p, i |-> 0, hook |-> 0, res |-> "ok"]

Ends ==
  L!Active /\ run.hook # 0 /\ run.res = "ok" /\ state' = L!Done(run.phase) /\ run' = run

Fails == L!Active /\ state' = "error" /\ run' = run

\* The types the manager keeps, as far as they are needed.
LEMMA RunTypes ==
  ASSUME LP!IInv
  PROVE  /\ state \in {"created", "starting", "started", "stopping", "stopped", "error"}
         /\ run \in [phase : {"start", "stop"}, i : Nat, hook : {0, 1, 2},
                      res : {"pending", "ok", "err"}]
         /\ running \in SUBSET Hook
         /\ running # {} => /\ state = "error" \/ (L!Active /\ run.res # "ok")
                            /\ running = {run.hook}
BY DEF LP!IInv, LP!TypeOK, LP!HandlerInv, LP!Phase, LP!HookId, Hook, LP!Active, L!Active

\* A call begins a run or leaves it alone.
LEMMA CallDoes ==
  ASSUME LP!IInv, NEW c \in Callers,
         L!Start(c) \/ L!Stop(c) \/ L!Restart(c) \/ L!Signal(c) \/ L!Crash(c) \/ L!Resume(c)
  PROVE  /\ UNCHANGED <<running, hooks>>
         /\ Steady \/ \E p \in {"start", "stop"} : Begins(p)
<1>1. ASSUME NEW op, NEW p \in {"start", "stop"}, L!Invoke(c, op, p)
      PROVE  /\ UNCHANGED <<running, hooks>>
             /\ UNCHANGED <<state, run>> \/ Begins(p)
  <2>1. \A r : L!Return(c, op, p, r) => UNCHANGED <<state, run>>
    BY DEF L!Return
  <2>2. L!Join(c, op, p) => UNCHANGED <<state, run>>
    BY <2>1 DEF L!Join
  <2>3. L!CanBegin(p) /\ L!Begin(c, op, p) => Begins(p)
    BY DEF L!Begin, Begins
  <2> QED
    BY <1>1, <2>1, <2>2, <2>3 DEF L!Invoke
<1>2. CASE \E op, p : p \in {"start", "stop"} /\ L!Invoke(c, op, p)
  BY <1>1, <1>2 DEF Steady
<1>3. CASE UNCHANGED <<state, run, running, hooks>>
  BY <1>3 DEF Steady
<1>4. L!Start(c) => L!Invoke(c, "start", "start")
  BY DEF L!Start
<1>5. L!Stop(c) => L!Invoke(c, "stop", "stop")
  BY DEF L!Stop
<1>6. L!Restart(c) => L!Invoke(c, "restart", "stop") \/ L!Invoke(c, "restart", "start")
  BY DEF L!Restart
<1>7. L!Signal(c) \/ L!Crash(c) => L!Invoke(c, "signal", "stop") \/ L!Invoke(c, "crash", "stop")
  BY DEF L!Signal, L!Crash
<1>8. L!Resume(c) => L!Invoke(c, "restart", "start") \/ UNCHANGED <<state, run, running, hooks>>
  BY DEF L!Resume, L!Exit
<1> QED
  BY <1>2, <1>3, <1>4, <1>5, <1>6, <1>7, <1>8

\* So does every other step of the core that is only about the lifecycle, but for
\* those that end the run.
LEMMA LifecycleDoes ==
  ASSUME LP!IInv, RunInv, Lifecycle
  PROVE  /\ LP!IInv' /\ RunInv' /\ UNCHANGED <<pvars, loading, snap, running>>
         /\ Steady \/ (\E p \in {"start", "stop"} : Begins(p)) \/ Ends \/ Fails
<1>1. LP!IInv'
  <2>1. LP!Next
    BY SameCalls, SameRuns DEF Lifecycle, LP!Next
  <2> QED
    BY <2>1, LP!NextIInv
<1>2. UNCHANGED <<pvars, loading, snap>>
  BY DEF Lifecycle
<1>3. /\ UNCHANGED <<running, hooks>>
      /\ Steady \/ (\E p \in {"start", "stop"} : Begins(p)) \/ Ends \/ Fails
  <2>1. CASE \E c \in Callers : L!Start(c) \/ L!Stop(c) \/ L!Restart(c)
                                  \/ L!Signal(c) \/ L!Crash(c) \/ L!Resume(c)
    BY <2>1, CallDoes
  <2>2. CASE L!Finish
    <3>1. /\ L!Active /\ run.i >= Len(hooks[run.phase]) /\ state' = L!Done(run.phase)
          /\ UNCHANGED <<hooks, run, running>>
          /\ run.hook = 0 \/ (run.hook # 0 /\ run.res = "ok")
      BY <2>2 DEF L!Finish, L!Announce, L!AtLoopHead
    <3>2. Len(hooks[run.phase]) = 1
      BY RunTypes DEF RunInv
    <3>3. run.i \in Nat /\ (run.hook = 0 => run.i = 0)
      BY RunTypes DEF RunInv, HookOf, StartHook, StopHook
    <3>4. run.hook # 0
      BY <3>1, <3>2, <3>3
    <3> QED
      BY <3>1, <3>4 DEF Ends
  <2>3. CASE L!Fail
    BY <2>3 DEF L!Fail, Fails
  <2>4. CASE L!AssignPromise
    BY <2>4 DEF L!AssignPromise, Steady
  <2>5. CASE L!HookTimeout
    BY <2>5, RunTypes DEF L!HookTimeout, Steady
  <2>6. CASE L!Leave
    BY <2>6 DEF L!Leave, Steady
  <2> QED
    BY <2>1, <2>2, <2>3, <2>4, <2>5, <2>6 DEF Lifecycle
<1>4. RunInv'
  <2>1. CASE Steady
    BY <1>3, <2>1, RunTypes DEF Steady, RunInv, L!Active
  <2>2. CASE \E p \in {"start", "stop"} : Begins(p)
    BY <1>3, <2>2 DEF Begins, RunInv, L!Active, L!Doing
  <2>3. CASE Ends
    BY <1>3, <2>3, RunTypes DEF Ends, RunInv, L!Active, L!Done
  <2>4. CASE Fails
    BY <1>3, <2>4 DEF Fails, RunInv, L!Active
  <2> QED
    BY <1>3, <2>1, <2>2, <2>3, <2>4
<1> QED
  BY <1>1, <1>2, <1>3, <1>4

-----------------------------------------------------------------------------
(* Steps of one manager alone.                                             *)

\* A step that is not about the lifecycle leaves its invariant alone.
LEMMA LifeFrame ==
  ASSUME LP!IInv, RunInv, UNCHANGED lvars
  PROVE  LP!IInv' /\ RunInv'
<1>1. LP!IInv'
  BY LP!NextIInv DEF lvars, LP!vars
<1>2. RunInv'
  BY DEF lvars, RunInv, L!Active
<1> QED
  BY <1>1, <1>2

\* So does one that is not about the plugins.
LEMMA PluginsFrame ==
  ASSUME PP!BaseInv, UNCHANGED pvars
  PROVE  PP!BaseInv'
BY PP!BaseNext, ManagersAssumptions DEF pvars, PP!vars

\* The types the plugin manager keeps, as far as they are needed.
LEMMA PluginTypes ==
  ASSUME PP!BaseInv
  PROVE  /\ PP!ninst \in Nat /\ ToSet(plugins) \subseteq 1..PP!ninst
         /\ order \in Seq(Configured) /\ plugins \in Seq(1..PP!ninst)
         /\ \A id \in 1..PP!ninst : inst[id].name \in Configured
         /\ PP!ninst <= Cardinality(Configured) /\ Cardinality(Configured) \in Nat
         /\ task \in [Hook -> PP!TaskRecord(PP!ninst)] /\ live \in [PP!Id -> Nat]
         /\ \A h \in Hook : PP!Shaped(task[h])
         /\ \A id, jd \in ToSet(plugins) : inst[id].name = inst[jd].name => id = jd
<1>1. PP!TypeOK
  BY DEF PP!BaseInv
<1>2. PP!ninst \in Nat /\ ToSet(plugins) \subseteq 1..PP!ninst
  BY <1>1, PP!RegistryType, ManagersAssumptions, SameSequences
<1>3. /\ order \in Seq(Configured) /\ plugins \in Seq(1..PP!ninst)
      /\ task \in [Hook -> PP!TaskRecord(PP!ninst)] /\ live \in [PP!Id -> Nat]
      /\ inst \in Seq(PP!InstRecord) /\ PP!ninst <= Cardinality(Configured)
  BY <1>1, PP!Types, ManagersAssumptions
<1>4. \A id \in 1..PP!ninst : inst[id].name \in Configured
  <2>1. \A id \in 1..Len(inst) : inst[id] \in PP!InstRecord
    BY <1>3
  <2> QED
    BY <2>1 DEF PP!ninst, PP!InstRecord
<1>5. Cardinality(Configured) \in Nat
  BY ManagersAssumptions
<1>6. /\ \A h \in Hook : PP!Shaped(task[h])
      /\ \A id, jd \in ToSet(plugins) : inst[id].name = inst[jd].name => id = jd
  BY SameSequences DEF PP!BaseInv, PP!UniqueNames
<1> QED
  BY <1>2, <1>3, <1>4, <1>5, <1>6

\* Steps of the lifecycle manager keep the invariant of the core.
LEMMA LifecycleKeeps == ASSUME CoreInv, Lifecycle PROVE CoreInv'
<1>1. /\ LP!IInv /\ PP!BaseInv /\ RunInv /\ PluginsInv /\ TasksInv /\ StartInv /\ StopInv
      /\ HandlersAreTasks /\ loading \subseteq Packaged
  BY DEF CoreInv
<1>2. /\ LP!IInv' /\ RunInv' /\ UNCHANGED <<pvars, loading, snap, running>>
      /\ Steady \/ (\E p \in {"start", "stop"} : Begins(p)) \/ Ends \/ Fails
  BY <1>1, LifecycleDoes
<1>3. PP!BaseInv'
  BY <1>1, <1>2, PluginsFrame
<1>4. PluginsInv' /\ TasksInv' /\ HandlersAreTasks'
  BY <1>1, <1>2 DEF pvars, PluginsInv, TasksInv, HandlersAreTasks, PP!ninst
<1>5. /\ run'.hook # 0 => run'.hook = run.hook /\ (run'.res = "ok" => run.res = "ok")
      /\ state' = "created" => state = "created"
  BY <1>2 DEF Steady, Begins, Ends, Fails, L!Doing, L!Done
<1>6. StartInv'
  <2>1. /\ UNCHANGED <<task, inst, snap>>
        /\ run'.hook = StartHook /\ run'.res = "ok" => run.hook = StartHook /\ run.res = "ok"
    BY <1>2, <1>5 DEF pvars, StartHook
  <2>2. (Covers(snap, task[StartHook])' <=> Covers(snap, task[StartHook])) /\ (SnapIsUp' <=> SnapIsUp)
    BY <2>1 DEF Covers, SnapIsUp
  <2> QED
    BY <1>1, <2>1, <2>2 DEF StartInv
<1>7. StopInv'
  <2>1. /\ UNCHANGED <<task, inst, order>>
        /\ run'.hook = StopHook /\ run'.res = "ok" => run.hook = StopHook /\ run.res = "ok"
    BY <1>2, <1>5 DEF pvars, StopHook
  <2>2. Mirrors(task[StopHook])' <=> Mirrors(task[StopHook])
    BY <2>1 DEF Mirrors
  <2> QED
    BY <1>1, <1>5, <2>1, <2>2 DEF StopInv
<1> QED
  BY <1>1, <1>2, <1>3, <1>4, <1>6, <1>7 DEF CoreInv

-----------------------------------------------------------------------------
(* A plugin is registered when its import resolves.                        *)

\* A new instance is down, enabled and new to the names, and no operation is on it.
LEMMA PluginLoadsKeeps ==
  ASSUME CoreInv, NEW name \in Configured, PluginLoads(name)
  PROVE  CoreInv'
<1>1. /\ LP!IInv /\ PP!BaseInv /\ RunInv /\ PluginsInv /\ TasksInv /\ StartInv /\ StopInv
      /\ HandlersAreTasks /\ loading \subseteq Packaged
  BY DEF CoreInv
<1>2. LP!IInv' /\ RunInv' /\ UNCHANGED <<lvars, snap>> /\ loading' \subseteq Packaged
  BY <1>1, LifeFrame DEF PluginLoads
<1>3. UNCHANGED <<state, run, running>>
  BY <1>2 DEF lvars
<1>4. CASE UNCHANGED pvars
  <2>1. PP!BaseInv'
    BY <1>1, <1>4, PluginsFrame
  <2>2. PluginsInv' /\ TasksInv' /\ HandlersAreTasks'
    BY <1>1, <1>2, <1>3, <1>4 DEF pvars, PluginsInv, TasksInv, HandlersAreTasks, PP!ninst
  <2>3. UNCHANGED <<state, run, task, inst, order, snap>>
    BY <1>2, <1>3, <1>4 DEF pvars
  <2>4. /\ Covers(snap, task[StartHook])' <=> Covers(snap, task[StartHook])
        /\ SnapIsUp' <=> SnapIsUp
        /\ Mirrors(task[StopHook])' <=> Mirrors(task[StopHook])
    BY <2>3 DEF Covers, SnapIsUp, Mirrors
  <2>5. StartInv' /\ StopInv'
    BY <1>1, <2>3, <2>4 DEF StartInv, StopInv
  <2> QED
    BY <1>2, <2>1, <2>2, <2>5 DEF CoreInv
<1>5. CASE P!Register(name, TRUE)
  <2> DEFINE n == PP!ninst
  <2>1. PICK b \in BOOLEAN : b = TRUE
    OBVIOUS
  <2>2. PP!Register(name, b)
    BY <1>5, <2>1, SamePlugins, Zenon
  <2>3. /\ PP!BaseInv' /\ PP!ninst' = PP!ninst + 1
        /\ ToSet(plugins') = ToSet(plugins) \union {n + 1}
        /\ \A id \in 1..n : inst'[id] = inst[id]
        /\ inst'[n + 1].name = name /\ ~inst'[n + 1].initialized /\ inst'[n + 1].enabled
        /\ \A id \in ToSet(plugins) : inst[id].name # name
    BY <1>1, <2>1, <2>2, PP!RegisterBase, ManagersAssumptions, SameSequences
  <2>4. UNCHANGED <<order, task, live>>
    BY <2>2 DEF PP!Register
  <2>5. /\ n \in Nat /\ \A h \in Hook : task[h].id \in 0..n
        /\ \A h \in Hook : task[h].pc \in {"init", "destroy"} => task[h].id # 0
    BY <1>1, PluginTypes DEF PP!TaskRecord, PP!Shaped
  <2> HIDE DEF n
  <2>6. PluginsInv'
    <3>1. /\ ToSet(plugins') = 1..n + 1 /\ snap' \subseteq 1..n + 1 /\ IsInjective(order')
      BY <1>1, <1>2, <2>3, <2>4, <2>5 DEF PluginsInv, n
    <3>2. \A m \in ToSet(order') : \E id \in 1..n + 1 : inst'[id].name = m
      BY <1>1, <2>3, <2>4, <2>5 DEF PluginsInv, n
    <3>3. name \notin ToSet(order)
      BY <1>1, <2>3 DEF PluginsInv, n
    <3>4. \A id \in 1..n + 1 : /\ inst'[id].enabled
                               /\ inst'[id].initialized <=> inst'[id].name \in ToSet(order')
      BY <1>1, <2>3, <2>4, <2>5, <3>3 DEF PluginsInv, n
    <3>5. \A id \in PP!Id : live'[id] = IF id <= n + 1 /\ inst'[id].initialized THEN 1 ELSE 0
      <4>1. \A id \in PP!Id : id <= n + 1 => id \in 1..n \/ id = n + 1
        BY <2>5, ManagersAssumptions DEF PP!Id
      <4>2. \A id \in PP!Id : id \in Nat
        BY ManagersAssumptions DEF PP!Id
      <4> QED
        BY <1>1, <2>3, <2>4, <2>5, <4>1, <4>2 DEF PluginsInv, n
    <3> QED
      BY <2>3, <3>1, <3>2, <3>4, <3>5 DEF PluginsInv, n
  <2>7. TasksInv'
    BY <1>1, <2>3, <2>4, <2>5 DEF TasksInv
  <2>8. HandlersAreTasks'
    BY <1>1, <1>3, <2>4 DEF HandlersAreTasks
  <2>9. snap \subseteq 1..n
    BY <1>1 DEF PluginsInv, n
  <2>10. /\ Covers(snap, task[StartHook]) => Covers(snap, task[StartHook])'
         /\ SnapIsUp => SnapIsUp'
    BY <1>2, <2>3, <2>4, <2>9 DEF Covers, SnapIsUp
  <2>11. Mirrors(task[StopHook]) => Mirrors(task[StopHook])'
    <3>1. UNCHANGED <<order, task>>
      BY <2>4
    <3>2. task[StopHook].pc = "destroy" => inst'[task[StopHook].id].name = inst[task[StopHook].id].name
      BY <2>3, <2>5 DEF Hook, StopHook
    <3> QED
      BY <3>1, <3>2 DEF Mirrors
  <2>12. StartInv' /\ StopInv'
    BY <1>1, <1>3, <2>4, <2>10, <2>11 DEF StartInv, StopInv
  <2> QED
    BY <1>2, <2>3, <2>6, <2>7, <2>8, <2>12 DEF CoreInv
<1> QED
  BY <1>4, <1>5 DEF PluginLoads

-----------------------------------------------------------------------------
(* The handler of a hook.                                                  *)

\* There is one at a time, of the phase of the run, while the run awaits it or
\* after the run has given it up.
LEMMA ActiveHandler ==
  ASSUME CoreInv, NEW h \in Hook, task[h].pc # "idle"
  PROVE  /\ running = {h} /\ run.hook = h /\ h = HookOf(run.phase)
         /\ state = "error" \/ (L!Active /\ run.res # "ok" /\ state = L!Doing(run.phase))
         /\ \A g \in Hook \ {h} : task[g].pc = "idle"
         /\ task[h].op = IF h = StartHook THEN "initializeAll" ELSE "destroyAll"
<1>1. /\ LP!IInv /\ PP!BaseInv /\ HandlersAreTasks /\ RunInv /\ TasksInv
  BY DEF CoreInv
<1>2. running = {h}
  BY <1>1, RunTypes DEF HandlersAreTasks
<1>3. run.hook = h /\ (state = "error" \/ (L!Active /\ run.res # "ok" /\ state = L!Doing(run.phase)))
  BY <1>1, <1>2, RunTypes DEF RunInv
<1>4. h # 0
  BY DEF Hook
<1>5. h = HookOf(run.phase)
  BY <1>1, <1>3, <1>4 DEF RunInv
<1>6. \A g \in Hook \ {h} : task[g].pc = "idle"
  BY <1>1, <1>2 DEF HandlersAreTasks
<1>7. task[h].op # "none"
  BY <1>1, PluginTypes DEF PP!Shaped
<1>8. task[h].op = IF h = StartHook THEN "initializeAll" ELSE "destroyAll"
  BY <1>1, <1>7 DEF TasksInv, Hook, StartHook, StopHook
<1> QED
  BY <1>2, <1>3, <1>5, <1>6, <1>8

\* The next name of initializeAll() is brought up, or is up already.
LEMMA VisitCovers ==
  ASSUME PP!BaseInv, PluginsInv, NEW S \in SUBSET ToSet(plugins),
         NEW tk, NEW v, PP!Visited(tk, v), tk.op = "initializeAll",
         tk.pc # "init", tk.todo \in Seq(Configured), tk.todo # <<>>,
         ~tk.failed => Covers(S, tk), ~v.failed
  PROVE  Covers(S, v)
<1> SUFFICES ASSUME NEW id \in S, ~inst[id].initialized, inst[id].name \notin ToSet(v.todo)
             PROVE  v.pc = "init" /\ v.id = id
  BY DEF Covers
<1>1. PP!IsInitializing(tk.op)
  BY DEF PP!IsInitializing
<1>2. /\ v.todo = Tail(tk.todo) /\ ~tk.failed
      /\ \/ \E jd \in ToSet(plugins) : /\ inst[jd].name = Head(tk.todo)
                                       /\ inst[jd].initialized \/ ~inst[jd].enabled
         \/ v.pc = "init" /\ v.id \in ToSet(plugins) /\ inst[v.id].name = Head(tk.todo)
  BY <1>1, SameSequences DEF PP!Visited
<1>3. inst[id].name \in ToSet(tk.todo)
  BY <1>2 DEF Covers
<1>4. ToSet(tk.todo) \subseteq {Head(tk.todo)} \union ToSet(Tail(tk.todo))
  <2>1. /\ Len(tk.todo) \in Nat \ {0} /\ DOMAIN tk.todo = 1..Len(tk.todo) /\ Head(tk.todo) = tk.todo[1]
        /\ Tail(tk.todo) \in Seq(Configured) /\ Len(Tail(tk.todo)) = Len(tk.todo) - 1
        /\ \A j \in 1..Len(tk.todo) - 1 : Tail(tk.todo)[j] = tk.todo[j + 1]
    BY HeadTailProperties, EmptySeq, LenProperties
  <2>2. DOMAIN Tail(tk.todo) = 1..Len(tk.todo) - 1
    BY <2>1
  <2>3. ASSUME NEW k \in 1..Len(tk.todo), k # 1 PROVE tk.todo[k] \in ToSet(Tail(tk.todo))
    <3>1. k - 1 \in 1..Len(tk.todo) - 1 /\ Tail(tk.todo)[k - 1] = tk.todo[k]
      BY <2>1, <2>3
    <3> QED
      BY <2>2, <3>1 DEF ToSet
  <2> QED
    BY <2>1, <2>3 DEF ToSet
<1>5. inst[id].name = Head(tk.todo) /\ id \in ToSet(plugins)
  BY <1>2, <1>3, <1>4 DEF PluginsInv
<1>6. \A jd \in ToSet(plugins) : inst[jd].name = Head(tk.todo) => jd = id
  BY <1>5, PluginTypes
<1>7. inst[id].enabled
  BY <1>5 DEF PluginsInv
<1> QED
  BY <1>2, <1>6, <1>7

\* The next name of destroyAll() is the last of the order, and is taken down.
LEMMA VisitMirrors ==
  ASSUME PP!BaseInv, PluginsInv, NEW tk, NEW v, PP!Visited(tk, v), tk.op = "destroyAll",
         tk.pc # "destroy", tk.todo \in Seq(Configured), tk.todo # <<>>,
         ~tk.failed => Mirrors(tk), ~v.failed
  PROVE  Mirrors(v)
<1>1. ~PP!IsInitializing(tk.op)
  BY DEF PP!IsInitializing
<1>2. /\ v.todo = Tail(tk.todo) /\ ~tk.failed
      /\ \/ \A id \in ToSet(plugins) : inst[id].name = Head(tk.todo) => ~inst[id].initialized
         \/ v.pc = "destroy" /\ inst[v.id].name = Head(tk.todo)
  BY <1>1, SameSequences DEF PP!Visited
<1>3. /\ Len(tk.todo) \in Nat \ {0} /\ Head(tk.todo) = tk.todo[1]
      /\ Len(Tail(tk.todo)) = Len(tk.todo) - 1
      /\ \A j \in 1..Len(tk.todo) - 1 : Tail(tk.todo)[j] = tk.todo[j + 1]
  BY HeadTailProperties, EmptySeq, LenProperties
<1>4. /\ Len(order) = Len(tk.todo)
      /\ \A k \in 1..Len(tk.todo) : tk.todo[k] = order[Len(tk.todo) - k + 1]
  BY <1>2, <1>3 DEF Mirrors
<1>5. Head(tk.todo) = order[Len(order)]
  BY <1>3, <1>4
<1>6. Head(tk.todo) \in ToSet(order)
  <2>1. order \in Seq(Configured)
    BY PluginTypes
  <2> QED
    BY <1>3, <1>4, <1>5, <2>1, ToSetType
<1>7. \E id \in ToSet(plugins) : inst[id].name = Head(tk.todo) /\ inst[id].initialized
  BY <1>6 DEF PluginsInv
<1>8. v.pc = "destroy" /\ inst[v.id].name = Head(tk.todo)
  BY <1>2, <1>7
<1>9. ASSUME NEW k \in 1..Len(v.todo) PROVE v.todo[k] = order[Len(v.todo) - k + 1]
  <2>1. k \in 1..Len(tk.todo) - 1 /\ k + 1 \in 1..Len(tk.todo)
    BY <1>2, <1>3
  <2>2. v.todo[k] = order[Len(tk.todo) - (k + 1) + 1]
    BY <1>2, <1>3, <1>4, <2>1
  <2> QED
    BY <1>2, <1>3, <2>1, <2>2
<1> QED
  BY <1>2, <1>3, <1>4, <1>5, <1>8, <1>9 DEF Mirrors

\* plugin.initialize() resolves or rejects.
LEMMA InitSettlesKeeps ==
  ASSUME CoreInv, NEW h \in Hook, NEW ok \in BOOLEAN, PP!InitSettles(h, ok),
         UNCHANGED <<lvars, loading, snap>>
  PROVE  /\ CoreInv' /\ h = StartHook
         /\ ok => \E name \in Configured \ ToSet(order) :
                    ToSet(order') = ToSet(order) \union {name}
         /\ ~ok => order' = order
<1> DEFINE t == task[h]
           n == inst[t.id].name
           m == PP!ninst
<1>1. /\ LP!IInv /\ PP!BaseInv /\ RunInv /\ PluginsInv /\ TasksInv /\ StartInv /\ StopInv
      /\ HandlersAreTasks /\ loading \subseteq Packaged
  BY DEF CoreInv
<1>2. LP!IInv' /\ RunInv' /\ UNCHANGED <<state, run, running, snap>> /\ loading' \subseteq Packaged
  BY <1>1, LifeFrame DEF lvars
<1>3. /\ t.pc = "init" /\ PP!AfterAwait(h, ~ok)
      /\ IF ok THEN /\ order' = Append(order, n)
                    /\ live' = [live EXCEPT ![t.id] = @ + 1]
               ELSE UNCHANGED <<order, live>>
  BY DEF PP!InitSettles
<1>4. /\ h = StartHook /\ run.hook = StartHook
      /\ state = "error" \/ L!Active
      /\ task[StopHook].pc = "idle"
  <2>1. t.pc # "idle" /\ PP!IsInitializing(t.op)
    BY <1>1, <1>3, PluginTypes DEF PP!Shaped
  <2> QED
    BY <2>1, ActiveHandler DEF Hook, StartHook, StopHook, PP!IsInitializing
<1>5. /\ PP!BaseInv' /\ UNCHANGED plugins /\ PP!ninst' = m
      /\ \A id \in 1..m :
           /\ inst'[id].name = inst[id].name /\ inst'[id].enabled = inst[id].enabled
           /\ inst'[id].initialized = IF id = t.id /\ ok THEN t.pc = "init" ELSE inst[id].initialized
  BY <1>1, PP!SettleBase, ManagersAssumptions
<1>6. /\ \A u \in Hook \ {h} : task'[u] = task[u]
      /\ task'[h].op = t.op /\ task'[h].pc = "loop" /\ task'[h].todo = t.todo
      /\ task'[h].failed = (t.failed \/ ~ok)
      /\ t.id \in 1..m
  <2>1. PICK f \in BOOLEAN : f = ~ok
    OBVIOUS
  <2>2. PP!AfterAwait(h, f) /\ t.pc \in {"init", "destroy"}
    BY <1>3, <2>1, Zenon
  <2> QED
    BY <1>1, <2>1, <2>2, PP!Awaited, ManagersAssumptions
<1>7. /\ ToSet(plugins) = 1..m /\ m \in Nat /\ snap \subseteq 1..m /\ order \in Seq(Configured)
      /\ \A id \in 1..m : inst[id].name \in Configured
      /\ \A id, jd \in 1..m : inst[id].name = inst[jd].name => id = jd
      /\ live \in [PP!Id -> Nat] /\ t.id \in PP!Id
  <2>1. ToSet(plugins) = 1..m /\ snap \subseteq 1..m
    BY <1>1 DEF PluginsInv
  <2>2. t.id \in PP!Id
    BY <1>1, <1>6, PluginTypes DEF PP!Id
  <2> QED
    BY <1>1, <2>1, <2>2, PluginTypes
<1> HIDE DEF m
<1>8. ~inst[t.id].initialized /\ n \notin ToSet(order)
  BY <1>1, <1>3, <1>6 DEF TasksInv, PluginsInv, m
<1>9. /\ IsInjective(order')
      /\ ToSet(order') = IF ok THEN ToSet(order) \union {n} ELSE ToSet(order)
  <2>1. n \in Configured
    BY <1>6, <1>7
  <2> HIDE DEF n
  <2>2. CASE ok
    <3>1. IsInjective(Append(order, n)) /\ ToSet(Append(order, n)) = ToSet(order) \union {n}
      BY <1>1, <1>7, <1>8, <2>1, AppendInjectively, AppendToSet DEF PluginsInv
    <3> QED
      BY <1>3, <2>2, <3>1
  <2>3. CASE ~ok
    BY <1>1, <1>3, <2>3 DEF PluginsInv
  <2> QED
    BY <2>2, <2>3
<1>10. \A id \in 1..m : inst'[id].initialized <=> inst[id].initialized \/ (ok /\ id = t.id)
  BY <1>3, <1>5
<1>11. PluginsInv'
  <2>1. \A name \in ToSet(order') : \E id \in 1..m : inst'[id].name = name
    BY <1>1, <1>5, <1>6, <1>9 DEF PluginsInv, m
  <2>2. \A id \in 1..m : inst'[id].enabled
    BY <1>1, <1>5 DEF PluginsInv, m
  <2>3. \A id \in 1..m : inst'[id].initialized <=> inst'[id].name \in ToSet(order')
    <3> SUFFICES ASSUME NEW id \in 1..m
                 PROVE  inst'[id].initialized <=> inst[id].name \in ToSet(order')
      BY <1>5
    <3>1. inst[id].initialized <=> inst[id].name \in ToSet(order)
      BY <1>1 DEF PluginsInv, m
    <3>2. inst[id].name = n <=> id = t.id
      BY <1>6, <1>7
    <3> HIDE DEF n
    <3> QED
      BY <1>8, <1>9, <1>10, <3>1, <3>2
  <2>4. \A id \in PP!Id : live'[id] = IF id <= m /\ inst'[id].initialized THEN 1 ELSE 0
    <3>1. \A id \in PP!Id : live[id] = IF id <= m /\ inst[id].initialized THEN 1 ELSE 0
      BY <1>1 DEF PluginsInv, m
    <3>2. \A id \in PP!Id : id <= m => id \in 1..m
      BY <1>7, ManagersAssumptions DEF PP!Id
    <3>3. CASE ok
      <4>1. live' = [live EXCEPT ![t.id] = live[t.id] + 1] /\ live[t.id] = 0 /\ t.id <= m
        BY <1>3, <1>6, <1>7, <1>8, <3>1, <3>3
      <4> QED
        BY <1>7, <1>10, <3>1, <3>2, <3>3, <4>1
    <3>4. CASE ~ok
      BY <1>3, <1>10, <3>1, <3>2, <3>4
    <3> QED
      BY <3>3, <3>4
  <2> QED
    BY <1>2, <1>5, <1>7, <1>9, <2>1, <2>2, <2>3, <2>4 DEF PluginsInv, m
<1>12. TasksInv' /\ HandlersAreTasks'
  BY <1>1, <1>2, <1>3, <1>4, <1>6 DEF TasksInv, HandlersAreTasks, Hook, StartHook, StopHook
<1>13. \A id \in snap : inst[id].initialized => inst'[id].initialized
  BY <1>7, <1>10
<1>14. StartInv'
  <2>1. SnapIsUp => SnapIsUp'
    BY <1>2, <1>13 DEF SnapIsUp
  <2>2. ASSUME ~task'[StartHook].failed PROVE Covers(snap, task[StartHook])'
    <3>1. ok /\ Covers(snap, t)
      BY <1>1, <1>3, <1>4, <1>6, <2>2 DEF StartInv
    <3>2. \A id \in snap : inst'[id].name = inst[id].name
      BY <1>5, <1>7
    <3>3. ASSUME NEW id \in snap
          PROVE  inst'[id].initialized \/ inst'[id].name \in ToSet(task'[StartHook].todo)
      BY <1>4, <1>6, <1>7, <1>10, <3>1, <3>2 DEF Covers
    <3> QED
      BY <1>2, <3>3 DEF Covers
  <2> QED
    BY <1>1, <1>2, <2>1, <2>2 DEF StartInv
<1>15. StopInv'
  <2>1. task'[StopHook].pc = "idle" /\ run'.hook # StopHook /\ state' # "created"
    BY <1>2, <1>4, <1>6 DEF Hook, StartHook, StopHook, L!Active
  <2> QED
    BY <2>1 DEF StopInv
<1> QED
  <2>1. CoreInv'
    BY <1>2, <1>5, <1>11, <1>12, <1>14, <1>15 DEF CoreInv
  <2> QED
    BY <1>3, <1>4, <1>6, <1>7, <1>8, <1>9, <2>1

\* plugin.destroy() resolves or rejects.
LEMMA DestroySettlesKeeps ==
  ASSUME CoreInv, NEW h \in Hook, NEW ok \in BOOLEAN, PP!DestroySettles(h, ok),
         UNCHANGED <<lvars, loading, snap>>
  PROVE  /\ CoreInv' /\ h = StopHook
         /\ ok => \E name \in ToSet(order) : ToSet(order') = ToSet(order) \ {name}
         /\ ~ok => order' = order
<1> DEFINE t == task[h]
           n == inst[t.id].name
           m == PP!ninst
<1>1. /\ LP!IInv /\ PP!BaseInv /\ RunInv /\ PluginsInv /\ TasksInv /\ StartInv /\ StopInv
      /\ HandlersAreTasks /\ loading \subseteq Packaged
  BY DEF CoreInv
<1>2. LP!IInv' /\ RunInv' /\ UNCHANGED <<state, run, running, snap>> /\ loading' \subseteq Packaged
  BY <1>1, LifeFrame DEF lvars
<1>3. /\ t.pc = "destroy" /\ PP!AfterAwait(h, ~ok)
      /\ IF ok THEN /\ order' = RemoveFirst(order, n)
                    /\ live' = [live EXCEPT ![t.id] = IF @ > 0 THEN @ - 1 ELSE 0]
               ELSE UNCHANGED <<order, live>>
  BY SameSequences DEF PP!DestroySettles
<1>4. /\ h = StopHook /\ run.hook = StopHook
      /\ state = "error" \/ (L!Active /\ run.res # "ok")
      /\ task[StartHook].pc = "idle"
  <2>1. t.pc # "idle" /\ ~PP!IsInitializing(t.op)
    BY <1>1, <1>3, PluginTypes DEF PP!Shaped
  <2> QED
    BY <2>1, ActiveHandler DEF Hook, StartHook, StopHook, PP!IsInitializing
<1>5. /\ PP!BaseInv' /\ UNCHANGED plugins /\ PP!ninst' = m
      /\ \A id \in 1..m :
           /\ inst'[id].name = inst[id].name /\ inst'[id].enabled = inst[id].enabled
           /\ inst'[id].initialized = IF id = t.id /\ ok THEN t.pc = "init" ELSE inst[id].initialized
  BY <1>1, PP!SettleBase, ManagersAssumptions
<1>6. /\ \A u \in Hook \ {h} : task'[u] = task[u]
      /\ task'[h].op = t.op /\ task'[h].pc = "loop" /\ task'[h].todo = t.todo
      /\ task'[h].failed = (t.failed \/ ~ok)
      /\ t.id \in 1..m
  <2>1. PICK f \in BOOLEAN : f = ~ok
    OBVIOUS
  <2>2. PP!AfterAwait(h, f) /\ t.pc \in {"init", "destroy"}
    BY <1>3, <2>1, Zenon
  <2> QED
    BY <1>1, <2>1, <2>2, PP!Awaited, ManagersAssumptions
<1>7. /\ ToSet(plugins) = 1..m /\ m \in Nat /\ snap \subseteq 1..m /\ order \in Seq(Configured)
      /\ \A id, jd \in 1..m : inst[id].name = inst[jd].name => id = jd
      /\ live \in [PP!Id -> Nat] /\ t.id \in PP!Id
  <2>1. ToSet(plugins) = 1..m /\ snap \subseteq 1..m
    BY <1>1 DEF PluginsInv
  <2>2. t.id \in PP!Id
    BY <1>1, <1>6, PluginTypes DEF PP!Id
  <2> QED
    BY <1>1, <2>1, <2>2, PluginTypes
<1> HIDE DEF m
<1>8. inst[t.id].initialized /\ n \in ToSet(order) /\ IsInjective(order)
  BY <1>1, <1>3, <1>6 DEF TasksInv, PluginsInv, m
<1>9. /\ IsInjective(order')
      /\ ToSet(order') = IF ok THEN ToSet(order) \ {n} ELSE ToSet(order)
  <2> HIDE DEF n
  <2>1. CASE ok
    <3>1. IsInjective(RemoveFirst(order, n)) /\ ToSet(RemoveFirst(order, n)) = ToSet(order) \ {n}
      BY <1>7, <1>8, RemoveInjectively
    <3> QED
      BY <1>3, <2>1, <3>1
  <2>2. CASE ~ok
    BY <1>3, <1>8, <2>2
  <2> QED
    BY <2>1, <2>2
<1>10. \A id \in 1..m : inst'[id].initialized <=> inst[id].initialized /\ ~(ok /\ id = t.id)
  BY <1>3, <1>5
<1>11. PluginsInv'
  <2>1. \A name \in ToSet(order') : \E id \in 1..m : inst'[id].name = name
    BY <1>1, <1>5, <1>9 DEF PluginsInv, m
  <2>2. \A id \in 1..m : inst'[id].enabled
    BY <1>1, <1>5 DEF PluginsInv, m
  <2>3. \A id \in 1..m : inst'[id].initialized <=> inst'[id].name \in ToSet(order')
    <3> SUFFICES ASSUME NEW id \in 1..m
                 PROVE  inst'[id].initialized <=> inst[id].name \in ToSet(order')
      BY <1>5
    <3>1. inst[id].initialized <=> inst[id].name \in ToSet(order)
      BY <1>1 DEF PluginsInv, m
    <3>2. inst[id].name = n <=> id = t.id
      BY <1>6, <1>7
    <3> HIDE DEF n
    <3> QED
      BY <1>8, <1>9, <1>10, <3>1, <3>2
  <2>4. \A id \in PP!Id : live'[id] = IF id <= m /\ inst'[id].initialized THEN 1 ELSE 0
    <3>1. \A id \in PP!Id : live[id] = IF id <= m /\ inst[id].initialized THEN 1 ELSE 0
      BY <1>1 DEF PluginsInv, m
    <3>2. \A id \in PP!Id : id <= m => id \in 1..m
      BY <1>7, ManagersAssumptions DEF PP!Id
    <3>3. CASE ok
      <4>1. live[t.id] = 1 /\ t.id <= m
        BY <1>6, <1>7, <1>8, <3>1
      <4>2. live' = [live EXCEPT ![t.id] = 0]
        BY <1>3, <3>3, <4>1
      <4> QED
        BY <1>7, <1>10, <3>1, <3>2, <3>3, <4>1, <4>2
    <3>4. CASE ~ok
      BY <1>3, <1>10, <3>1, <3>2, <3>4
    <3> QED
      BY <3>3, <3>4
  <2> QED
    BY <1>2, <1>5, <1>7, <1>9, <2>1, <2>2, <2>3, <2>4 DEF PluginsInv, m
<1>12. TasksInv' /\ HandlersAreTasks'
  BY <1>1, <1>2, <1>3, <1>4, <1>6 DEF TasksInv, HandlersAreTasks, Hook, StartHook, StopHook
<1>13. StartInv'
  <2>1. task'[StartHook].pc = "idle" /\ run'.hook # StartHook
    BY <1>2, <1>4, <1>6 DEF Hook, StartHook, StopHook
  <2> QED
    BY <2>1 DEF StartInv
<1>14. StopInv'
  <2>1. run'.res = "ok" => order' = <<>>
    <3>1. order # <<>>
      BY <1>8 DEF ToSet
    <3> QED
      BY <1>1, <1>2, <1>4, <3>1 DEF StopInv
  <2>2. ASSUME ~task'[StopHook].failed PROVE Mirrors(task[StopHook])'
    <3>1. ok /\ Mirrors(t)
      BY <1>1, <1>3, <1>4, <1>6, <2>2 DEF StopInv
    <3>2. /\ Len(t.todo) \in Nat /\ Len(order) = Len(t.todo) + 1 /\ order[Len(order)] = n
          /\ \A k \in 1..Len(t.todo) : t.todo[k] = order[Len(t.todo) - k + 1]
      <4>1. t.todo \in Seq(Configured)
        BY <1>1, PluginTypes DEF PP!TaskRecord
      <4> QED
        BY <1>3, <3>1, <4>1 DEF Mirrors
    <3> HIDE DEF n
    <3>3. /\ Len(order') = Len(t.todo)
          /\ \A j \in 1..Len(t.todo) : order'[j] = order[j]
      <4>1. order # <<>>
        BY <3>2
      <4>2. /\ Len(RemoveFirst(order, n)) = Len(order) - 1
            /\ \A j \in 1..Len(order) - 1 : RemoveFirst(order, n)[j] = order[j]
        <5>1. LET r == RemoveFirst(order, order[Len(order)]) IN
              Len(r) = Len(order) - 1 /\ \A j \in 1..Len(order) - 1 : r[j] = order[j]
          BY <1>7, <1>8, <4>1, RemoveLast
        <5>2. order[Len(order)] = n
          BY <3>2
        <5> QED
          BY <5>1, <5>2, Zenon
      <4> QED
        BY <1>3, <3>1, <3>2, <4>2
    <3>4. ASSUME NEW k \in 1..Len(t.todo) PROVE t.todo[k] = order'[Len(t.todo) - k + 1]
      <4>1. Len(t.todo) - k + 1 \in 1..Len(t.todo)
        BY <3>2
      <4> QED
        BY <3>2, <3>3, <4>1
    <3> QED
      BY <1>4, <1>6, <3>2, <3>3, <3>4 DEF Mirrors
  <2>3. state' # "created"
    BY <1>2, <1>4 DEF L!Active
  <2> QED
    BY <1>2, <2>1, <2>2, <2>3 DEF StopInv
<1> QED
  <2>1. CoreInv'
    BY <1>2, <1>5, <1>11, <1>12, <1>13, <1>14 DEF CoreInv
  <2> QED
    BY <1>3, <1>4, <1>8, <1>9, <2>1

\* The loop goes on with its next name.
LEMMA ContinueKeeps ==
  ASSUME CoreInv, NEW h \in Hook, PP!Continue(h), UNCHANGED <<lvars, loading, snap>>
  PROVE  CoreInv' /\ order' = order
<1> DEFINE t == task[h]
           v == PP!Visit(t)
<1>1. /\ LP!IInv /\ PP!BaseInv /\ RunInv /\ PluginsInv /\ TasksInv /\ StartInv /\ StopInv
      /\ HandlersAreTasks /\ loading \subseteq Packaged
  BY DEF CoreInv
<1>2. LP!IInv' /\ RunInv' /\ UNCHANGED <<state, run, running, snap>> /\ loading' \subseteq Packaged
  BY <1>1, LifeFrame DEF lvars
<1>3. /\ t.pc = "loop" /\ t.todo # <<>> /\ UNCHANGED <<plugins, inst, order, live>>
  BY DEF PP!Continue
<1>4. PP!BaseInv' /\ PP!Visited(t, v) /\ task' = [task EXCEPT ![h] = v]
  BY <1>1, PP!ContinueBase, ManagersAssumptions
<1> HIDE DEF v
<1>5. /\ task'[h] = v /\ \A g \in Hook \ {h} : task'[g] = task[g]
      /\ t.todo \in Seq(Configured)
  BY <1>1, <1>4, PluginTypes DEF PP!TaskRecord
<1>6. /\ \A g \in Hook \ {h} : task[g].pc = "idle"
      /\ t.op = IF h = StartHook THEN "initializeAll" ELSE "destroyAll"
      /\ run.hook = h
  BY <1>3, ActiveHandler
<1>7. /\ v.op = t.op /\ v.pc \in {"loop", "init", "destroy"}
      /\ v.pc = "init" => ~inst[v.id].initialized
      /\ v.pc = "destroy" => inst[v.id].initialized
  BY <1>4 DEF PP!Visited
<1>8. PluginsInv'
  BY <1>1, <1>2, <1>3 DEF PluginsInv, PP!ninst
<1>9. TasksInv' /\ HandlersAreTasks'
  BY <1>1, <1>2, <1>3, <1>5, <1>7 DEF TasksInv, HandlersAreTasks, Hook, StartHook, StopHook
<1>10. StartInv'
  <2>1. SnapIsUp' <=> SnapIsUp
    BY <1>2, <1>3 DEF SnapIsUp
  <2>2. CASE h = StartHook
    <3>1. ~v.failed => Covers(snap, v)
      BY <1>1, <1>3, <1>4, <1>5, <1>6, <2>2, VisitCovers DEF StartInv, PluginsInv
    <3>2. Covers(snap, v) => Covers(snap, task[StartHook])'
      BY <1>2, <1>3, <1>5, <2>2 DEF Covers
    <3> QED
      BY <1>1, <1>2, <1>5, <2>1, <2>2, <3>1, <3>2 DEF StartInv
  <2>3. CASE h = StopHook
    BY <1>1, <1>2, <1>5, <1>6, <2>1, <2>3 DEF StartInv, Hook, StartHook, StopHook
  <2> QED
    BY <2>2, <2>3 DEF Hook, StartHook, StopHook
<1>11. StopInv'
  <2>1. CASE h = StopHook
    <3>1. ~v.failed => Mirrors(v)
      BY <1>1, <1>3, <1>4, <1>5, <1>6, <2>1, VisitMirrors DEF StopInv, StartHook, StopHook
    <3>2. Mirrors(v) => Mirrors(task[StopHook])'
      BY <1>2, <1>3, <1>5, <2>1 DEF Mirrors
    <3> QED
      BY <1>1, <1>2, <1>3, <1>5, <2>1, <3>1, <3>2 DEF StopInv
  <2>2. CASE h = StartHook
    BY <1>1, <1>2, <1>3, <1>5, <1>6, <2>2 DEF StopInv, Hook, StartHook, StopHook
  <2> QED
    BY <2>1, <2>2 DEF Hook, StartHook, StopHook
<1> QED
  BY <1>2, <1>3, <1>4, <1>8, <1>9, <1>10, <1>11 DEF CoreInv

\* What the plugin manager makes of a step that is its own.
LEMMA HookContinuesKeeps ==
  ASSUME CoreInv, NEW h \in Hook, HookContinues(h)
  PROVE  /\ CoreInv' /\ UNCHANGED lvars
         /\ \/ order' = order
            \/ /\ task[StartHook].pc # "idle"
               /\ \E name \in Configured \ ToSet(order) : ToSet(order') = ToSet(order) \union {name}
            \/ /\ task[StopHook].pc # "idle"
               /\ \E name \in ToSet(order) : ToSet(order') = ToSet(order) \ {name}
<1>1. UNCHANGED <<lvars, loading, snap>>
  BY DEF HookContinues
<1>2. ASSUME NEW ok \in BOOLEAN, P!InitSettles(h, ok)
      PROVE  /\ CoreInv'
             /\ \/ order' = order
                \/ /\ task[StartHook].pc # "idle"
                   /\ \E name \in Configured \ ToSet(order) :
                        ToSet(order') = ToSet(order) \union {name}
  <2>1. PP!InitSettles(h, ok) /\ task[h].pc # "idle"
    BY <1>2, SamePlugins DEF P!InitSettles
  <2> QED
    BY <1>1, <2>1, InitSettlesKeeps
<1>3. ASSUME NEW ok \in BOOLEAN, P!DestroySettles(h, ok)
      PROVE  /\ CoreInv'
             /\ \/ order' = order
                \/ /\ task[StopHook].pc # "idle"
                   /\ \E name \in ToSet(order) : ToSet(order') = ToSet(order) \ {name}
  <2>1. PP!DestroySettles(h, ok) /\ task[h].pc # "idle"
    BY <1>3, SamePlugins DEF P!DestroySettles
  <2> QED
    BY <1>1, <2>1, DestroySettlesKeeps
<1>4. CASE P!Continue(h)
  BY <1>1, <1>4, SamePlugins, ContinueKeeps
<1> QED
  BY <1>1, <1>2, <1>3, <1>4 DEF HookContinues

\* The operation has returned or thrown, and its hook settles.
LEMMA HookSettlesKeeps ==
  ASSUME CoreInv, NEW h \in Hook, HookSettles(h)
  PROVE  CoreInv' /\ order' = order /\ state' = state /\ run'.phase = run.phase
<1> DEFINE t == task[h]
           r == IF t.failed THEN "err" ELSE "ok"
<1>1. /\ LP!IInv /\ PP!BaseInv /\ RunInv /\ PluginsInv /\ TasksInv /\ StartInv /\ StopInv
      /\ HandlersAreTasks /\ loading \subseteq Packaged
  BY DEF CoreInv
<1>2. /\ t.pc = "loop" /\ t.todo = <<>> /\ task' = [task EXCEPT ![h] = PP!NoTask]
      /\ UNCHANGED <<plugins, order, live, loading, snap>>
      /\ PP!Finish(h) /\ LP!HandlerSettles(h, r)
  BY SamePlugins, SameRuns DEF HookSettles, PP!Finish
<1>3. /\ running = {h} /\ run.hook = h /\ h = HookOf(run.phase)
      /\ state = "error" \/ (L!Active /\ run.res # "ok")
      /\ \A g \in Hook \ {h} : task[g].pc = "idle"
      /\ t.op = IF h = StartHook THEN "initializeAll" ELSE "destroyAll"
  BY <1>2, ActiveHandler
<1>4. /\ running' = {} /\ UNCHANGED <<state, hooks>>
      /\ run' = IF L!Active /\ run.res = "pending" THEN [run EXCEPT !.res = r] ELSE run
  BY <1>2, <1>3 DEF LP!HandlerSettles, LP!Active, L!Active
<1>5. LP!IInv'
  <2>1. LP!Next
    BY <1>2 DEF LP!Next, LP!HookId, Hook
  <2> QED
    BY <1>1, <2>1, LP!NextIInv, ManagersAssumptions
<1>6. /\ run'.phase = run.phase /\ run'.hook = run.hook /\ run'.i = run.i
      /\ run'.res = run.res \/ (L!Active /\ run'.res = r)
  BY <1>1, <1>4, RunTypes
<1>7. RunInv'
  BY <1>1, <1>4, <1>6 DEF RunInv, L!Active
<1>8. PP!BaseInv' /\ UNCHANGED inst
  <2>1. PP!BaseInv'
    BY <1>1, <1>2, PP!FinishBase, ManagersAssumptions
  <2>2. t.op # "disable"
    BY <1>3
  <2> QED
    BY <1>2, <2>1, <2>2 DEF PP!Finish
<1>9. /\ task'[h].pc = "idle" /\ task'[h].op = "none"
      /\ \A g \in Hook \ {h} : task'[g] = task[g]
  BY <1>1, <1>2, PluginTypes DEF PP!NoTask
<1>10. PluginsInv' /\ TasksInv' /\ HandlersAreTasks'
  <2>1. PluginsInv'
    BY <1>1, <1>2, <1>8 DEF PluginsInv, PP!ninst
  <2>2. TasksInv'
    BY <1>1, <1>8, <1>9 DEF TasksInv, Hook, StartHook, StopHook
  <2>3. HandlersAreTasks'
    BY <1>3, <1>4, <1>9 DEF HandlersAreTasks
  <2> QED
    BY <2>1, <2>2, <2>3
<1>11. StartInv'
  <2>1. SnapIsUp' <=> SnapIsUp
    BY <1>2, <1>8 DEF SnapIsUp
  <2>2. h = StartHook /\ ~t.failed => SnapIsUp
    BY <1>1, <1>2 DEF StartInv, Covers, SnapIsUp, ToSet
  <2>3. task'[StartHook].pc = "idle"
    BY <1>3, <1>9 DEF Hook, StartHook
  <2>4. run'.hook = StartHook /\ run'.res = "ok" => SnapIsUp
    BY <1>1, <1>3, <1>6, <2>2 DEF StartInv
  <2> QED
    BY <2>1, <2>3, <2>4 DEF StartInv
<1>12. StopInv'
  <2>1. h = StopHook /\ ~t.failed => order = <<>>
    <3>1. h = StopHook /\ ~t.failed => Mirrors(t)
      BY <1>1, <1>2 DEF StopInv
    <3>2. Mirrors(t) => Len(order) = 0
      BY <1>2 DEF Mirrors
    <3>3. order \in Seq(Configured)
      BY <1>1, PluginTypes
    <3> QED
      BY <3>1, <3>2, <3>3
  <2>2. task'[StopHook].pc = "idle"
    BY <1>3, <1>9 DEF Hook, StopHook
  <2>3. run'.hook = StopHook /\ run'.res = "ok" => order = <<>>
    BY <1>1, <1>3, <1>6, <2>1 DEF StopInv
  <2> QED
    BY <1>1, <1>2, <1>4, <2>2, <2>3 DEF StopInv
<1> QED
  BY <1>1, <1>2, <1>4, <1>5, <1>6, <1>7, <1>8, <1>10, <1>11, <1>12 DEF CoreInv

-----------------------------------------------------------------------------
(* A hook is called.                                                       *)

\* The run calls the one hook of its phase, and no other handler is running.
LEMMA HookIsCalled ==
  ASSUME CoreInv, L!NextHook
  PROVE  /\ LP!IInv' /\ RunInv' /\ state' = state /\ L!Active
         /\ run'.phase = run.phase /\ run'.hook = HookOf(run.phase) /\ run'.res = "pending"
         /\ running' = {HookOf(run.phase)}
         /\ \A h \in Hook : task[h].pc = "idle"
<1>1. LP!IInv /\ RunInv /\ HandlersAreTasks
  BY DEF CoreInv
<1>2. /\ L!Active /\ run.i < Len(hooks[run.phase])
      /\ run' = [run EXCEPT !.i = @ + 1, !.hook = hooks[run.phase][run.i + 1], !.res = "pending"]
      /\ running' = running \union {hooks[run.phase][run.i + 1]}
      /\ UNCHANGED <<state, hooks>>
  BY DEF L!NextHook, L!AtLoopHead
<1>3. /\ run.i = 0 /\ run.hook = 0 /\ Len(hooks[run.phase]) = 1
      /\ hooks[run.phase][1] = HookOf(run.phase) /\ HookOf(run.phase) # 0
  <2>1. /\ Len(hooks[run.phase]) = 1 /\ hooks[run.phase][1] = HookOf(run.phase)
        /\ HookOf(run.phase) # 0
    BY <1>1, RunTypes DEF RunInv, HookOf, StartHook, StopHook
  <2> QED
    BY <1>1, <1>2, <2>1 DEF RunInv
<1>4. running = {} /\ running' = {HookOf(run.phase)}
  <2>1. running = {}
    BY <1>1, <1>3, RunTypes DEF Hook
  <2> QED
    BY <1>2, <1>3, <2>1
<1>5. \A h \in Hook : task[h].pc = "idle"
  BY <1>1, <1>4 DEF HandlersAreTasks
<1>6. LP!IInv'
  <2>1. LP!Next
    BY SameRuns DEF LP!Next
  <2> QED
    BY <1>1, <2>1, LP!NextIInv, ManagersAssumptions
<1>7. /\ run'.phase = run.phase /\ run'.hook = HookOf(run.phase) /\ run'.res = "pending"
      /\ run'.i = 1
  <2> DEFINE k == hooks[run.phase][run.i + 1]
  <2>1. k = HookOf(run.phase)
    BY <1>3
  <2>2. run' = [run EXCEPT !.i = run.i + 1, !.hook = k, !.res = "pending"]
    BY <1>2
  <2> HIDE DEF k
  <2>3. run' = [phase |-> run.phase, i |-> run.i + 1, hook |-> k, res |-> "pending"]
    BY <1>1, <2>2, RunTypes
  <2> QED
    BY <1>3, <2>1, <2>3
<1>8. RunInv'
  BY <1>1, <1>2, <1>7 DEF RunInv, L!Active
<1> QED
  BY <1>2, <1>4, <1>5, <1>6, <1>7, <1>8

\* The handlers of the hooks begin: what is written for the task is its first step.
LEMMA HookBeginsKeeps ==
  ASSUME CoreInv, HookBegins
  PROVE  CoreInv' /\ order' = order /\ state' = state /\ run'.phase = run.phase
<1> DEFINE m == PP!ninst
           names == [k \in 1..Len(plugins) |-> inst[plugins[k]].name]
<1>1. /\ LP!IInv /\ PP!BaseInv /\ RunInv /\ PluginsInv /\ TasksInv /\ StartInv /\ StopInv
      /\ HandlersAreTasks /\ loading \subseteq Packaged
  BY DEF CoreInv
<1>2. /\ LP!IInv' /\ RunInv' /\ state' = state /\ L!Active
      /\ run'.phase = run.phase /\ run'.hook = HookOf(run.phase) /\ run'.res = "pending"
      /\ running' = {HookOf(run.phase)}
      /\ \A h \in Hook : task[h].pc = "idle"
      /\ loading' = loading
  BY HookIsCalled DEF HookBegins
<1>3. state' # "created"
  BY <1>2 DEF L!Active
<1>4. \A h \in Hook : task[h].op = "none"
  BY <1>1, <1>2, PluginTypes DEF PP!Shaped
<1>5. CASE run'.hook = StartHook /\ P!InitializeAll(StartHook) /\ snap' = ToSet(plugins)
  <2> DEFINE b == PP!Began("initializeAll", names, 0)
  <2>1. PP!InitializeAll(StartHook) /\ StartHook \in Hook
    BY <1>5, SamePlugins DEF Hook, StartHook
  <2>2. PP!BaseInv' /\ UNCHANGED <<plugins, inst, order, live>>
    BY <1>1, <2>1, PP!BeginBase, ManagersAssumptions
  <2>3. task' = [task EXCEPT ![StartHook] = b]
    BY <2>1 DEF PP!InitializeAll
  <2>4. names \in Seq(Configured)
    BY <1>1, PP!RegisteredNames, ManagersAssumptions
  <2> HIDE DEF names
  <2>5. /\ b \in PP!TaskRecord(m) /\ b.op = "initializeAll"
        /\ names = <<>> => b.pc = "loop" /\ b.todo = <<>>
        /\ names # <<>> => \E tk \in PP!TaskRecord(m) :
             /\ tk.op = "initializeAll" /\ tk.pc = "loop" /\ tk.todo = names /\ ~tk.failed
             /\ PP!Visited(tk, b)
    <3>1. "initializeAll" \in PP!AllOps /\ 0 \in 0..m
      BY <1>1, PluginTypes DEF PP!AllOps
    <3> QED
      BY <1>1, <2>4, <3>1, PP!BeganDoes, ManagersAssumptions
  <2> HIDE DEF b
  <2>6. /\ b.pc \in {"loop", "init", "destroy"}
        /\ b.pc = "init" => ~inst[b.id].initialized
        /\ b.pc = "destroy" => inst[b.id].initialized
    BY <2>5 DEF PP!Visited
  <2>7. task'[StartHook] = b /\ task'[StopHook] = task[StopHook]
    BY <1>1, <2>3, PluginTypes DEF Hook, StartHook, StopHook
  <2>8. PluginsInv'
    BY <1>1, <1>5, <2>2 DEF PluginsInv, PP!ninst
  <2>9. TasksInv' /\ HandlersAreTasks'
    BY <1>1, <1>2, <1>4, <1>5, <2>2, <2>5, <2>6, <2>7
       DEF TasksInv, HandlersAreTasks, Hook, StartHook, StopHook
  <2>10. ~b.failed => Covers(snap', b)
    <3>1. \A id \in ToSet(plugins) : inst[id].name \in ToSet(names)
      BY DEF ToSet, names
    <3>2. CASE names = <<>>
      <4>1. ToSet(names) = {}
        BY <3>2 DEF ToSet
      <4> QED
        BY <1>5, <3>1, <4>1 DEF Covers
    <3>3. CASE names # <<>>
      <4>1. PICK tk \in PP!TaskRecord(m) :
              /\ tk.op = "initializeAll" /\ tk.pc = "loop" /\ tk.todo = names /\ ~tk.failed
              /\ PP!Visited(tk, b)
        BY <2>5, <3>3
      <4>2. snap' \in SUBSET ToSet(plugins) /\ Covers(snap', tk)
        BY <1>5, <3>1, <4>1 DEF Covers
      <4> QED
        BY <1>1, <2>4, <3>3, <4>1, <4>2, VisitCovers
    <3> QED
      BY <3>2, <3>3
  <2>11. StartInv'
    <3>1. ~task'[StartHook].failed => Covers(snap, task[StartHook])'
      BY <2>2, <2>7, <2>10 DEF Covers
    <3> QED
      BY <1>2, <3>1 DEF StartInv
  <2>12. StopInv'
    BY <1>2, <1>3, <2>7 DEF StopInv, Hook, StopHook
  <2> QED
    BY <1>1, <1>2, <2>2, <2>8, <2>9, <2>11, <2>12 DEF CoreInv
<1>6. CASE run'.hook = StopHook /\ P!DestroyAll(StopHook) /\ UNCHANGED snap
  <2> DEFINE rev == Reverse(order)
             b == PP!Began("destroyAll", rev, 0)
  <2>1. PP!DestroyAll(StopHook) /\ StopHook \in Hook
    BY <1>6, SamePlugins DEF Hook, StopHook
  <2>2. PP!BaseInv' /\ UNCHANGED <<plugins, inst, order, live>>
    BY <1>1, <2>1, PP!BeginBase, ManagersAssumptions
  <2>3. task' = [task EXCEPT ![StopHook] = b]
    BY <2>1, SameSequences DEF PP!DestroyAll
  <2>4. order \in Seq(Configured)
    BY <1>1, PluginTypes
  <2>5. /\ rev \in Seq(Configured) /\ Len(rev) = Len(order)
        /\ \A k \in 1..Len(order) : rev[k] = order[Len(order) - k + 1]
    BY <2>4 DEF Reverse
  <2> HIDE DEF rev
  <2>6. /\ b \in PP!TaskRecord(m) /\ b.op = "destroyAll"
        /\ rev = <<>> => b.pc = "loop" /\ b.todo = <<>>
        /\ rev # <<>> => \E tk \in PP!TaskRecord(m) :
             /\ tk.op = "destroyAll" /\ tk.pc = "loop" /\ tk.todo = rev /\ ~tk.failed
             /\ PP!Visited(tk, b)
    <3>1. "destroyAll" \in PP!AllOps /\ 0 \in 0..m
      BY <1>1, PluginTypes DEF PP!AllOps
    <3> QED
      BY <1>1, <2>5, <3>1, PP!BeganDoes, ManagersAssumptions
  <2> HIDE DEF b
  <2>7. /\ b.pc \in {"loop", "init", "destroy"}
        /\ b.pc = "init" => ~inst[b.id].initialized
        /\ b.pc = "destroy" => inst[b.id].initialized
    BY <2>6 DEF PP!Visited
  <2>8. task'[StopHook] = b /\ task'[StartHook] = task[StartHook]
    BY <1>1, <2>3, PluginTypes DEF Hook, StartHook, StopHook
  <2>9. PluginsInv'
    BY <1>1, <1>6, <2>2 DEF PluginsInv, PP!ninst
  <2>10. TasksInv' /\ HandlersAreTasks'
    BY <1>1, <1>2, <1>4, <1>6, <2>2, <2>6, <2>7, <2>8
       DEF TasksInv, HandlersAreTasks, Hook, StartHook, StopHook
  <2>11. ~b.failed => Mirrors(b)
    <3>1. CASE rev = <<>>
      <4>1. b.pc = "loop" /\ b.todo = <<>>
        BY <2>6, <3>1
      <4>2. Len(order) = 0 /\ Len(b.todo) = 0
        BY <2>5, <3>1, <4>1
      <4> QED
        BY <4>1, <4>2 DEF Mirrors
    <3>2. CASE rev # <<>>
      <4>1. PICK tk \in PP!TaskRecord(m) :
              /\ tk.op = "destroyAll" /\ tk.pc = "loop" /\ tk.todo = rev /\ ~tk.failed
              /\ PP!Visited(tk, b)
        BY <2>6, <3>2
      <4>2. Mirrors(tk)
        BY <2>4, <2>5, <4>1 DEF Mirrors
      <4> QED
        BY <1>1, <2>5, <3>2, <4>1, <4>2, VisitMirrors
    <3> QED
      BY <3>1, <3>2
  <2>12. StartInv'
    BY <1>2, <1>6, <2>8 DEF StartInv, Hook, StartHook, StopHook
  <2>13. StopInv'
    <3>1. ~task'[StopHook].failed => Mirrors(task[StopHook])'
      BY <2>2, <2>8, <2>11 DEF Mirrors
    <3> QED
      BY <1>2, <1>3, <3>1 DEF StopInv
  <2> QED
    BY <1>1, <1>2, <2>2, <2>9, <2>10, <2>12, <2>13 DEF CoreInv
<1> QED
  BY <1>5, <1>6 DEF HookBegins

-----------------------------------------------------------------------------
(* The invariant of the core.                                              *)

\* The constructor leaves both managers as they begin, with one hook in each list.
LEMMA CoreInit == Init => CoreInv
<1> SUFFICES ASSUME Init PROVE CoreInv
  OBVIOUS
<1>1. /\ state = "created" /\ run = L!NoRun /\ running = {}
      /\ hooks = [start |-> <<StartHook>>, stop |-> <<StopHook>>] /\ nhooks = 2
      /\ entering = FALSE /\ leaving = <<>> /\ owed = {} /\ promise = [p \in L!Phase |-> "none"]
      /\ call = [c \in Callers |-> L!NoCall] /\ exitCode = -1
      /\ ran = <<>> /\ plan = <<>> /\ edits = {}
      /\ P!Init /\ loading = Packaged /\ snap = {}
  BY DEF Init
<1>2. LP!IInv
  <2>1. hooks \in [LP!Phase -> Seq(LP!HookId)]
    <3> DEFINE a == <<StartHook>>
               b == <<StopHook>>
    <3>1. a \in Seq(LP!HookId) /\ b \in Seq(LP!HookId)
      BY DEF LP!HookId, StartHook, StopHook
    <3>2. hooks = [start |-> a, stop |-> b]
      BY <1>1
    <3> HIDE DEF a, b
    <3> QED
      BY <3>1, <3>2 DEF LP!Phase
  <2>2. run \in [phase : LP!Phase, i : Nat, hook : LP!HookId \union {0}, res : {"pending", "ok", "err"}]
    BY <1>1 DEF L!NoRun, LP!Phase
  <2>3. call \in [Callers -> [op : {"none", "start", "stop", "restart", "signal", "crash"},
                              pc : {"idle", "wait", "resume", "done"},
                              phase : LP!Phase, res : {"pending", "ok", "err"}]]
    BY <1>1 DEF L!NoCall, LP!Phase
  <2>4. promise \in [LP!Phase -> {"none", "pending", "ok", "err"}]
    BY <1>1 DEF L!Phase, LP!Phase
  <2>5. ran \in Seq(LP!HookId) /\ plan \in Seq(LP!HookId)
    BY <1>1
  <2>6. nhooks \in 0..2 /\ running \in SUBSET LP!HookId /\ exitCode \in {-1, 0, 1}
    BY <1>1
  <2>7. leaving \in Seq(LP!Frame)
    BY <1>1, EmptySeq
  <2>8. LP!TypeOK
    BY <1>1, <2>1, <2>2, <2>3, <2>4, <2>5, <2>6, <2>7 DEF LP!TypeOK, LP!Frame
  <2> QED
    BY <1>1, <2>8 DEF LP!IInv, LP!HandlerInv
<1>3. PP!BaseInv
  BY <1>1, SamePlugins, PP!BaseInit, ManagersAssumptions
<1>4. /\ plugins = <<>> /\ inst = <<>> /\ order = <<>> /\ PP!ninst = 0
      /\ task = [h \in Hook |-> PP!NoTask] /\ live = [id \in PP!Id |-> 0]
  BY <1>1, SamePlugins DEF PP!Init, PP!ninst
<1>5. /\ \A h \in Hook : task[h].op = "none" /\ task[h].pc = "idle"
      /\ StartHook \in Hook /\ StopHook \in Hook
  BY <1>4 DEF PP!NoTask, Hook, StartHook, StopHook
<1>6. run.phase = "start" /\ run.i = 0 /\ run.hook = 0
  BY <1>1 DEF L!NoRun
<1>7. RunInv /\ HandlersAreTasks
  BY <1>1, <1>5, <1>6 DEF RunInv, HandlersAreTasks, L!Active
<1>8. PluginsInv
  <2>1. ToSet(plugins) = {} /\ ToSet(order) = {} /\ 1..PP!ninst = {}
    BY <1>4 DEF ToSet
  <2>2. \A id \in PP!Id : live[id] = 0 /\ ~(id <= PP!ninst)
    BY <1>4, ManagersAssumptions DEF PP!Id
  <2>3. IsInjective(order)
    BY <1>4 DEF IsInjective
  <2> QED
    BY <1>1, <2>1, <2>2, <2>3 DEF PluginsInv
<1>9. TasksInv /\ StartInv /\ StopInv
  BY <1>1, <1>4, <1>5, <1>6 DEF TasksInv, StartInv, StopInv, StartHook, StopHook
<1> QED
  BY <1>1, <1>2, <1>3, <1>7, <1>8, <1>9 DEF CoreInv

\* A stuttering step keeps everything.
LEMMA CoreFrame == ASSUME CoreInv, UNCHANGED vars PROVE CoreInv'
<1>1. /\ LP!IInv /\ PP!BaseInv /\ RunInv /\ PluginsInv /\ TasksInv /\ StartInv /\ StopInv
      /\ HandlersAreTasks /\ loading \subseteq Packaged
  BY DEF CoreInv
<1>2. UNCHANGED <<lvars, pvars, loading, snap>>
  BY DEF vars
<1>3. LP!IInv' /\ RunInv' /\ PP!BaseInv'
  BY <1>1, <1>2, LifeFrame, PluginsFrame
<1>4. UNCHANGED <<state, run, running, task, inst, order, plugins, live>>
  BY <1>2 DEF lvars, pvars
<1>5. PluginsInv' /\ TasksInv' /\ HandlersAreTasks'
  BY <1>1, <1>2, <1>4 DEF PluginsInv, TasksInv, HandlersAreTasks, PP!ninst
<1>6. /\ Covers(snap, task[StartHook])' <=> Covers(snap, task[StartHook])
      /\ SnapIsUp' <=> SnapIsUp
      /\ Mirrors(task[StopHook])' <=> Mirrors(task[StopHook])
  BY <1>2, <1>4 DEF Covers, SnapIsUp, Mirrors
<1>7. StartInv' /\ StopInv'
  BY <1>1, <1>4, <1>6 DEF StartInv, StopInv
<1> QED
  BY <1>1, <1>2, <1>3, <1>5, <1>7 DEF CoreInv

\* Every step keeps the invariant.
LEMMA CoreNext == CoreInv /\ [Next]_vars => CoreInv'
<1> SUFFICES ASSUME CoreInv, [Next]_vars PROVE CoreInv'
  OBVIOUS
<1>1. CASE Lifecycle
  BY <1>1, LifecycleKeeps
<1>2. CASE HookBegins
  BY <1>2, HookBeginsKeeps
<1>3. ASSUME NEW h \in Hook, HookContinues(h) \/ HookSettles(h) PROVE CoreInv'
  BY <1>3, HookContinuesKeeps, HookSettlesKeeps
<1>4. ASSUME NEW name \in Configured, PluginLoads(name) PROVE CoreInv'
  BY <1>4, PluginLoadsKeeps
<1>5. CASE UNCHANGED vars
  BY <1>5, CoreFrame
<1> QED
  BY <1>1, <1>2, <1>3, <1>4, <1>5 DEF Next

\* It holds throughout.
LEMMA CoreInvariance == Spec => []CoreInv
BY CoreInit, CoreNext, PTL DEF Spec

-----------------------------------------------------------------------------
(* What a start and a stop do to the plugins.                              *)

\* For any callers and any configured plugins, whatever fails, is timed out or is
\* imported late: a service in STARTED has every plugin up that was registered
\* when its start hook ran.
THEOREM StartedServicesAreReady == Spec => []StartedMeansReady
<1>1. CoreInv => StartedMeansReady
  <2> SUFFICES ASSUME CoreInv PROVE StartedMeansReady
    OBVIOUS
  <2>1. /\ LP!IInv /\ PP!BaseInv /\ RunInv /\ PluginsInv /\ StartInv
        /\ HandlersAreTasks /\ loading \subseteq Packaged
    BY DEF CoreInv
  <2>2. TypeOK
    <3>1. L!TypeOK /\ P!TypeOK
      BY <2>1, SameTypes DEF LP!IInv, PP!BaseInv
    <3> QED
      BY <2>1, <3>1 DEF TypeOK, PluginsInv, HandlersAreTasks
  <2>3. state = "started" => SnapIsUp
    BY <2>1, RunTypes DEF RunInv, StartInv, L!Done, HookOf
  <2> QED
    BY <2>2, <2>3 DEF StartedMeansReady, SnapIsUp
<1> QED
  BY <1>1, CoreInvariance, PTL

\* For any callers and any configured plugins: the plugins go down one at a time,
\* the last of the order first as long as none of them failed to, and never while
\* a start that was given up still brings plugins up.
THEOREM TeardownIsOrderly == Spec => []OrderlyTeardown
<1>1. CoreInv => OrderlyTeardown
  <2> SUFFICES ASSUME CoreInv, task[StopHook].pc = "destroy"
               PROVE  /\ task[StartHook].pc = "idle"
                      /\ ~task[StopHook].failed => inst[task[StopHook].id].name = Last(order)
    BY DEF OrderlyTeardown
  <2>1. StopHook \in Hook /\ StartHook \in Hook \ {StopHook}
    BY DEF Hook, StartHook, StopHook
  <2>2. task[StartHook].pc = "idle"
    BY <2>1, ActiveHandler
  <2>3. ~task[StopHook].failed => Mirrors(task[StopHook])
    BY DEF CoreInv, StopInv
  <2> QED
    BY <2>2, <2>3 DEF Mirrors, Last
<1> QED
  BY <1>1, CoreInvariance, PTL

-----------------------------------------------------------------------------
(* The core is a managed service.                                          *)

\* What is up is what the order lists.
LEMMA UpIsOrder == CoreInv => Up = ToSet(order)
<1> SUFFICES ASSUME CoreInv PROVE Up = ToSet(order)
  OBVIOUS
<1>1. PP!BaseInv /\ PluginsInv
  BY DEF CoreInv
<1>2. PP!ninst \in Nat /\ PP!ninst <= Cardinality(Configured) /\ Cardinality(Configured) \in Nat
  BY <1>1, PluginTypes
<1>3. \A id \in 1..PP!ninst : id \in PP!Id /\ id <= PP!ninst
  BY <1>2 DEF PP!Id
<1>4. ToSet(plugins) = 1..PP!ninst
  BY <1>1 DEF PluginsInv
<1>5. \A id \in 1..PP!ninst : live[id] > 0 <=> inst[id].name \in ToSet(order)
  BY <1>1, <1>3 DEF PluginsInv
<1>6. \A name \in ToSet(order) : \E id \in 1..PP!ninst : inst[id].name = name
  BY <1>1 DEF PluginsInv
<1> QED
  BY <1>4, <1>5, <1>6 DEF Up

\* So it is in the next state.
LEMMA UpIsOrderNext == CoreInv' => (Up = ToSet(order))'
BY UpIsOrder, PTL

\* The service is in the phase of its run.
LEMMA PhaseIs ==
  ASSUME LP!IInv
  PROVE  /\ state \in {"created", "stopped"} => ServicePhase = "down"
         /\ state = "started" => ServicePhase = "up"
         /\ state \in {"starting", "stopping"} => ServicePhase = state
         /\ state = "error" =>
              ServicePhase = IF run.phase = "start" THEN "startFailed" ELSE "stopFailed"
BY RunTypes DEF ServicePhase

\* So it is in the next state.
LEMMA PhaseIsNext ==
  ASSUME LP!IInv'
  PROVE  /\ state' \in {"created", "stopped"} => ServicePhase' = "down"
         /\ state' = "started" => ServicePhase' = "up"
         /\ state' \in {"starting", "stopping"} => ServicePhase' = state'
         /\ state' = "error" =>
              ServicePhase' = IF run'.phase = "start" THEN "startFailed" ELSE "stopFailed"
<1>1. run' \in [phase : {"start", "stop"}, i : Nat, hook : {0, 1, 2}, res : {"pending", "ok", "err"}]
  BY DEF LP!IInv, LP!TypeOK, LP!Phase, LP!HookId
<1> QED
  BY <1>1 DEF ServicePhase

\* Every step of the core is one of the service, or none.
LEMMA StepMaps == ASSUME CoreInv, [Next]_vars PROVE [Service!Next]_(Service!vars)
<1>1. CoreInv' /\ Up = ToSet(order) /\ Up' = ToSet(order')
  <2>1. CoreInv' /\ (Up = ToSet(order))'
    BY CoreNext, UpIsOrderNext
  <2> QED
    BY <2>1, UpIsOrder
<1>2. /\ LP!IInv /\ LP!IInv' /\ RunInv /\ StopInv
  BY <1>1 DEF CoreInv
<1> DEFINE Stutter == ServicePhase' = ServicePhase /\ Up' = Up
           SamePhase == state' = state /\ run'.phase = run.phase
<1>3. SamePhase => ServicePhase' = ServicePhase
  BY DEF ServicePhase
<1>4. Stutter => [Service!Next]_(Service!vars)
  BY DEF Service!vars
<1>5. SamePhase /\ order' = order => [Service!Next]_(Service!vars)
  BY <1>1, <1>3, <1>4
<1>6. CASE Lifecycle
  <2>1. /\ UNCHANGED <<pvars, loading, snap, running>>
        /\ Steady \/ (\E p \in {"start", "stop"} : Begins(p)) \/ Ends \/ Fails
    BY <1>2, <1>6, LifecycleDoes
  <2>2. order' = order /\ Up' = Up
    BY <1>1, <2>1 DEF pvars
  <2>3. CASE Steady
    BY <1>5, <2>2, <2>3 DEF Steady
  <2>4. ASSUME NEW p \in {"start", "stop"}, Begins(p) PROVE Service!BeginStart \/ Service!BeginStop
    BY <1>2, <2>2, <2>4, PhaseIs, PhaseIsNext
       DEF Begins, L!CanBegin, L!Doing, Service!BeginStart, Service!BeginStop
  <2>5. CASE Ends
    <3>1. run.phase \in {"start", "stop"} /\ state = L!Doing(run.phase) /\ state' = L!Done(run.phase)
      BY <1>2, <2>5, RunTypes DEF Ends, RunInv
    <3>2. CASE run.phase = "start"
      BY <1>2, <2>2, <3>1, <3>2, PhaseIs, PhaseIsNext DEF L!Doing, L!Done, Service!EndStart, Service!Next
    <3>3. CASE run.phase = "stop"
      <4>1. Up = {}
        BY <1>1, <1>2, <2>5, <3>3 DEF Ends, RunInv, StopInv, HookOf, ToSet
      <4> QED
        BY <1>2, <2>2, <3>1, <3>3, <4>1, PhaseIs, PhaseIsNext
           DEF L!Doing, L!Done, Service!EndStop, Service!Next
    <3> QED
      BY <3>1, <3>2, <3>3
  <2>6. CASE Fails
    <3>1. /\ run.phase \in {"start", "stop"} /\ state = L!Doing(run.phase)
          /\ state' = "error" /\ run' = run
      BY <1>2, <2>6, RunTypes DEF Fails, RunInv
    <3>2. Service!EndStart \/ Service!EndStop
      BY <1>2, <2>2, <3>1, PhaseIs, PhaseIsNext DEF L!Doing, Service!EndStart, Service!EndStop
    <3> QED
      BY <3>2 DEF Service!Next
  <2> QED
    BY <2>1, <2>3, <2>4, <2>5, <2>6 DEF Service!Next
<1>7. CASE HookBegins
  BY <1>5, <1>7, HookBeginsKeeps
<1>8. ASSUME NEW h \in Hook, HookSettles(h) PROVE [Service!Next]_(Service!vars)
  BY <1>5, <1>8, HookSettlesKeeps
<1>9. ASSUME NEW h \in Hook, HookContinues(h) PROVE [Service!Next]_(Service!vars)
  <2>1. /\ UNCHANGED lvars
        /\ \/ order' = order
           \/ /\ task[StartHook].pc # "idle"
              /\ \E name \in Configured \ ToSet(order) : ToSet(order') = ToSet(order) \union {name}
           \/ /\ task[StopHook].pc # "idle"
              /\ \E name \in ToSet(order) : ToSet(order') = ToSet(order) \ {name}
    BY <1>9, HookContinuesKeeps
  <2>2. SamePhase /\ ServicePhase' = ServicePhase
    BY <1>3, <2>1 DEF lvars
  <2>3. ToSet(order) \subseteq Configured
    BY PluginTypes, ToSetType DEF CoreInv
  <2>4. CASE order' = order
    BY <1>5, <2>2, <2>4
  <2>5. ASSUME task[StartHook].pc # "idle",
               NEW name \in Configured \ ToSet(order), ToSet(order') = ToSet(order) \union {name}
        PROVE  Service!BringUp(name)
    <3>1. run.phase = "start" /\ (state = "error" \/ state = L!Doing(run.phase))
      BY <1>2, <2>5, ActiveHandler, RunTypes DEF Hook, HookOf, StartHook, StopHook
    <3>2. ServicePhase \in {"starting", "startFailed"}
      BY <1>2, <3>1, PhaseIs DEF L!Doing
    <3> QED
      BY <1>1, <2>2, <2>5, <3>2 DEF Service!BringUp
  <2>6. ASSUME task[StopHook].pc # "idle",
               NEW name \in ToSet(order), ToSet(order') = ToSet(order) \ {name}
        PROVE  Service!TakeDown(name)
    <3>1. run.phase = "stop" /\ (state = "error" \/ state = L!Doing(run.phase))
      BY <1>2, <2>6, ActiveHandler, RunTypes DEF Hook, HookOf, StartHook, StopHook
    <3>2. ServicePhase \in {"stopping", "stopFailed"}
      BY <1>2, <3>1, PhaseIs DEF L!Doing
    <3> QED
      BY <1>1, <2>2, <2>6, <3>2 DEF Service!TakeDown
  <2> QED
    BY <2>1, <2>3, <2>4, <2>5, <2>6 DEF Service!Next
<1>10. ASSUME NEW name \in Configured, PluginLoads(name) PROVE [Service!Next]_(Service!vars)
  <2>1. order' = order /\ SamePhase
    BY <1>10 DEF PluginLoads, P!Register, lvars, pvars
  <2> QED
    BY <1>5, <2>1
<1>11. CASE UNCHANGED vars
  <2>1. order' = order /\ SamePhase
    BY <1>11 DEF vars, lvars, pvars
  <2> QED
    BY <1>5, <2>1
<1> QED
  BY <1>6, <1>7, <1>8, <1>9, <1>10, <1>11 DEF Next

\* For any callers and any configured plugins the core implements ManagedService:
\* plugins come up only for a start and go down only for a stop, one at a time,
\* and a service that reached STOPPED has none up.
THEOREM CoreIsManagedService == Spec => ImplementsManagedService
<1>1. Init => Service!Init
  <2> SUFFICES ASSUME Init PROVE Service!Init
    OBVIOUS
  <2>1. CoreInv /\ state = "created" /\ order = <<>>
    BY CoreInit DEF Init, P!Init
  <2>2. Up = {}
    BY <2>1, UpIsOrder DEF ToSet
  <2>3. ServicePhase = "down"
    BY <2>1, PhaseIs DEF CoreInv
  <2> QED
    BY <2>2, <2>3 DEF Service!Init
<1>2. CoreInv /\ [Next]_vars => [Service!Next]_(Service!vars)
  BY StepMaps
<1> QED
  BY <1>1, <1>2, CoreInvariance, PTL DEF Spec, ImplementsManagedService, Service!Spec
=============================================================================
