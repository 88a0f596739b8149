----------------------------- MODULE PluginManager -----------------------------
(***************************************************************************)
(* PluginManager of packages/core/src/plugins/index.ts: a registry of      *)
(* plugins that are initialized and destroyed by asynchronous calls into   *)
(* the plugin.  The manager checks `initialized' before it awaits the      *)
(* plugin, and writes it afterwards to the instance it captured, whatever  *)
(* other tasks did meanwhile.                                              *)
(*                                                                         *)
(* An instance is what register() puts into the map: the number of its     *)
(* registration.  The same name can be registered again after unregister() *)
(* and is then another instance.                                           *)
(***************************************************************************)
EXTENDS Integers, SequencesExt

CONSTANTS Names,   \* plugin names
          Tasks,   \* the callers of the asynchronous operations
          Ops,     \* the operations they use
          MaxInst, \* bound on registrations
          MaxOrder \* bound on the length of the initialization order

AllOps == {"register", "unregister", "initialize", "destroy", "initializeAll",
           "destroyAll", "enable", "disable"}

ASSUME PluginAssumption == Ops \subseteq AllOps /\ MaxInst \in Nat /\ MaxOrder \in Nat

VARIABLES plugins,  \* this.plugins: its instances, in the order of insertion
          inst,     \* the instances ever registered
          order,    \* this.initializationOrder
          task,     \* what each caller is doing
          live      \* history: initialize() calls of each plugin that succeeded
                    \* and that no destroy() call undid

vars == <<plugins, inst, order, task, live>>

Id == 1..MaxInst
ninst == Len(inst)
IsInitializing(op) == op \in {"initialize", "initializeAll", "enable"}

\* this.plugins.get(name), 0 if undefined
Get(name) ==
  IF \E id \in ToSet(plugins) : inst[id].name = name
  THEN CHOOSE id \in ToSet(plugins) : inst[id].name = name ELSE 0

NoTask == [op |-> "none", pc |-> "idle", todo |-> <<>>, id |-> 0, cfg |-> 0,
           failed |-> FALSE]

Init ==
  /\ plugins = <<>>
  /\ inst = <<>>
  /\ order = <<>>
  /\ task = [t \in Tasks |-> NoTask]
  /\ live = [id \in Id |-> 0]

\* Names are interchangeable, and so are tasks.
Symmetry == Permutations(Names) \union Permutations(Tasks)

-----------------------------------------------------------------------------
(* register() and unregister().                                            *)

Register(name, enabled) ==
  /\ ninst < MaxInst /\ Get(name) = 0
  /\ inst' = Append(inst, [name |-> name, enabled |-> enabled, initialized |-> FALSE])
  /\ plugins' = Append(plugins, ninst + 1)
  /\ UNCHANGED <<order, task, live>>

Unregister(name) ==
  /\ Get(name) # 0 /\ ~inst[Get(name)].initialized
  /\ plugins' = RemoveFirst(plugins, Get(name))
  /\ UNCHANGED <<inst, order, task, live>>

-----------------------------------------------------------------------------
(* initialize() and destroy() up to their first await.  The All operations *)
(* do this for every name of a snapshot, and go on after an error; the     *)
(* others are the same loop over one name.                                 *)

\* the loop goes on, or ends, after the current name
Skip(tk, failed) ==
  [tk EXCEPT !.pc = "loop", !.todo = Tail(@), !.failed = @ \/ failed]

\* Mutant of Visit: initialize() does not look at `initialized'.
VisitAgain(tk) ==
  LET id == Get(Head(tk.todo)) IN
  IF IsInitializing(tk.op)
  THEN IF id = 0 THEN Skip(tk, TRUE)
       ELSE IF ~inst[id].enabled THEN Skip(tk, FALSE)
       ELSE [tk EXCEPT !.pc = "init", !.todo = Tail(@), !.id = id]
  ELSE IF id = 0 \/ ~inst[id].initialized THEN Skip(tk, FALSE)
       ELSE [tk EXCEPT !.pc = "destroy", !.todo = Tail(@), !.id = id]

Visit(tk) ==
  LET id == Get(Head(tk.todo)) IN
  IF IsInitializing(tk.op)
  THEN IF id = 0 THEN Skip(tk, TRUE)
       ELSE IF inst[id].initialized \/ ~inst[id].enabled THEN Skip(tk, FALSE)
       ELSE [tk EXCEPT !.pc = "init", !.todo = Tail(@), !.id = id]
  ELSE IF id = 0 \/ ~inst[id].initialized THEN Skip(tk, FALSE)
       ELSE [tk EXCEPT !.pc = "destroy", !.todo = Tail(@), !.id = id]

\* the first step of the loop; over no name there is nothing to visit
Began(op, todo, cfg) ==
  LET tk == [op |-> op, pc |-> "loop", todo |-> todo, id |-> 0, cfg |-> cfg,
             failed |-> FALSE] IN
  IF todo = <<>> THEN tk ELSE Visit(tk)

Idle(t) == task[t].pc = "idle"

Initialize(t, name) ==
  /\ Idle(t)
  /\ task' = [task EXCEPT ![t] = Began("initialize", <<name>>, 0)]
  /\ UNCHANGED <<plugins, inst, order, live>>

Destroy(t, name) ==
  /\ Idle(t)
  /\ task' = [task EXCEPT ![t] = Began("destroy", <<name>>, 0)]
  /\ UNCHANGED <<plugins, inst, order, live>>

\* Array.from(this.plugins.entries())
InitializeAll(t) ==
  /\ Idle(t)
  /\ task' = [task EXCEPT ![t] =
       Began("initializeAll", [k \in 1..Len(plugins) |-> inst[plugins[k]].name], 0)]
  /\ UNCHANGED <<plugins, inst, order, live>>

\* Mutant of DestroyAll: the snapshot is not reversed.
DestroyAllForward(t) ==
  /\ Idle(t)
  /\ task' = [task EXCEPT ![t] = Began("destroyAll", order, 0)]
  /\ UNCHANGED <<plugins, inst, order, live>>

\* [...this.initializationOrder].reverse()
DestroyAll(t) ==
  /\ Idle(t)
  /\ task' = [task EXCEPT ![t] = Began("destroyAll", Reverse(order), 0)]
  /\ UNCHANGED <<plugins, inst, order, live>>

\* an unknown name, or a plugin that is enabled already, changes nothing
Enable(t, name) ==
  LET id == Get(name) IN
  /\ Idle(t)
  /\ id # 0 /\ ~inst[id].enabled
  /\ inst' = [inst EXCEPT ![id].enabled = TRUE]
  /\ task' = [task EXCEPT ![t] =
       IF inst[id].initialized THEN NoTask
       ELSE [op |-> "enable", pc |-> "init", todo |-> <<>>, id |-> id, cfg |-> 0,
             failed |-> FALSE]]
  /\ UNCHANGED <<plugins, order, live>>

\* Mutant of Disable: the flag is cleared before the plugin is destroyed.
DisableFirst(t, name) ==
  LET id == Get(name) IN
  /\ Idle(t)
  /\ id # 0 /\ inst[id].enabled
  /\ inst' = [inst EXCEPT ![id].enabled = FALSE]
  /\ task' = [task EXCEPT ![t] =
       IF inst[id].initialized THEN Began("disable", <<name>>, id) ELSE NoTask]
  /\ UNCHANGED <<plugins, order, live>>

Disable(t, name) ==
  LET id == Get(name) IN
  /\ Idle(t)
  /\ id # 0 /\ inst[id].enabled
  /\ \/ /\ inst[id].initialized
        /\ task' = [task EXCEPT ![t] = Began("disable", <<name>>, id)]
        /\ UNCHANGED inst
     \/ /\ ~inst[id].initialized
        /\ inst' = [inst EXCEPT ![id].enabled = FALSE]
        /\ UNCHANGED task
  /\ UNCHANGED <<plugins, order, live>>

-----------------------------------------------------------------------------
(* What follows the awaits.                                                *)

AfterAwait(t, failed) ==
  task' = [task EXCEPT ![t] =
             [@ EXCEPT !.pc = "loop", !.failed = task[t].failed \/ failed]]

\* Mutant of InitSettles: the instance is pushed instead of its name.
InitSettlesPushingInstance(t, ok) ==
  LET id == task[t].id IN
  /\ task[t].pc = "init"
  /\ ok => Len(order) < MaxOrder
  /\ AfterAwait(t, ~ok)
  /\ IF ok
     THEN /\ inst' = [inst EXCEPT ![id].initialized = TRUE]
          /\ order' = Append(order, id)
          /\ live' = [live EXCEPT ![id] = @ + 1]
     ELSE UNCHANGED <<inst, order, live>>
  /\ UNCHANGED plugins

\* plugin.initialize() resolves or rejects
InitSettles(t, ok) ==
  LET id == task[t].id IN
  /\ task[t].pc = "init"
  /\ ok => Len(order) < MaxOrder
  /\ AfterAwait(t, ~ok)
  /\ IF ok
     THEN /\ inst' = [inst EXCEPT ![id].initialized = TRUE]
          /\ order' = Append(order, inst[id].name)
          /\ live' = [live EXCEPT ![id] = @ + 1]
     ELSE UNCHANGED <<inst, order, live>>
  /\ UNCHANGED plugins

\* Mutant of DestroySettles: the name stays in the initialization order.
DestroySettlesKeepingOrder(t, ok) ==
  LET id == task[t].id IN
  /\ task[t].pc = "destroy"
  /\ AfterAwait(t, ~ok)
  /\ IF ok
     THEN /\ inst' = [inst EXCEPT ![id].initialized = FALSE]
          /\ live' = [live EXCEPT ![id] = IF @ > 0 THEN @ - 1 ELSE 0]
     ELSE UNCHANGED <<inst, live>>
  /\ UNCHANGED <<plugins, order>>

\* Mutant of DestroySettles: splice() is called with the -1 of indexOf(), and
\* removes the last name when the destroyed one is not there.
DestroySettlesSpliceLast(t, ok) ==
  LET id == task[t].id IN
  /\ task[t].pc = "destroy"
  /\ AfterAwait(t, ~ok)
  /\ IF ok
     THEN /\ inst' = [inst EXCEPT ![id].initialized = FALSE]
          /\ order' = IF inst[id].name \in ToSet(order)
                      THEN RemoveFirst(order, inst[id].name)
                      ELSE IF order = <<>> THEN order ELSE Front(order)
          /\ live' = [live EXCEPT ![id] = IF @ > 0 THEN @ - 1 ELSE 0]
     ELSE UNCHANGED <<inst, order, live>>
  /\ UNCHANGED plugins

\* plugin.destroy() resolves or rejects; a plugin without one has nothing to do
DestroySettles(t, ok) ==
  LET id == task[t].id IN
  /\ task[t].pc = "destroy"
  /\ AfterAwait(t, ~ok)
  /\ IF ok
     THEN /\ inst' = [inst EXCEPT ![id].initialized = FALSE]
          /\ order' = RemoveFirst(order, inst[id].name)
          /\ live' = [live EXCEPT ![id] = IF @ > 0 THEN @ - 1 ELSE 0]
     ELSE UNCHANGED <<inst, order, live>>
  /\ UNCHANGED plugins

\* the loop of an All operation takes the next name of its snapshot
Continue(t) ==
  /\ task[t].pc = "loop" /\ task[t].todo # <<>>
  /\ task' = [task EXCEPT ![t] = Visit(task[t])]
  /\ UNCHANGED <<plugins, inst, order, live>>

\* the operation returns, or throws if any plugin failed
Finish(t) ==
  /\ task[t].pc = "loop" /\ task[t].todo = <<>>
  /\ task' = [task EXCEPT ![t] = NoTask]
  /\ inst' = IF task[t].op = "disable" /\ ~task[t].failed
             THEN [inst EXCEPT ![task[t].cfg].enabled = FALSE] ELSE inst
  /\ UNCHANGED <<plugins, order, live>>

-----------------------------------------------------------------------------
Invoke(t) ==
  \/ \E name \in Names :
       \/ "initialize" \in Ops /\ Initialize(t, name)
       \/ "destroy" \in Ops /\ Destroy(t, name)
       \/ "enable" \in Ops /\ Enable(t, name)
       \/ "disable" \in Ops /\ Disable(t, name)
  \/ "initializeAll" \in Ops /\ InitializeAll(t)
  \/ "destroyAll" \in Ops /\ DestroyAll(t)

Step(t) ==
  \/ \E ok \in BOOLEAN : InitSettles(t, ok) \/ DestroySettles(t, ok)
  \/ Continue(t)
  \/ Finish(t)

Next ==
  \/ \E name \in Names, enabled \in BOOLEAN : "register" \in Ops /\ Register(name, enabled)
  \/ \E name \in Names : "unregister" \in Ops /\ Unregister(name)
  \/ \E t \in Tasks : Invoke(t) \/ Step(t)

Spec == Init /\ [][Next]_vars

-----------------------------------------------------------------------------
(* Properties.                                                             *)

\* Every variable has its type.
TypeOK ==
  /\ inst \in Seq([name : Names, enabled : BOOLEAN, initialized : BOOLEAN])
  /\ ninst <= MaxInst
  /\ plugins \in Seq(1..ninst)
  /\ order \in Seq(Names)
  /\ task \in [Tasks -> [op : AllOps \union {"none"},
                         pc : {"idle", "loop", "init", "destroy"},
                         todo : Seq(Names), id : 0..ninst, cfg : 0..ninst,
                         failed : BOOLEAN]]
  /\ live \in [Id -> Nat]

\* With one caller at a time the initialization order lists the name of each
\* initialized plugin exactly once for every instance that came up, also when
\* one came up after it was unregistered: destroyAll() works from it.  The types
\* are part of it.
OrderIsExact ==
  TypeOK /\ \A name \in Names :
    Cardinality({k \in 1..Len(order) : order[k] = name})
      = Cardinality({id \in 1..ninst : inst[id].name = name /\ inst[id].initialized})

\* With one caller at a time no plugin is initialized a second time without
\* having been destroyed, whatever fails on the way.
NoDoubleInit == \A id \in Id : live[id] <= 1

\* With one caller at a time a disabled plugin is down: disable() gives up, and
\* leaves the plugin enabled, when the plugin could not be destroyed.
DisabledIsDown == \A id \in ToSet(plugins) : ~inst[id].enabled => ~inst[id].initialized

\* With one caller at a time destroyAll() takes the plugin that came up last of
\* those that are still up, until one of them fails to go down.
TeardownReversed ==
  \A t \in Tasks :
    task[t].op = "destroyAll" /\ task[t].pc = "destroy" /\ ~task[t].failed
      => \A id \in ToSet(plugins) \ {task[t].id} : inst[id].initialized =>
           \E k \in 1..Len(order) : /\ order[k] = inst[task[t].id].name
                                    /\ inst[id].name \notin ToSet(SubSeq(order, k, Len(order)))

\* With any number of overlapping callers that do not unregister, a plugin that
\* counts as initialized is in the order, so that destroyAll() will find it.
InitializedIsOrdered ==
  \A id \in ToSet(plugins) : inst[id].initialized => inst[id].name \in ToSet(order)

\* What unregister() says when it refuses: "Cannot unregister initialized plugin
\* ... Destroy it first."  No instance outside the registry is initialized.
UnregisteredIsDown ==
  \A id \in 1..ninst : id \notin ToSet(plugins) => ~inst[id].initialized
=============================================================================
