------------------------- MODULE PluginManagerProofs -------------------------
(***************************************************************************)
(* Theorems about PluginManager.  What holds for any number of callers is  *)
(* proved first: types, that a name is registered once, and, as long as    *)
(* nobody unregisters, that what counts as initialized is in the order.    *)
(* The rest is about one caller at a time, which is what the code is       *)
(* written for: no other asynchronous operation comes between the checks   *)
(* of an operation and what it writes after its await.  register() and     *)
(* unregister() may still come at any time.                                *)
(***************************************************************************)
EXTENDS PluginManager, SequenceLemmas

InstRecord == [name : Names, enabled : BOOLEAN, initialized : BOOLEAN]

TaskRecord(n) ==
  [op : AllOps \union {"none"}, pc : {"idle", "loop", "init", "destroy"},
   todo : Seq(Names), id : 0..n, cfg : 0..n, failed : BOOLEAN]

\* A name is in the registry once.
UniqueNames == \A id, jd \in ToSet(plugins) : inst[id].name = inst[jd].name => id = jd

\* What an operation is doing fits what it is, and disable() is about one plugin.
Shaped(tk) ==
  /\ tk.pc = "init" => tk.id # 0 /\ IsInitializing(tk.op)
  /\ tk.pc = "destroy" => tk.id # 0 /\ ~IsInitializing(tk.op)
  /\ tk.op = "disable" => /\ tk.cfg # 0 /\ tk.todo = <<>>
                          /\ tk.pc = "destroy" => tk.id = tk.cfg
  /\ tk.op = "none" <=> tk.pc = "idle"

BaseInv == TypeOK /\ UniqueNames /\ \A t \in Tasks : Shaped(task[t])

-----------------------------------------------------------------------------
(* What the operators of the module return.                                *)

\* The types, with the records under their names.
LEMMA Types ==
  TypeOK <=> /\ inst \in Seq(InstRecord) /\ ninst <= MaxInst
             /\ plugins \in Seq(1..ninst) /\ order \in Seq(Names)
             /\ task \in [Tasks -> TaskRecord(ninst)] /\ live \in [Id -> Nat]
BY DEF TypeOK, InstRecord, TaskRecord

\* The registry lists instances.
LEMMA RegistryType == ASSUME TypeOK PROVE ninst \in Nat /\ ToSet(plugins) \subseteq 1..ninst
<1>1. inst \in Seq(InstRecord) /\ plugins \in Seq(1..ninst)
  BY Types
<1> QED
  BY <1>1, ToSetType DEF ninst

\* this.plugins.get(name) is the instance registered under that name, if any.
LEMMA GetFinds ==
  ASSUME TypeOK, NEW name
  PROVE  /\ Get(name) \in 0..ninst
         /\ Get(name) # 0 => Get(name) \in ToSet(plugins) /\ inst[Get(name)].name = name
         /\ Get(name) = 0 => \A id \in ToSet(plugins) : inst[id].name # name
<1>1. ToSet(plugins) \subseteq 1..ninst /\ ninst \in Nat
  BY RegistryType
<1>2. CASE \E id \in ToSet(plugins) : inst[id].name = name
  <2>1. Get(name) \in ToSet(plugins) /\ inst[Get(name)].name = name
    BY <1>2 DEF Get
  <2> QED
    BY <1>1, <2>1
<1>3. CASE ~\E id \in ToSet(plugins) : inst[id].name = name
  BY <1>1, <1>3 DEF Get
<1> QED
  BY <1>2, <1>3

\* Writing the flag `initialized' of an instance leaves the rest.
LEMMA WriteInitialized ==
  ASSUME TypeOK, NEW id \in 1..ninst, NEW b \in BOOLEAN,
         inst' = [inst EXCEPT ![id].initialized = b]
  PROVE  /\ inst' \in Seq(InstRecord) /\ ninst' = ninst
         /\ \A jd \in 1..ninst :
              /\ inst'[jd].name = inst[jd].name /\ inst'[jd].enabled = inst[jd].enabled
              /\ inst'[jd].initialized = IF jd = id THEN b ELSE inst[jd].initialized
<1> DEFINE r == [inst[id] EXCEPT !.initialized = b]
<1>1. inst \in Seq(InstRecord) /\ ninst = Len(inst)
  BY Types DEF ninst
<1>2. inst[id] \in InstRecord
  BY <1>1
<1>3. /\ r \in InstRecord /\ r.name = inst[id].name /\ r.enabled = inst[id].enabled
      /\ r.initialized = b
  BY <1>2 DEF InstRecord
<1>4. inst' = [inst EXCEPT ![id] = r]
  OBVIOUS
<1> HIDE DEF r
<1>5. /\ inst' \in Seq(InstRecord) /\ Len(inst') = Len(inst)
      /\ \A jd \in 1..ninst : inst'[jd] = IF jd = id THEN r ELSE inst[jd]
  BY <1>1, <1>3, <1>4
<1> QED
  BY <1>1, <1>3, <1>5 DEF ninst

\* Writing the flag `enabled' of an instance leaves the rest.
LEMMA WriteEnabled ==
  ASSUME TypeOK, NEW id \in 1..ninst, NEW b \in BOOLEAN,
         inst' = [inst EXCEPT ![id].enabled = b]
  PROVE  /\ inst' \in Seq(InstRecord) /\ ninst' = ninst
         /\ \A jd \in 1..ninst :
              /\ inst'[jd].name = inst[jd].name /\ inst'[jd].initialized = inst[jd].initialized
              /\ inst'[jd].enabled = IF jd = id THEN b ELSE inst[jd].enabled
<1> DEFINE r == [inst[id] EXCEPT !.enabled = b]
<1>1. inst \in Seq(InstRecord) /\ ninst = Len(inst)
  BY Types DEF ninst
<1>2. inst[id] \in InstRecord
  BY <1>1
<1>3. /\ r \in InstRecord /\ r.name = inst[id].name /\ r.initialized = inst[id].initialized
      /\ r.enabled = b
  BY <1>2 DEF InstRecord
<1>4. inst' = [inst EXCEPT ![id] = r]
  OBVIOUS
<1> HIDE DEF r
<1>5. /\ inst' \in Seq(InstRecord) /\ Len(inst') = Len(inst)
      /\ \A jd \in 1..ninst : inst'[jd] = IF jd = id THEN r ELSE inst[jd]
  BY <1>1, <1>3, <1>4
<1> QED
  BY <1>1, <1>3, <1>5 DEF ninst

\* What the first step of initialize() or destroy() makes of the loop over names.
Visited(tk, v) ==
  /\ v \in TaskRecord(ninst) /\ v.op = tk.op /\ v.cfg = tk.cfg /\ v.todo = Tail(tk.todo)
  /\ \/ /\ v.pc = "loop"
        /\ IsInitializing(tk.op) /\ ~v.failed =>
             /\ ~tk.failed
             /\ \E id \in ToSet(plugins) :
                  /\ inst[id].name = Head(tk.todo)
                  /\ inst[id].initialized \/ ~inst[id].enabled
        /\ ~IsInitializing(tk.op) =>
             /\ v.failed = tk.failed
             /\ \A id \in ToSet(plugins) :
                  inst[id].name = Head(tk.todo) => ~inst[id].initialized
     \/ /\ v.pc = "init" /\ v.id \in ToSet(plugins) /\ IsInitializing(tk.op)
        /\ ~inst[v.id].initialized /\ inst[v.id].enabled
        /\ inst[v.id].name = Head(tk.todo) /\ v.failed = tk.failed
     \/ /\ v.pc = "destroy" /\ v.id \in ToSet(plugins) /\ ~IsInitializing(tk.op)
        /\ inst[v.id].initialized /\ inst[v.id].name = Head(tk.todo)
        /\ v.failed = tk.failed

\* Visit is that step.
LEMMA VisitDoes ==
  ASSUME BaseInv, NEW tk \in TaskRecord(ninst), tk.todo # <<>>
  PROVE  Visited(tk, Visit(tk))
<1> DEFINE id == Get(Head(tk.todo))
<1>1. TypeOK /\ UniqueNames /\ ninst \in Nat /\ ToSet(plugins) \subseteq 1..ninst
  BY RegistryType DEF BaseInv
<1>2. /\ id \in 0..ninst
      /\ id # 0 => id \in ToSet(plugins) /\ inst[id].name = Head(tk.todo)
      /\ id = 0 => \A jd \in ToSet(plugins) : inst[jd].name # Head(tk.todo)
  BY <1>1, GetFinds
<1>3. Tail(tk.todo) \in Seq(Names)
  BY DEF TaskRecord
<1> HIDE DEF id
<1>4. ASSUME NEW f \in BOOLEAN
      PROVE  /\ Skip(tk, f) \in TaskRecord(ninst) /\ Skip(tk, f).op = tk.op
             /\ Skip(tk, f).cfg = tk.cfg /\ Skip(tk, f).todo = Tail(tk.todo)
             /\ Skip(tk, f).pc = "loop" /\ Skip(tk, f).failed = (tk.failed \/ f)
  BY <1>3 DEF Skip, TaskRecord
<1>5. ASSUME NEW p \in {"init", "destroy"}
      PROVE  LET v == [tk EXCEPT !.pc = p, !.todo = Tail(@), !.id = id] IN
             /\ v \in TaskRecord(ninst) /\ v.op = tk.op /\ v.cfg = tk.cfg
             /\ v.todo = Tail(tk.todo) /\ v.pc = p /\ v.id = id /\ v.failed = tk.failed
  BY <1>2, <1>3 DEF TaskRecord
<1>6. /\ \A v \in {Skip(tk, TRUE), Skip(tk, FALSE)} :
           /\ v \in TaskRecord(ninst) /\ v.op = tk.op /\ v.cfg = tk.cfg
           /\ v.todo = Tail(tk.todo) /\ v.pc = "loop"
      /\ Skip(tk, TRUE).failed /\ Skip(tk, FALSE).failed = tk.failed
  <2>1. PICK yes \in BOOLEAN, no \in BOOLEAN : yes = TRUE /\ no = FALSE
    OBVIOUS
  <2>2. tk.failed \in BOOLEAN
    BY DEF TaskRecord
  <2>3. /\ \A v \in {Skip(tk, yes), Skip(tk, no)} :
             /\ v \in TaskRecord(ninst) /\ v.op = tk.op /\ v.cfg = tk.cfg
             /\ v.todo = Tail(tk.todo) /\ v.pc = "loop"
        /\ Skip(tk, yes).failed = TRUE /\ Skip(tk, no).failed = tk.failed
    BY <1>4, <2>1, <2>2
  <2> QED
    BY <2>1, <2>3, Zenon
<1>7. CASE IsInitializing(tk.op)
  <2>1. CASE id = 0
    <3>1. Visit(tk) = Skip(tk, TRUE)
      BY <1>7, <2>1 DEF Visit, id
    <3> QED
      BY <1>7, <1>6, <3>1 DEF Visited
  <2>2. CASE id # 0 /\ (inst[id].initialized \/ ~inst[id].enabled)
    <3>1. Visit(tk) = Skip(tk, FALSE)
      BY <1>7, <2>2 DEF Visit, id
    <3> QED
      BY <1>2, <1>7, <1>6, <2>2, <3>1 DEF Visited
  <2>3. CASE id # 0 /\ ~(inst[id].initialized \/ ~inst[id].enabled)
    <3>1. Visit(tk) = [tk EXCEPT !.pc = "init", !.todo = Tail(@), !.id = id]
      BY <1>7, <2>3 DEF Visit, id
    <3> QED
      BY <1>2, <1>5, <1>7, <2>3, <3>1 DEF Visited
  <2> QED
    BY <2>1, <2>2, <2>3
<1>8. CASE ~IsInitializing(tk.op)
  <2>1. CASE id = 0 \/ ~inst[id].initialized
    <3>1. Visit(tk) = Skip(tk, FALSE)
      BY <1>8, <2>1 DEF Visit, id
    <3>2. \A jd \in ToSet(plugins) : inst[jd].name = Head(tk.todo) => ~inst[jd].initialized
      BY <1>1, <1>2, <2>1 DEF UniqueNames
    <3> QED
      BY <1>8, <1>6, <3>1, <3>2 DEF Visited
  <2>2. CASE ~(id = 0 \/ ~inst[id].initialized)
    <3>1. Visit(tk) = [tk EXCEPT !.pc = "destroy", !.todo = Tail(@), !.id = id]
      BY <1>8, <2>2 DEF Visit, id
    <3> QED
      BY <1>2, <1>5, <1>8, <2>2, <3>1 DEF Visited
  <2> QED
    BY <2>1, <2>2
<1> QED
  BY <1>7, <1>8

\* An operation that has visited a name is in shape.
LEMMA VisitedShaped ==
  ASSUME BaseInv, NEW tk, NEW v, Visited(tk, v), tk.op \notin {"none", "disable"}
  PROVE  Shaped(v)
<1>1. ToSet(plugins) \subseteq 1..ninst /\ ninst \in Nat
  BY RegistryType DEF BaseInv
<1> QED
  BY <1>1 DEF Visited, Shaped

\* What an asynchronous operation is doing after its first synchronous part.
LEMMA BeganDoes ==
  ASSUME BaseInv, NEW op \in AllOps, NEW todo \in Seq(Names), NEW cfg \in 0..ninst
  PROVE  LET b == Began(op, todo, cfg) IN
         /\ b \in TaskRecord(ninst) /\ b.op = op /\ b.cfg = cfg
         /\ todo = <<>> => b.pc = "loop" /\ b.todo = <<>>
         /\ todo # <<>> => \E tk \in TaskRecord(ninst) :
              /\ tk.op = op /\ tk.pc = "loop" /\ tk.cfg = cfg /\ tk.todo = todo /\ ~tk.failed
              /\ Visited(tk, b)
<1> DEFINE tk == [op |-> op, pc |-> "loop", todo |-> todo, id |-> 0, cfg |-> cfg,
                  failed |-> FALSE]
<1>1. ninst \in Nat
  BY RegistryType DEF BaseInv
<1>2. /\ tk \in TaskRecord(ninst) /\ tk.op = op /\ tk.cfg = cfg /\ tk.todo = todo
      /\ ~tk.failed /\ tk.pc = "loop"
  BY <1>1 DEF TaskRecord
<1>3. Began(op, todo, cfg) = IF todo = <<>> THEN tk ELSE Visit(tk)
  BY DEF Began
<1> HIDE DEF tk
<1>4. CASE todo = <<>>
  BY <1>2, <1>3, <1>4
<1>5. CASE todo # <<>>
  <2>1. Visited(tk, Visit(tk))
    BY <1>2, <1>5, VisitDoes
  <2>2. Began(op, todo, cfg) = Visit(tk)
    BY <1>3, <1>5
  <2>3. Visit(tk) \in TaskRecord(ninst) /\ Visit(tk).op = op /\ Visit(tk).cfg = cfg
    BY <1>2, <2>1 DEF Visited
  <2> QED
    BY <1>2, <1>5, <2>1, <2>2, <2>3
<1> QED
  BY <1>4, <1>5

\* An operation over names other than disable() begins in shape.
LEMMA BeganShaped ==
  ASSUME BaseInv, NEW op \in AllOps \ {"disable"}, NEW todo \in Seq(Names)
  PROVE  Began(op, todo, 0) \in TaskRecord(ninst) /\ Shaped(Began(op, todo, 0))
<1> DEFINE b == Began(op, todo, 0)
<1>1. ninst \in Nat
  BY RegistryType DEF BaseInv
<1>2. /\ b \in TaskRecord(ninst) /\ b.op = op
      /\ todo = <<>> => b.pc = "loop"
      /\ todo # <<>> => \E tk \in TaskRecord(ninst) : tk.op = op /\ Visited(tk, b)
  BY <1>1, BeganDoes
<1> HIDE DEF b
<1>3. op \notin {"none", "disable"}
  BY DEF AllOps
<1>4. ASSUME todo = <<>> PROVE Shaped(b)
  BY <1>2, <1>3, <1>4 DEF Shaped
<1>5. ASSUME todo # <<>> PROVE Shaped(b)
  <2>1. PICK tk \in TaskRecord(ninst) : tk.op = op /\ Visited(tk, b)
    BY <1>2, <1>5
  <2> QED
    BY <1>3, <2>1, VisitedShaped
<1> QED
  BY <1>2, <1>4, <1>5 DEF b

\* disable() of an initialized plugin begins with destroying it.
LEMMA DisableBegins ==
  ASSUME BaseInv, NEW name \in Names, Get(name) # 0, inst[Get(name)].initialized
  PROVE  LET b == Began("disable", <<name>>, Get(name)) IN
         /\ b \in TaskRecord(ninst) /\ Shaped(b)
         /\ b.op = "disable" /\ b.pc = "destroy" /\ b.id = Get(name)
<1> DEFINE b == Began("disable", <<name>>, Get(name))
<1>1. /\ ninst \in Nat /\ ToSet(plugins) \subseteq 1..ninst /\ UniqueNames
      /\ Get(name) \in ToSet(plugins) /\ inst[Get(name)].name = name
      /\ Get(name) \in 0..ninst
  BY RegistryType, GetFinds DEF BaseInv
<1>2. /\ "disable" \in AllOps /\ <<name>> \in Seq(Names) /\ <<name>> # <<>>
      /\ Head(<<name>>) = name /\ Tail(<<name>>) = <<>>
  BY DEF AllOps
<1>3. /\ b \in TaskRecord(ninst) /\ b.op = "disable" /\ b.cfg = Get(name)
      /\ \E tk \in TaskRecord(ninst) :
           tk.op = "disable" /\ tk.todo = <<name>> /\ Visited(tk, b)
  <2> DEFINE s == <<name>>
  <2> SUFFICES /\ b \in TaskRecord(ninst) /\ b.op = "disable" /\ b.cfg = Get(name)
               /\ \E tk \in TaskRecord(ninst) : tk.op = "disable" /\ tk.todo = s /\ Visited(tk, b)
    OBVIOUS
  <2>1. s \in Seq(Names) /\ s # <<>> /\ b = Began("disable", s, Get(name))
    BY <1>2
  <2> HIDE DEF s, b
  <2> QED
    BY <1>1, <1>2, <2>1, BeganDoes
<1> HIDE DEF b
<1>4. ~IsInitializing("disable")
  BY DEF IsInitializing
<1>5. b.pc = "destroy" /\ b.id \in ToSet(plugins) /\ inst[b.id].name = name /\ b.todo = <<>>
  BY <1>1, <1>2, <1>3, <1>4 DEF Visited
<1>6. b.id = Get(name)
  BY <1>1, <1>5 DEF UniqueNames
<1> QED
  BY <1>1, <1>3, <1>4, <1>5, <1>6 DEF Shaped, b

-----------------------------------------------------------------------------
(* Any callers: the types, the registry and the shape of the operations.   *)

\* A step that registers and unregisters nothing.
LEMMA BaseFrame ==
  ASSUME BaseInv, inst' \in Seq(InstRecord), ninst' = ninst,
         \A jd \in 1..ninst : inst'[jd].name = inst[jd].name,
         plugins' = plugins, order' \in Seq(Names), live' \in [Id -> Nat],
         task' \in [Tasks -> TaskRecord(ninst)], \A t \in Tasks : Shaped(task'[t])
  PROVE  BaseInv'
<1>1. TypeOK'
  <2>1. ninst <= MaxInst /\ plugins \in Seq(1..ninst)
    BY Types DEF BaseInv
  <2> QED
    BY <2>1 DEF TypeOK, InstRecord, TaskRecord
<1>2. UniqueNames'
  BY RegistryType DEF BaseInv, UniqueNames
<1>3. (\A t \in Tasks : Shaped(task[t]))'
  BY DEF Shaped
<1> QED
  BY <1>1, <1>2, <1>3 DEF BaseInv

\* A step of caller t that only changes what it is doing.
LEMMA TaskFrame ==
  ASSUME BaseInv, NEW t \in Tasks, NEW v \in TaskRecord(ninst), Shaped(v),
         task' = [task EXCEPT ![t] = v], UNCHANGED <<inst, plugins, order, live>>
  PROVE  BaseInv'
<1>1. /\ inst \in Seq(InstRecord) /\ order \in Seq(Names) /\ live \in [Id -> Nat]
      /\ task \in [Tasks -> TaskRecord(ninst)] /\ \A u \in Tasks : Shaped(task[u])
  BY Types DEF BaseInv
<1>2. ninst' = ninst
  BY DEF ninst
<1>3. task' \in [Tasks -> TaskRecord(ninst)] /\ \A u \in Tasks : Shaped(task'[u])
  BY <1>1
<1> QED
  BY <1>1, <1>2, <1>3, BaseFrame

\* register() puts a new instance under a name that is free.
LEMMA RegisterBase ==
  ASSUME BaseInv, NEW name \in Names, NEW enabled \in BOOLEAN, Register(name, enabled)
  PROVE  /\ BaseInv'
         /\ ninst' = ninst + 1 /\ ToSet(plugins') = ToSet(plugins) \union {ninst + 1}
         /\ \A id \in 1..ninst : inst'[id] = inst[id]
         /\ inst'[ninst + 1].name = name /\ ~inst'[ninst + 1].initialized
         /\ inst'[ninst + 1].enabled = enabled
         /\ \A id \in ToSet(plugins) : inst[id].name # name
<1> DEFINE r == [name |-> name, enabled |-> enabled, initialized |-> FALSE]
<1>1. /\ inst \in Seq(InstRecord) /\ plugins \in Seq(1..ninst) /\ order \in Seq(Names)
      /\ task \in [Tasks -> TaskRecord(ninst)] /\ live \in [Id -> Nat]
      /\ ToSet(plugins) \subseteq 1..ninst /\ ninst \in Nat /\ MaxInst \in Nat
  BY Types, RegistryType, PluginAssumption DEF BaseInv
<1>2. /\ ninst < MaxInst /\ inst' = Append(inst, r) /\ plugins' = Append(plugins, ninst + 1)
      /\ UNCHANGED <<order, task, live>>
      /\ \A id \in ToSet(plugins) : inst[id].name # name
  BY GetFinds DEF Register, BaseInv
<1>3. r \in InstRecord /\ r.name = name /\ ~r.initialized /\ r.enabled = enabled
  BY DEF InstRecord
<1> HIDE DEF r
<1>4. /\ inst' \in Seq(InstRecord) /\ ninst' = ninst + 1
      /\ \A id \in 1..ninst : inst'[id] = inst[id]
      /\ inst'[ninst + 1] = r
  BY <1>1, <1>2, <1>3, AppendProperties DEF ninst
<1>5. plugins \in Seq(1..ninst + 1) /\ ninst + 1 \in 1..ninst + 1
  BY <1>1
<1>6. plugins' \in Seq(1..ninst + 1) /\ ToSet(plugins') = ToSet(plugins) \union {ninst + 1}
  BY <1>2, <1>5, AppendToSet, AppendProperties
<1>7. task' \in [Tasks -> TaskRecord(ninst + 1)]
  BY <1>1, <1>2 DEF TaskRecord
<1>8. TypeOK'
  BY <1>1, <1>2, <1>4, <1>6, <1>7 DEF TypeOK, InstRecord, TaskRecord
<1>9. UniqueNames'
  <2> SUFFICES ASSUME NEW id \in ToSet(plugins'), NEW jd \in ToSet(plugins'),
                      inst'[id].name = inst'[jd].name
               PROVE  id = jd
    BY DEF UniqueNames
  <2>1. \A kd \in ToSet(plugins) : inst'[kd].name = inst[kd].name
    BY <1>1, <1>4
  <2>2. \A kd \in ToSet(plugins) : inst'[kd].name # inst'[ninst + 1].name
    BY <1>2, <1>3, <1>4, <2>1
  <2> QED
    BY <1>6, <2>1, <2>2 DEF BaseInv, UniqueNames
<1>10. (\A t \in Tasks : Shaped(task[t]))'
  BY <1>2 DEF BaseInv, Shaped
<1> QED
  BY <1>2, <1>3, <1>4, <1>6, <1>8, <1>9, <1>10 DEF BaseInv

\* unregister() takes an instance that is down out of the registry.
LEMMA UnregisterBase ==
  ASSUME BaseInv, NEW name \in Names, Unregister(name)
  PROVE  /\ BaseInv'
         /\ UNCHANGED <<inst, order, task, live>>
         /\ ToSet(plugins') \subseteq ToSet(plugins)
         /\ \A id \in ToSet(plugins) : inst[id].initialized => id \in ToSet(plugins')
<1>1. /\ plugins \in Seq(1..ninst) /\ TypeOK /\ UniqueNames
      /\ plugins' = RemoveFirst(plugins, Get(name)) /\ ~inst[Get(name)].initialized
      /\ UNCHANGED <<inst, order, task, live>>
  BY Types DEF BaseInv, Unregister
<1>2. /\ plugins' \in Seq(1..ninst) /\ ToSet(plugins') \subseteq ToSet(plugins)
      /\ ToSet(plugins) \ {Get(name)} \subseteq ToSet(plugins')
  BY <1>1, RemoveFirstKeeps
<1>3. TypeOK' /\ UniqueNames'
  BY <1>1, <1>2 DEF TypeOK, UniqueNames, ninst
<1>4. (\A t \in Tasks : Shaped(task[t]))'
  BY <1>1 DEF BaseInv, Shaped
<1> QED
  BY <1>1, <1>2, <1>3, <1>4 DEF BaseInv

\* The snapshot of initializeAll() is a sequence of names.
LEMMA RegisteredNames ==
  ASSUME BaseInv
  PROVE  [k \in 1..Len(plugins) |-> inst[plugins[k]].name] \in Seq(Names)
<1>1. /\ inst \in Seq(InstRecord) /\ plugins \in Seq(1..ninst) /\ ninst = Len(inst)
  BY Types DEF BaseInv, ninst
<1>2. \A k \in 1..Len(plugins) : plugins[k] \in 1..Len(inst)
  BY <1>1, ToSetType
<1>3. \A id \in 1..Len(inst) : inst[id] \in InstRecord
  BY <1>1
<1>4. \A k \in 1..Len(plugins) : inst[plugins[k]].name \in Names
  BY <1>2, <1>3 DEF InstRecord
<1>5. Len(plugins) \in Nat
  BY <1>1
<1> QED
  BY <1>4, <1>5

\* initialize(), destroy(), initializeAll(), destroyAll() up to the first await.
LEMMA BeginBase ==
  ASSUME BaseInv, NEW t \in Tasks,
         \/ \E name \in Names : Initialize(t, name) \/ Destroy(t, name)
         \/ InitializeAll(t) \/ DestroyAll(t)
  PROVE  BaseInv' /\ UNCHANGED <<plugins, inst, order, live>>
<1>1. ASSUME NEW op \in AllOps \ {"disable"}, NEW todo \in Seq(Names),
             task' = [task EXCEPT ![t] = Began(op, todo, 0)],
             UNCHANGED <<plugins, inst, order, live>>
      PROVE  BaseInv' /\ UNCHANGED <<plugins, inst, order, live>>
  BY <1>1, BeganShaped, TaskFrame
<1>2. /\ "initialize" \in AllOps \ {"disable"} /\ "destroy" \in AllOps \ {"disable"}
      /\ "initializeAll" \in AllOps \ {"disable"} /\ "destroyAll" \in AllOps \ {"disable"}
  BY DEF AllOps
<1>3. \A name \in Names : <<name>> \in Seq(Names)
  OBVIOUS
<1>4. [k \in 1..Len(plugins) |-> inst[plugins[k]].name] \in Seq(Names)
  BY RegisteredNames
<1>5. Reverse(order) \in Seq(Names)
  <2>1. order \in Seq(Names)
    BY Types DEF BaseInv
  <2> QED
    BY <2>1 DEF Reverse
<1>6. CASE \E name \in Names : Initialize(t, name)
  BY <1>1, <1>2, <1>3, <1>6 DEF Initialize
<1>7. CASE \E name \in Names : Destroy(t, name)
  BY <1>1, <1>2, <1>3, <1>7 DEF Destroy
<1>8. CASE InitializeAll(t)
  BY <1>1, <1>2, <1>4, <1>8 DEF InitializeAll
<1>9. CASE DestroyAll(t)
  BY <1>1, <1>2, <1>5, <1>9 DEF DestroyAll
<1> QED
  BY <1>6, <1>7, <1>8, <1>9

\* enable() sets the flag, and goes on with initialize() if the plugin is down.
LEMMA EnableBase ==
  ASSUME BaseInv, NEW t \in Tasks, NEW name \in Names, Enable(t, name)
  PROVE  /\ BaseInv'
         /\ UNCHANGED <<plugins, order, live>> /\ ninst' = ninst
         /\ \A id \in 1..ninst :
              /\ inst'[id].name = inst[id].name /\ inst'[id].initialized = inst[id].initialized
              /\ inst'[id].enabled = inst[id].enabled \/ inst'[id].enabled
         /\ \E v \in TaskRecord(ninst) :
              /\ task' = [task EXCEPT ![t] = v] /\ v.op # "disable" /\ v.op # "destroyAll"
              /\ v.pc # "destroy"
              /\ v.pc = "init" => ~inst[v.id].initialized /\ inst'[v.id].enabled
<1> DEFINE id == Get(name)
           w == [op |-> "enable", pc |-> "init", todo |-> <<>>, id |-> id, cfg |-> 0,
                 failed |-> FALSE]
           v == IF inst[id].initialized THEN NoTask ELSE w
<1>1. /\ id # 0 /\ inst' = [inst EXCEPT ![id].enabled = TRUE]
      /\ task' = [task EXCEPT ![t] = v] /\ UNCHANGED <<plugins, order, live>>
  BY DEF Enable
<1>2. /\ TypeOK /\ id \in 0..ninst /\ ninst \in Nat /\ order \in Seq(Names)
      /\ task \in [Tasks -> TaskRecord(ninst)] /\ live \in [Id -> Nat]
      /\ \A u \in Tasks : Shaped(task[u])
  BY GetFinds, RegistryType, Types DEF BaseInv
<1> HIDE DEF id
<1>3. /\ NoTask \in TaskRecord(ninst) /\ Shaped(NoTask) /\ NoTask.op = "none"
      /\ NoTask.pc = "idle"
  BY <1>2 DEF NoTask, TaskRecord, Shaped
<1>4. w \in TaskRecord(ninst) /\ Shaped(w) /\ w.op = "enable" /\ w.pc = "init" /\ w.id = id
  BY <1>1, <1>2 DEF TaskRecord, Shaped, AllOps, IsInitializing
<1>5. /\ v \in TaskRecord(ninst) /\ Shaped(v) /\ v.op # "disable" /\ v.op # "destroyAll"
      /\ v.pc # "destroy"
      /\ v.pc = "init" => ~inst[v.id].initialized /\ v.id = id
  BY <1>3, <1>4
<1> HIDE DEF v
<1>6. /\ inst' \in Seq(InstRecord) /\ ninst' = ninst
      /\ \A jd \in 1..ninst :
           /\ inst'[jd].name = inst[jd].name /\ inst'[jd].initialized = inst[jd].initialized
           /\ IF jd = id THEN inst'[jd].enabled ELSE inst'[jd].enabled = inst[jd].enabled
  <2>1. PICK b \in BOOLEAN : b = TRUE
    OBVIOUS
  <2>2. id \in 1..ninst /\ inst' = [inst EXCEPT ![id].enabled = b]
    BY <1>1, <1>2, <2>1
  <2>3. /\ inst' \in Seq(InstRecord) /\ ninst' = ninst
        /\ \A jd \in 1..ninst :
             /\ inst'[jd].name = inst[jd].name
             /\ inst'[jd].enabled = IF jd = id THEN b ELSE inst[jd].enabled
             /\ inst'[jd].initialized = inst[jd].initialized
    <3>1. TypeOK
      BY <1>2
    <3> QED
      BY <2>2, <3>1, WriteEnabled
  <2> QED
    BY <2>1, <2>3
<1>7. task' \in [Tasks -> TaskRecord(ninst)] /\ \A u \in Tasks : Shaped(task'[u])
  BY <1>1, <1>2, <1>5
<1>8. BaseInv'
  BY <1>1, <1>2, <1>6, <1>7, BaseFrame
<1>9. v.pc = "init" => ~inst[v.id].initialized /\ inst'[v.id].enabled
  BY <1>1, <1>2, <1>5, <1>6
<1>10. \A jd \in 1..ninst : inst'[jd].enabled = inst[jd].enabled \/ inst'[jd].enabled
  BY <1>6
<1>11. \E x \in TaskRecord(ninst) :
         /\ task' = [task EXCEPT ![t] = x] /\ x.op # "disable" /\ x.op # "destroyAll"
         /\ x.pc # "destroy"
         /\ x.pc = "init" => ~inst[x.id].initialized /\ inst'[x.id].enabled
  BY <1>1, <1>5, <1>9
<1> QED
  BY <1>1, <1>6, <1>8, <1>10, <1>11

\* disable() begins with destroy(), or clears the flag at once.
LEMMA DisableBase ==
  ASSUME BaseInv, NEW t \in Tasks, NEW name \in Names, Disable(t, name)
  PROVE  /\ BaseInv'
         /\ UNCHANGED <<plugins, order, live>> /\ ninst' = ninst
         /\ \A id \in 1..ninst :
              /\ inst'[id].name = inst[id].name /\ inst'[id].initialized = inst[id].initialized
              /\ inst'[id].enabled = inst[id].enabled \/ ~inst[id].initialized
         /\ \/ UNCHANGED task
            \/ \E v \in TaskRecord(ninst) :
                 /\ task' = [task EXCEPT ![t] = v] /\ v.op = "disable" /\ v.pc = "destroy"
                 /\ v.id \in ToSet(plugins) /\ inst[v.id].initialized
<1> DEFINE id == Get(name)
<1>1. /\ TypeOK /\ id \in 0..ninst /\ ninst \in Nat /\ order \in Seq(Names)
      /\ task \in [Tasks -> TaskRecord(ninst)] /\ live \in [Id -> Nat]
      /\ \A u \in Tasks : Shaped(task[u])
      /\ id # 0 => id \in ToSet(plugins)
  BY GetFinds, RegistryType, Types DEF BaseInv
<1>2. id # 0 /\ UNCHANGED <<plugins, order, live>>
  BY DEF Disable
<1>3. CASE inst[id].initialized
  <2> DEFINE v == Began("disable", <<name>>, id)
  <2>1. task' = [task EXCEPT ![t] = v] /\ UNCHANGED inst
    BY <1>3 DEF Disable
  <2>2. v \in TaskRecord(ninst) /\ Shaped(v) /\ v.op = "disable" /\ v.pc = "destroy" /\ v.id = id
    BY <1>2, <1>3, DisableBegins
  <2> HIDE DEF id, v
  <2>3. BaseInv' /\ ninst' = ninst
    BY <1>2, <2>1, <2>2, TaskFrame DEF ninst
  <2> QED
    BY <1>1, <1>2, <1>3, <2>1, <2>2, <2>3
<1>4. CASE ~inst[id].initialized
  <2>1. inst' = [inst EXCEPT ![id].enabled = FALSE] /\ UNCHANGED task
    BY <1>4 DEF Disable
  <2> HIDE DEF id
  <2>2. PICK b \in BOOLEAN : b = FALSE
    OBVIOUS
  <2>3. inst' = [inst EXCEPT ![id].enabled = b]
    BY <2>1, <2>2, Zenon
  <2>4. id \in 1..ninst
    BY <1>1, <1>2
  <2>5. /\ inst' \in Seq(InstRecord) /\ ninst' = ninst
        /\ \A jd \in 1..ninst :
             /\ inst'[jd].name = inst[jd].name
             /\ inst'[jd].enabled = IF jd = id THEN b ELSE inst[jd].enabled
             /\ inst'[jd].initialized = inst[jd].initialized
    <3>1. TypeOK
      BY <1>1
    <3> QED
      BY <2>3, <2>4, <3>1, WriteEnabled
  <2>6. BaseInv'
    BY <1>1, <1>2, <2>1, <2>5, BaseFrame
  <2> QED
    BY <1>2, <1>4, <2>1, <2>5, <2>6
<1> QED
  BY <1>3, <1>4

\* After its await an operation is back in its loop.
LEMMA Awaited ==
  ASSUME BaseInv, NEW t \in Tasks, task[t].pc \in {"init", "destroy"}, NEW f \in BOOLEAN,
         AfterAwait(t, f)
  PROVE  /\ task' \in [Tasks -> TaskRecord(ninst)] /\ \A u \in Tasks : Shaped(task'[u])
         /\ \A u \in Tasks \ {t} : task'[u] = task[u]
         /\ task'[t].op = task[t].op /\ task'[t].pc = "loop" /\ task'[t].todo = task[t].todo
         /\ task'[t].id = task[t].id /\ task'[t].cfg = task[t].cfg
         /\ task'[t].failed = (task[t].failed \/ f)
         /\ task[t].id \in 1..ninst /\ task[t].op \in AllOps
<1> DEFINE v == [task[t] EXCEPT !.pc = "loop", !.failed = @ \/ f]
<1>1. /\ task \in [Tasks -> TaskRecord(ninst)] /\ \A u \in Tasks : Shaped(task[u])
      /\ ninst \in Nat
  BY Types, RegistryType DEF BaseInv
<1>2. task[t] \in TaskRecord(ninst) /\ Shaped(task[t])
  BY <1>1
<1>3. /\ v \in TaskRecord(ninst) /\ v.op = task[t].op /\ v.pc = "loop" /\ v.todo = task[t].todo
      /\ v.id = task[t].id /\ v.cfg = task[t].cfg /\ v.failed = (task[t].failed \/ f)
  BY <1>2 DEF TaskRecord
<1>4. task' = [task EXCEPT ![t] = v]
  BY DEF AfterAwait
<1> HIDE DEF v
<1>5. task[t].id \in 1..ninst /\ task[t].op \in AllOps
  BY <1>1, <1>2 DEF TaskRecord, Shaped
<1>6. Shaped(v)
  BY <1>2, <1>3, <1>5 DEF Shaped, AllOps
<1> QED
  BY <1>1, <1>3, <1>4, <1>5, <1>6

\* What follows the await of plugin.initialize() or plugin.destroy().
LEMMA SettleBase ==
  ASSUME BaseInv, NEW t \in Tasks, NEW ok \in BOOLEAN,
         InitSettles(t, ok) \/ DestroySettles(t, ok)
  PROVE  /\ BaseInv'
         /\ UNCHANGED plugins /\ ninst' = ninst
         /\ \A id \in 1..ninst :
              /\ inst'[id].name = inst[id].name /\ inst'[id].enabled = inst[id].enabled
              /\ inst'[id].initialized = IF id = task[t].id /\ ok THEN task[t].pc = "init"
                                                                   ELSE inst[id].initialized
<1> DEFINE id == task[t].id
<1>1. /\ task' \in [Tasks -> TaskRecord(ninst)] /\ \A u \in Tasks : Shaped(task'[u])
      /\ id \in 1..ninst
  <2>1. task[t].pc \in {"init", "destroy"} /\ AfterAwait(t, ~ok)
    BY DEF InitSettles, DestroySettles
  <2>2. PICK f \in BOOLEAN : f = ~ok
    OBVIOUS
  <2>3. AfterAwait(t, f)
    BY <2>1, <2>2, Zenon
  <2> QED
    BY <2>1, <2>3, Awaited
<1>2. /\ inst \in Seq(InstRecord) /\ order \in Seq(Names) /\ live \in [Id -> Nat]
      /\ ninst = Len(inst) /\ ninst <= MaxInst /\ MaxInst \in Nat /\ TypeOK
  BY Types, PluginAssumption DEF BaseInv, ninst
<1>3. inst[id] \in InstRecord /\ inst[id].name \in Names /\ id \in Id
  <2>1. inst[id] \in InstRecord
    BY <1>1, <1>2
  <2> QED
    BY <1>1, <1>2, <2>1 DEF InstRecord, Id
<1>4. UNCHANGED plugins
  BY DEF InitSettles, DestroySettles
<1>5. CASE ~ok
  <2>1. UNCHANGED <<inst, order, live>>
    BY <1>5 DEF InitSettles, DestroySettles
  <2> QED
    BY <1>1, <1>2, <1>4, <1>5, <2>1, BaseFrame DEF ninst
<1>6. CASE ok
  <2>1. CASE InitSettles(t, ok)
    <3>1. /\ task[t].pc = "init" /\ inst' = [inst EXCEPT ![id].initialized = TRUE]
          /\ order' = Append(order, inst[id].name) /\ live' = [live EXCEPT ![id] = @ + 1]
      BY <1>6, <2>1 DEF InitSettles
    <3>2. PICK b \in BOOLEAN : b = TRUE
      OBVIOUS
    <3>3. inst' = [inst EXCEPT ![id].initialized = b]
      BY <3>1, <3>2, Zenon
    <3> HIDE DEF id
    <3>4. order' \in Seq(Names) /\ live' \in [Id -> Nat]
      BY <1>2, <1>3, <3>1, AppendProperties
    <3>5. /\ inst' \in Seq(InstRecord) /\ ninst' = ninst
          /\ \A jd \in 1..ninst :
               /\ inst'[jd].name = inst[jd].name /\ inst'[jd].enabled = inst[jd].enabled
               /\ inst'[jd].initialized = IF jd = id THEN b ELSE inst[jd].initialized
      <4>1. TypeOK /\ id \in 1..ninst
        BY <1>1, <1>2
      <4> QED
        BY <3>3, <4>1, WriteInitialized
    <3>6. BaseInv'
      BY <1>1, <1>4, <3>4, <3>5, BaseFrame
    <3> QED
      BY <1>4, <1>6, <3>1, <3>2, <3>5, <3>6 DEF id
  <2>2. CASE DestroySettles(t, ok)
    <3>1. /\ task[t].pc = "destroy" /\ inst' = [inst EXCEPT ![id].initialized = FALSE]
          /\ order' = RemoveFirst(order, inst[id].name)
          /\ live' = [live EXCEPT ![id] = IF @ > 0 THEN @ - 1 ELSE 0]
      BY <1>6, <2>2 DEF DestroySettles
    <3>2. PICK b \in BOOLEAN : b = FALSE
      OBVIOUS
    <3>3. inst' = [inst EXCEPT ![id].initialized = b]
      BY <3>1, <3>2, Zenon
    <3> HIDE DEF id
    <3>4. order' \in Seq(Names) /\ live' \in [Id -> Nat]
      BY <1>2, <1>3, <3>1, RemoveFirstKeeps
    <3>5. /\ inst' \in Seq(InstRecord) /\ ninst' = ninst
          /\ \A jd \in 1..ninst :
               /\ inst'[jd].name = inst[jd].name /\ inst'[jd].enabled = inst[jd].enabled
               /\ inst'[jd].initialized = IF jd = id THEN b ELSE inst[jd].initialized
      <4>1. TypeOK /\ id \in 1..ninst
        BY <1>1, <1>2
      <4> QED
        BY <3>3, <4>1, WriteInitialized
    <3>6. BaseInv'
      BY <1>1, <1>4, <3>4, <3>5, BaseFrame
    <3> QED
      BY <1>4, <1>6, <3>1, <3>2, <3>5, <3>6 DEF id
  <2> QED
    BY <2>1, <2>2
<1> QED
  BY <1>5, <1>6

\* The loop takes its next name.
LEMMA ContinueBase ==
  ASSUME BaseInv, NEW t \in Tasks, Continue(t)
  PROVE  BaseInv' /\ Visited(task[t], Visit(task[t])) /\ task' = [task EXCEPT ![t] = Visit(task[t])]
<1>1. task[t] \in TaskRecord(ninst) /\ Shaped(task[t])
  BY Types DEF BaseInv
<1>2. /\ task[t].pc = "loop" /\ task[t].todo # <<>>
      /\ task' = [task EXCEPT ![t] = Visit(task[t])] /\ UNCHANGED <<plugins, inst, order, live>>
  BY DEF Continue
<1>3. task[t].op \notin {"none", "disable"}
  BY <1>1, <1>2 DEF Shaped
<1>4. Visited(task[t], Visit(task[t]))
  BY <1>1, <1>2, VisitDoes
<1>5. Visit(task[t]) \in TaskRecord(ninst) /\ Shaped(Visit(task[t]))
  BY <1>3, <1>4, VisitedShaped DEF Visited
<1> QED
  BY <1>2, <1>4, <1>5, TaskFrame

\* The operation ends; disable() clears the flag if the plugin went down.
LEMMA FinishBase ==
  ASSUME BaseInv, NEW t \in Tasks, Finish(t)
  PROVE  /\ BaseInv'
         /\ ninst' = ninst /\ UNCHANGED <<plugins, order, live>>
         /\ task' = [task EXCEPT ![t] = NoTask]
         /\ \A id \in 1..ninst :
              /\ inst'[id].name = inst[id].name /\ inst'[id].initialized = inst[id].initialized
              /\ \/ inst'[id].enabled = inst[id].enabled
                 \/ id = task[t].cfg /\ task[t].op = "disable" /\ ~task[t].failed
<1> DEFINE id == task[t].cfg
<1>1. /\ TypeOK /\ inst \in Seq(InstRecord) /\ order \in Seq(Names) /\ live \in [Id -> Nat]
      /\ task \in [Tasks -> TaskRecord(ninst)] /\ \A u \in Tasks : Shaped(task[u])
      /\ ninst \in Nat
  BY Types, RegistryType DEF BaseInv
<1>2. task' = [task EXCEPT ![t] = NoTask] /\ UNCHANGED <<plugins, order, live>>
  BY DEF Finish
<1>3. NoTask \in TaskRecord(ninst) /\ Shaped(NoTask)
  BY <1>1 DEF NoTask, TaskRecord, Shaped
<1>4. task' \in [Tasks -> TaskRecord(ninst)] /\ \A u \in Tasks : Shaped(task'[u])
  BY <1>1, <1>2, <1>3
<1>5. CASE task[t].op = "disable" /\ ~task[t].failed
  <2>1. inst' = [inst EXCEPT ![id].enabled = FALSE]
    BY <1>5 DEF Finish
  <2>2. id \in 1..ninst
    <3>1. task[t] \in TaskRecord(ninst) /\ Shaped(task[t])
      BY <1>1
    <3> QED
      BY <1>1, <1>5, <3>1 DEF TaskRecord, Shaped
  <2>3. PICK b \in BOOLEAN : b = FALSE
    OBVIOUS
  <2>4. inst' = [inst EXCEPT ![id].enabled = b]
    BY <2>1, <2>3, Zenon
  <2> HIDE DEF id
  <2>5. /\ inst' \in Seq(InstRecord) /\ ninst' = ninst
        /\ \A jd \in 1..ninst :
             /\ inst'[jd].name = inst[jd].name
             /\ inst'[jd].enabled = IF jd = id THEN b ELSE inst[jd].enabled
             /\ inst'[jd].initialized = inst[jd].initialized
    <3>1. TypeOK
      BY <1>1
    <3> QED
      BY <2>2, <2>4, <3>1, WriteEnabled
  <2>6. BaseInv'
    BY <1>1, <1>2, <1>4, <2>5, BaseFrame
  <2> QED
    BY <1>2, <1>5, <2>5, <2>6 DEF id
<1>6. CASE ~(task[t].op = "disable" /\ ~task[t].failed)
  <2>1. UNCHANGED inst
    BY <1>6 DEF Finish
  <2>2. ninst' = ninst
    BY <2>1 DEF ninst
  <2> QED
    BY <1>1, <1>2, <1>4, <2>1, <2>2, BaseFrame
<1> QED
  BY <1>5, <1>6

\* An empty registry, and nobody does anything.
LEMMA BaseInit == Init => BaseInv
<1> SUFFICES ASSUME Init PROVE BaseInv
  OBVIOUS
<1>1. /\ inst = <<>> /\ plugins = <<>> /\ order = <<>>
      /\ task = [t \in Tasks |-> NoTask] /\ live = [id \in Id |-> 0]
  BY DEF Init
<1>2. ninst = 0 /\ ToSet(plugins) = {}
  BY <1>1 DEF ninst, ToSet
<1>3. NoTask \in TaskRecord(ninst) /\ Shaped(NoTask)
  BY <1>2 DEF NoTask, TaskRecord, Shaped
<1>4. /\ inst \in Seq(InstRecord) /\ ninst <= MaxInst /\ plugins \in Seq(1..ninst)
      /\ order \in Seq(Names) /\ task \in [Tasks -> TaskRecord(ninst)] /\ live \in [Id -> Nat]
  BY <1>1, <1>2, <1>3, PluginAssumption
<1> QED
  BY <1>1, <1>2, <1>3, <1>4, Types DEF BaseInv, UniqueNames

\* Every step keeps the types, the registry and the shape of the operations.
LEMMA BaseNext == BaseInv /\ [Next]_vars => BaseInv'
<1> SUFFICES ASSUME BaseInv, [Next]_vars PROVE BaseInv'
  OBVIOUS
<1>1. CASE UNCHANGED vars
  BY <1>1 DEF vars, BaseInv, TypeOK, UniqueNames, Shaped, ninst
<1>2. ASSUME NEW name \in Names, NEW enabled \in BOOLEAN, Register(name, enabled) PROVE BaseInv'
  BY <1>2, RegisterBase
<1>3. ASSUME NEW name \in Names, Unregister(name) PROVE BaseInv'
  BY <1>3, UnregisterBase
<1>4. ASSUME NEW t \in Tasks, Invoke(t) PROVE BaseInv'
  BY <1>4, BeginBase, EnableBase, DisableBase DEF Invoke
<1>5. ASSUME NEW t \in Tasks, Step(t) PROVE BaseInv'
  BY <1>5, SettleBase, ContinueBase, FinishBase DEF Step
<1> QED
  BY <1>1, <1>2, <1>3, <1>4, <1>5 DEF Next

\* They hold throughout.
LEMMA BaseInvariance == Spec => []BaseInv
BY BaseInit, BaseNext, PTL DEF Spec

\* For any number of overlapping callers the registry, the initialization order
\* and what every operation is doing keep their types.
THEOREM TypeCorrect == Spec => []TypeOK
<1>1. BaseInv => TypeOK
  BY DEF BaseInv
<1> QED
  BY <1>1, BaseInvariance, PTL

-----------------------------------------------------------------------------
(* Any callers that do not unregister: what is initialized is in the order. *)

OrderedInv == BaseInv /\ ToSet(plugins) = 1..ninst /\ InitializedIsOrdered

\* Nothing is registered, and the flags `initialized' and the order stay.
LEMMA OrderedFrame ==
  ASSUME OrderedInv, BaseInv', UNCHANGED <<plugins, order>>, ninst' = ninst,
         \A id \in 1..ninst : /\ inst'[id].name = inst[id].name
                              /\ inst'[id].initialized = inst[id].initialized
  PROVE  OrderedInv'
BY DEF OrderedInv, InitializedIsOrdered

\* What is registered is not initialized yet.
LEMMA OrderedRegister ==
  ASSUME OrderedInv, NEW name \in Names, NEW enabled \in BOOLEAN, Register(name, enabled)
  PROVE  OrderedInv'
<1>1. /\ BaseInv' /\ ninst' = ninst + 1 /\ ToSet(plugins') = ToSet(plugins) \union {ninst + 1}
      /\ \A id \in 1..ninst : inst'[id] = inst[id]
      /\ ~inst'[ninst + 1].initialized
  BY RegisterBase DEF OrderedInv
<1>2. ninst \in Nat /\ UNCHANGED order
  BY RegistryType DEF Register, OrderedInv, BaseInv
<1> QED
  BY <1>1, <1>2 DEF OrderedInv, InitializedIsOrdered

\* Coming up enters the name, and going down takes it out, of the one plugin that
\* has it.
LEMMA OrderedSettle ==
  ASSUME OrderedInv, NEW t \in Tasks, NEW ok \in BOOLEAN,
         InitSettles(t, ok) \/ DestroySettles(t, ok)
  PROVE  OrderedInv'
<1> DEFINE id == task[t].id
<1>1. /\ BaseInv' /\ UNCHANGED plugins /\ ninst' = ninst
      /\ \A jd \in 1..ninst :
           /\ inst'[jd].name = inst[jd].name
           /\ inst'[jd].initialized = IF jd = id /\ ok THEN task[t].pc = "init"
                                                       ELSE inst[jd].initialized
  BY SettleBase DEF OrderedInv
<1>2. /\ order \in Seq(Names) /\ id \in 1..ninst /\ inst[id].name \in Names
      /\ ToSet(plugins) = 1..ninst /\ UniqueNames
  <2>1. /\ order \in Seq(Names) /\ inst \in Seq(InstRecord) /\ Shaped(task[t])
        /\ task[t] \in TaskRecord(ninst) /\ ninst \in Nat /\ ninst = Len(inst)
    BY Types, RegistryType DEF OrderedInv, BaseInv, ninst
  <2>2. id \in 1..ninst
    BY <2>1 DEF InitSettles, DestroySettles, Shaped, TaskRecord
  <2>3. inst[id] \in InstRecord
    BY <2>1, <2>2
  <2> QED
    BY <2>1, <2>2, <2>3 DEF OrderedInv, BaseInv, InstRecord
<1> HIDE DEF id
<1>3. CASE ~ok
  <2>1. UNCHANGED order
    BY <1>3 DEF InitSettles, DestroySettles
  <2> QED
    BY <1>1, <1>3, <2>1, OrderedFrame
<1>4. CASE ok /\ InitSettles(t, ok)
  <2>1. order' = Append(order, inst[id].name)
    BY <1>4 DEF InitSettles, id
  <2>2. ToSet(order') = ToSet(order) \union {inst[id].name}
    BY <1>2, <2>1, AppendToSet
  <2> QED
    BY <1>1, <1>2, <2>2 DEF OrderedInv, InitializedIsOrdered
<1>5. CASE ok /\ DestroySettles(t, ok)
  <2>1. order' = RemoveFirst(order, inst[id].name) /\ task[t].pc = "destroy"
    BY <1>5 DEF DestroySettles, id
  <2>2. ToSet(order) \ {inst[id].name} \subseteq ToSet(order')
    BY <1>2, <2>1, RemoveFirstKeeps
  <2>3. \A jd \in 1..ninst : jd # id => inst[jd].name # inst[id].name
    BY <1>2 DEF UniqueNames
  <2> QED
    BY <1>1, <1>2, <1>5, <2>1, <2>2, <2>3 DEF OrderedInv, InitializedIsOrdered
<1> QED
  BY <1>3, <1>4, <1>5

\* As long as nobody unregisters, every step keeps what is up in the order.
LEMMA OrderedNext ==
  ASSUME "unregister" \notin Ops
  PROVE  OrderedInv /\ [Next]_vars => OrderedInv'
<1> SUFFICES ASSUME OrderedInv, [Next]_vars PROVE OrderedInv'
  OBVIOUS
<1>0. BaseInv /\ BaseInv'
  BY BaseNext DEF OrderedInv
<1>1. CASE UNCHANGED vars
  BY <1>0, <1>1, OrderedFrame DEF vars, ninst
<1>2. ASSUME NEW name \in Names, NEW enabled \in BOOLEAN, Register(name, enabled) PROVE OrderedInv'
  BY <1>2, OrderedRegister
<1>3. ASSUME NEW t \in Tasks, Invoke(t) PROVE OrderedInv'
  <2>1. ASSUME UNCHANGED <<plugins, inst, order>> PROVE OrderedInv'
    BY <1>0, <2>1, OrderedFrame DEF ninst
  <2> QED
    BY <1>0, <1>3, <2>1, BeginBase, EnableBase, DisableBase, OrderedFrame DEF Invoke
<1>4. ASSUME NEW t \in Tasks, Step(t) PROVE OrderedInv'
  <2>1. CASE Continue(t)
    BY <1>0, <2>1, OrderedFrame DEF Continue, ninst
  <2>2. CASE Finish(t)
    BY <1>0, <2>2, FinishBase, OrderedFrame
  <2> QED
    BY <1>4, <2>1, <2>2, OrderedSettle DEF Step
<1> QED
  BY <1>1, <1>2, <1>3, <1>4 DEF Next

\* For any number of overlapping callers that do not unregister, whatever order
\* their operations end in and whichever of them fail, a plugin that counts as
\* initialized is in the initialization order, which is all destroyAll() looks at.
THEOREM WhatIsUpCanBeTornDown ==
  ASSUME "unregister" \notin Ops
  PROVE  Spec => []InitializedIsOrdered
<1>1. Init => OrderedInv
  <2> SUFFICES ASSUME Init PROVE OrderedInv
    OBVIOUS
  <2>1. BaseInv /\ plugins = <<>> /\ inst = <<>>
    BY BaseInit DEF Init
  <2>2. ToSet(plugins) = {} /\ ninst = 0
    BY <2>1 DEF ToSet, ninst
  <2> QED
    BY <2>1, <2>2 DEF OrderedInv, InitializedIsOrdered
<1>2. OrderedInv => InitializedIsOrdered
  BY DEF OrderedInv
<1> QED
  BY <1>1, <1>2, OrderedNext, PTL DEF Spec

-----------------------------------------------------------------------------
(* One caller at a time.                                                   *)

OneCaller == \A t, u \in Tasks : t = u

\* Some place of n in s comes after every place of m.
After(s, m, n) == \E k \in 1..Len(s) : s[k] = n /\ \A j \in k..Len(s) : s[j] # m

\* Some place of n in s comes before every place of m.
Ahead(s, n, m) == \E k \in 1..Len(s) : s[k] = n /\ \A j \in 1..k : s[j] # m

Up == {id \in ToSet(plugins) : inst[id].initialized}

\* What is left of the snapshot of destroyAll() has the plugins that are still up
\* the other way round than the order, and the one being destroyed was the last.
Torn(tk) ==
  tk.op = "destroyAll" /\ ~tk.failed =>
    LET left == IF tk.pc = "destroy" THEN Up \ {tk.id} ELSE Up IN
    /\ tk.pc = "destroy" => \A id \in left : After(order, inst[id].name, inst[tk.id].name)
    /\ \A id, jd \in left : Ahead(tk.todo, inst[id].name, inst[jd].name)
                              => After(order, inst[jd].name, inst[id].name)

\* Across the await, what the operation found when it looked is still so.
StillSo(tk) ==
  /\ tk.pc = "init" => ~inst[tk.id].initialized /\ inst[tk.id].enabled
  /\ tk.pc = "destroy" => inst[tk.id].initialized /\ tk.id \in ToSet(plugins)
  /\ tk.op = "disable" /\ tk.pc = "loop" /\ ~tk.failed => ~inst[tk.cfg].initialized
  /\ tk.op = "disable" => tk.pc \in {"destroy", "loop"}

UpUnder(name) == {id \in 1..ninst : inst[id].name = name /\ inst[id].initialized}

CountsAgree ==
  \A name \in Names : Cardinality(Places(order, name)) = Cardinality(UpUnder(name))

OnceUp == \A id \in Id : live[id] = IF id <= ninst /\ inst[id].initialized THEN 1 ELSE 0

AllDisabledAreDown == \A id \in 1..ninst : ~inst[id].enabled => ~inst[id].initialized

SoloInv ==
  /\ BaseInv /\ CountsAgree /\ OnceUp /\ AllDisabledAreDown
  /\ \A t \in Tasks : StillSo(task[t]) /\ Torn(task[t])

\* What is ahead in the reversed sequence is behind in the sequence.
LEMMA ReverseOrder ==
  ASSUME NEW S, NEW s \in Seq(S), NEW m, NEW n, Ahead(Reverse(s), n, m)
  PROVE  After(s, m, n)
<1>1. /\ Len(s) \in Nat /\ Len(Reverse(s)) = Len(s)
      /\ \A k \in 1..Len(s) : Reverse(s)[k] = s[(Len(s) - k) + 1]
  BY DEF Reverse
<1>2. PICK k \in 1..Len(s) : Reverse(s)[k] = n /\ \A j \in 1..k : Reverse(s)[j] # m
  BY <1>1 DEF Ahead
<1> DEFINE i == (Len(s) - k) + 1
<1>3. i \in 1..Len(s) /\ s[i] = n
  BY <1>1, <1>2
<1>4. ASSUME NEW j \in i..Len(s) PROVE s[j] # m
  <2>0. j \in Int /\ (Len(s) - k) + 1 <= j /\ j <= Len(s)
    BY <1>1, <1>3
  <2> DEFINE h == (Len(s) - j) + 1
  <2>1. h \in Int /\ h = (Len(s) - j) + 1
    BY <1>1, <2>0
  <2> HIDE DEF h, i
  <2>2. h \in 1..k /\ h \in 1..Len(s) /\ (Len(s) - h) + 1 = j
    BY <1>1, <2>0, <2>1
  <2>3. Reverse(s)[h] = s[j] /\ Reverse(s)[h] # m
    BY <1>1, <1>2, <2>2
  <2> QED
    BY <2>3
<1> QED
  BY <1>3, <1>4 DEF After

\* The head of a sequence is ahead of every other element, and what is ahead in
\* the tail is ahead in the sequence.
LEMMA TailOrder ==
  ASSUME NEW S, NEW s \in Seq(S), s # <<>>, NEW m, NEW n
  PROVE  /\ Head(s) = n /\ n # m => Ahead(s, n, m)
         /\ Head(s) # m /\ Ahead(Tail(s), n, m) => Ahead(s, n, m)
<1>1. /\ Len(s) \in Nat \ {0} /\ Len(Tail(s)) = Len(s) - 1 /\ Head(s) = s[1]
      /\ \A k \in 1..Len(s) - 1 : Tail(s)[k] = s[k + 1]
  OBVIOUS
<1>2. ASSUME Head(s) = n, n # m PROVE Ahead(s, n, m)
  <2>1. 1 \in 1..Len(s) /\ s[1] = n /\ \A j \in 1..1 : s[j] # m
    BY <1>1, <1>2
  <2> QED
    BY <2>1 DEF Ahead
<1>3. ASSUME Head(s) # m, Ahead(Tail(s), n, m) PROVE Ahead(s, n, m)
  <2>1. PICK k \in 1..Len(s) - 1 : Tail(s)[k] = n /\ \A j \in 1..k : Tail(s)[j] # m
    BY <1>1, <1>3 DEF Ahead
  <2>2. k + 1 \in 1..Len(s) /\ s[k + 1] = n
    BY <1>1, <2>1
  <2>3. ASSUME NEW j \in 1..k + 1 PROVE s[j] # m
    <3>1. CASE j = 1
      BY <1>1, <1>3, <3>1
    <3>2. CASE j # 1
      <4>1. j - 1 \in 1..k /\ Tail(s)[j - 1] = s[j]
        BY <1>1, <3>2
      <4> QED
        BY <2>1, <4>1
    <3> QED
      BY <3>1, <3>2
  <2> QED
    BY <2>2, <2>3 DEF Ahead
<1> QED
  BY <1>2, <1>3

\* Removing a place of x leaves the last places of the others as they were.
LEMMA RemoveOrder ==
  ASSUME NEW S, NEW s \in Seq(S), NEW x, NEW m, NEW n, x # n, After(s, m, n)
  PROVE  After(RemoveFirst(s, x), m, n)
<1>1. CASE ~\E i \in 1..Len(s) : s[i] = x
  BY <1>1 DEF RemoveFirst
<1>2. CASE \E i \in 1..Len(s) : s[i] = x
  <2>1. PICK k \in 1..Len(s) : s[k] = x /\ RemoveFirst(s, x) = RemoveAt(s, k)
    BY <1>2, RemoveFirstPosition
  <2> DEFINE r == RemoveAt(s, k)
  <2>2. /\ Len(r) = Len(s) - 1 /\ Len(s) \in Nat
        /\ \A j \in 1..Len(s) - 1 : r[j] = IF j < k THEN s[j] ELSE s[j + 1]
    BY RemoveAtElements
  <2> HIDE DEF r
  <2>3. PICK i \in 1..Len(s) : s[i] = n /\ \A j \in i..Len(s) : s[j] # m
    BY DEF After
  <2>4. CASE i < k
    <3>1. i \in 1..Len(r) /\ r[i] = n
      BY <2>2, <2>3, <2>4
    <3>2. ASSUME NEW j \in i..Len(r) PROVE r[j] # m
      BY <2>2, <2>3
    <3> QED
      BY <2>1, <3>1, <3>2 DEF After, r
  <2>5. CASE i > k
    <3>1. i - 1 \in 1..Len(r) /\ r[i - 1] = n
      BY <2>2, <2>3, <2>5
    <3>2. ASSUME NEW j \in i - 1..Len(r) PROVE r[j] # m
      BY <2>2, <2>3, <2>5
    <3> QED
      BY <2>1, <3>1, <3>2 DEF After, r
  <2> QED
    BY <2>1, <2>3, <2>4, <2>5
<1> QED
  BY <1>1, <1>2

\* A step that moves no plugin up or down.
LEMMA SoloFrame ==
  ASSUME SoloInv, BaseInv', UNCHANGED <<plugins, order, live>>, ninst' = ninst,
         \A id \in 1..ninst : /\ inst'[id].name = inst[id].name
                              /\ inst'[id].initialized = inst[id].initialized,
         AllDisabledAreDown', \A t \in Tasks : StillSo(task[t])' /\ Torn(task[t])'
  PROVE  SoloInv'
<1>1. \A name \in Names : UpUnder(name)' = UpUnder(name)
  BY DEF UpUnder
<1>2. CountsAgree'
  BY <1>1 DEF SoloInv, CountsAgree
<1>3. OnceUp'
  <2>1. ninst \in Nat
    BY RegistryType DEF SoloInv, BaseInv
  <2> QED
    BY <2>1 DEF SoloInv, OnceUp, Id
<1> QED
  BY <1>2, <1>3 DEF SoloInv

\* An operation that has just begun, or gone on to its next name.
LEMMA VisitedSolo ==
  ASSUME SoloInv, NEW tk \in TaskRecord(ninst), tk.todo # <<>>, tk.op \notin {"none", "disable"},
         Torn(tk), tk.pc # "destroy", NEW v, Visited(tk, v)
  PROVE  StillSo(v) /\ Torn(v)
<1>1. StillSo(v)
  BY DEF Visited, StillSo
<1>2. ASSUME v.op = "destroyAll", ~v.failed PROVE Torn(v)
  <2>1. /\ tk.op = "destroyAll" /\ v.todo = Tail(tk.todo) /\ tk.todo \in Seq(Names)
        /\ v.pc \in {"loop", "destroy"} /\ v.failed = tk.failed
    BY <1>2 DEF Visited, TaskRecord, IsInitializing
  <2>2. /\ UniqueNames
        /\ \A id, jd \in Up : Ahead(tk.todo, inst[id].name, inst[jd].name)
                                => After(order, inst[jd].name, inst[id].name)
    BY <1>2, <2>1 DEF Torn, SoloInv, BaseInv
  <2> DEFINE left == IF v.pc = "destroy" THEN Up \ {v.id} ELSE Up
  <2>3. \A id \in left : inst[id].name # Head(tk.todo)
    BY <1>2, <2>1, <2>2 DEF Visited, UniqueNames, Up, IsInitializing
  <2>4. v.pc = "destroy" => v.id \in Up /\ inst[v.id].name = Head(tk.todo)
    BY DEF Visited, Up
  <2>5. \A id, jd \in left : Ahead(v.todo, inst[id].name, inst[jd].name)
                               => After(order, inst[jd].name, inst[id].name)
    BY <2>1, <2>2, <2>3, TailOrder
  <2>6. v.pc = "destroy" => \A id \in left : After(order, inst[id].name, inst[v.id].name)
    BY <2>1, <2>2, <2>3, <2>4, TailOrder
  <2> QED
    BY <2>5, <2>6 DEF Torn
<1> QED
  BY <1>1, <1>2 DEF Torn

\* register() between the steps of the one caller.
LEMMA RegisterSolo ==
  ASSUME SoloInv, NEW name \in Names, NEW enabled \in BOOLEAN, Register(name, enabled)
  PROVE  SoloInv'
<1>1. /\ BaseInv' /\ ninst' = ninst + 1 /\ ToSet(plugins') = ToSet(plugins) \union {ninst + 1}
      /\ \A id \in 1..ninst : inst'[id] = inst[id]
      /\ ~inst'[ninst + 1].initialized
  BY RegisterBase DEF SoloInv
<1>2. /\ ninst \in Nat /\ UNCHANGED <<order, task, live>> /\ ToSet(plugins) \subseteq 1..ninst
      /\ \A t \in Tasks : task[t] \in TaskRecord(ninst) /\ Shaped(task[t])
  BY RegistryType, Types DEF Register, SoloInv, BaseInv
<1>3. \A name_1 \in Names : UpUnder(name_1)' = UpUnder(name_1)
  BY <1>1, <1>2 DEF UpUnder
<1>4. CountsAgree'
  BY <1>2, <1>3 DEF SoloInv, CountsAgree
<1>5. OnceUp'
  BY <1>1, <1>2 DEF SoloInv, OnceUp, Id
<1>6. AllDisabledAreDown'
  BY <1>1, <1>2 DEF SoloInv, AllDisabledAreDown
<1>7. ASSUME NEW t \in Tasks PROVE StillSo(task[t])'
  <2>1. task[t] \in TaskRecord(ninst) /\ Shaped(task[t]) /\ StillSo(task[t])
    BY <1>2 DEF SoloInv
  <2>2. /\ task[t].pc \in {"init", "destroy"} => task[t].id \in 1..ninst
        /\ task[t].op = "disable" => task[t].cfg \in 1..ninst
    BY <1>2, <2>1 DEF Shaped, TaskRecord
  <2> QED
    BY <1>1, <1>2, <2>1, <2>2 DEF StillSo
<1>8. ASSUME NEW t \in Tasks PROVE Torn(task[t])'
  <2>1. task[t] \in TaskRecord(ninst) /\ Shaped(task[t]) /\ Torn(task[t])
    BY <1>2 DEF SoloInv
  <2>2. task[t].pc = "destroy" => task[t].id \in 1..ninst
    BY <1>2, <2>1 DEF Shaped, TaskRecord
  <2>3. Up' = Up /\ Up \subseteq 1..ninst
    BY <1>1, <1>2 DEF Up
  <2> QED
    BY <1>1, <1>2, <2>1, <2>2, <2>3 DEF Torn
<1> QED
  BY <1>1, <1>4, <1>5, <1>6, <1>7, <1>8 DEF SoloInv

\* unregister() between the steps of the one caller.
LEMMA UnregisterSolo ==
  ASSUME SoloInv, NEW name \in Names, Unregister(name)
  PROVE  SoloInv'
<1>1. /\ BaseInv' /\ UNCHANGED <<inst, order, task, live>>
      /\ ToSet(plugins') \subseteq ToSet(plugins)
      /\ \A id \in ToSet(plugins) : inst[id].initialized => id \in ToSet(plugins')
  BY UnregisterBase DEF SoloInv
<1>2. Up' = Up
  BY <1>1 DEF Up
<1>3. \A t \in Tasks : StillSo(task[t])'
  BY <1>1 DEF SoloInv, StillSo
<1>4. \A t \in Tasks : Torn(task[t])'
  BY <1>1, <1>2 DEF SoloInv, Torn
<1>5. CountsAgree' /\ OnceUp' /\ AllDisabledAreDown'
  BY <1>1 DEF SoloInv, CountsAgree, UpUnder, OnceUp, AllDisabledAreDown, ninst
<1> QED
  BY <1>1, <1>3, <1>4, <1>5 DEF SoloInv

\* The step of caller t, when it is the only one, that moves no plugin and leaves
\* the flags, and after which t does v.
LEMMA SoloTask ==
  ASSUME OneCaller, SoloInv, BaseInv', UNCHANGED <<plugins, inst, order, live>>,
         NEW t \in Tasks, NEW v \in TaskRecord(ninst), task' = [task EXCEPT ![t] = v],
         StillSo(v), Torn(v)
  PROVE  SoloInv'
<1>1. task \in [Tasks -> TaskRecord(ninst)]
  BY Types DEF SoloInv, BaseInv
<1>2. \A u \in Tasks : u = t
  BY DEF OneCaller
<1>3. \A u \in Tasks : task'[u] = v
  BY <1>1, <1>2
<1>4. \A u \in Tasks : StillSo(task[u])' /\ Torn(task[u])'
  BY <1>3 DEF StillSo, Torn, Up
<1>5. AllDisabledAreDown' /\ ninst' = ninst
  BY DEF SoloInv, AllDisabledAreDown, ninst
<1> QED
  BY <1>4, <1>5, SoloFrame

\* The one caller begins; destroyAll() takes the order backwards.
LEMMA BeginSolo ==
  ASSUME OneCaller, SoloInv, NEW t \in Tasks,
         \/ \E name \in Names : Initialize(t, name) \/ Destroy(t, name)
         \/ InitializeAll(t) \/ DestroyAll(t)
  PROVE  SoloInv'
<1>1. BaseInv /\ BaseInv' /\ UNCHANGED <<plugins, inst, order, live>>
  BY BeginBase DEF SoloInv
<1>2. ASSUME NEW op \in AllOps \ {"disable"}, NEW todo \in Seq(Names),
             task' = [task EXCEPT ![t] = Began(op, todo, 0)],
             op = "destroyAll" => todo = Reverse(order)
      PROVE  SoloInv'
  <2> DEFINE b == Began(op, todo, 0)
  <2>1. /\ b \in TaskRecord(ninst) /\ b.op = op
        /\ todo = <<>> => b.pc = "loop" /\ b.todo = <<>>
        /\ todo # <<>> => \E tk \in TaskRecord(ninst) :
             tk.op = op /\ tk.pc = "loop" /\ tk.todo = todo /\ ~tk.failed /\ Visited(tk, b)
    <3>1. 0 \in 0..ninst
      BY RegistryType DEF SoloInv, BaseInv
    <3> QED
      BY <1>1, <3>1, BeganDoes
  <2>2. task' = [task EXCEPT ![t] = b]
    BY <1>2
  <2> HIDE DEF b
  <2>3. order \in Seq(Names)
    BY <1>1, Types DEF BaseInv
  <2>4. ASSUME todo = <<>> PROVE StillSo(b) /\ Torn(b)
    <3>1. b.pc = "loop" /\ b.todo = <<>> /\ b.op # "disable"
      BY <2>1, <2>4
    <3>2. \A m, n : ~Ahead(b.todo, n, m)
      BY <3>1 DEF Ahead
    <3> QED
      BY <3>1, <3>2 DEF StillSo, Torn
  <2>5. ASSUME todo # <<>> PROVE StillSo(b) /\ Torn(b)
    <3>1. PICK tk \in TaskRecord(ninst) :
            tk.op = op /\ tk.pc = "loop" /\ tk.todo = todo /\ ~tk.failed /\ Visited(tk, b)
      BY <2>1, <2>5
    <3>2. tk.op \notin {"none", "disable"}
      BY <3>1 DEF AllOps
    <3>3. Torn(tk)
      BY <1>2, <2>3, <3>1, ReverseOrder DEF Torn
    <3> QED
      BY <2>5, <3>1, <3>2, <3>3, VisitedSolo
  <2> QED
    BY <1>1, <2>1, <2>2, <2>4, <2>5, SoloTask
<1>3. /\ "initialize" \in AllOps \ {"disable"} /\ "destroy" \in AllOps \ {"disable"}
      /\ "initializeAll" \in AllOps \ {"disable"} /\ "destroyAll" \in AllOps \ {"disable"}
      /\ \A name \in Names : <<name>> \in Seq(Names)
  BY DEF AllOps
<1>4. CASE \E name \in Names : Initialize(t, name)
  BY <1>2, <1>3, <1>4 DEF Initialize
<1>5. CASE \E name \in Names : Destroy(t, name)
  BY <1>2, <1>3, <1>5 DEF Destroy
<1>6. CASE InitializeAll(t)
  BY <1>1, <1>2, <1>3, <1>6, RegisteredNames DEF InitializeAll
<1>7. CASE DestroyAll(t)
  <2>1. Reverse(order) \in Seq(Names)
    <3>1. order \in Seq(Names)
      BY <1>1, Types DEF BaseInv
    <3> QED
      BY <3>1 DEF Reverse
  <2> QED
    BY <1>2, <1>3, <1>7, <2>1 DEF DestroyAll
<1> QED
  BY <1>4, <1>5, <1>6, <1>7

\* enable() of the one caller.
LEMMA EnableSolo ==
  ASSUME OneCaller, SoloInv, NEW t \in Tasks, NEW name \in Names, Enable(t, name)
  PROVE  SoloInv'
<1>1. /\ BaseInv' /\ UNCHANGED <<plugins, order, live>> /\ ninst' = ninst
      /\ \A id \in 1..ninst :
           /\ inst'[id].name = inst[id].name /\ inst'[id].initialized = inst[id].initialized
           /\ inst'[id].enabled = inst[id].enabled \/ inst'[id].enabled
  BY EnableBase DEF SoloInv
<1>2. PICK v \in TaskRecord(ninst) :
           /\ task' = [task EXCEPT ![t] = v] /\ v.op # "disable" /\ v.op # "destroyAll"
           /\ v.pc # "destroy"
           /\ v.pc = "init" => ~inst[v.id].initialized /\ inst'[v.id].enabled
  BY EnableBase DEF SoloInv
<1>3. AllDisabledAreDown'
  BY <1>1 DEF SoloInv, AllDisabledAreDown
<1>4. \A u \in Tasks : task'[u] = v
  BY <1>2, Types DEF OneCaller, SoloInv, BaseInv
<1>5. Shaped(v) /\ ninst \in Nat
  BY <1>1, <1>4, RegistryType DEF SoloInv, BaseInv, Shaped
<1>6. v.pc = "init" => ~inst'[v.id].initialized /\ inst'[v.id].enabled
  <2>1. v.pc = "init" => v.id \in 1..ninst
    BY <1>5 DEF Shaped, TaskRecord
  <2> QED
    BY <1>1, <1>2, <2>1
<1>7. \A u \in Tasks : StillSo(task[u])' /\ Torn(task[u])'
  BY <1>2, <1>4, <1>6 DEF StillSo, Torn
<1> QED
  BY <1>1, <1>3, <1>7, SoloFrame

\* disable() of the one caller.
LEMMA DisableSolo ==
  ASSUME OneCaller, SoloInv, NEW t \in Tasks, NEW name \in Names, Disable(t, name)
  PROVE  SoloInv'
<1>1. /\ BaseInv' /\ UNCHANGED <<plugins, order, live>> /\ ninst' = ninst
      /\ \A id \in 1..ninst :
           /\ inst'[id].name = inst[id].name /\ inst'[id].initialized = inst[id].initialized
           /\ inst'[id].enabled = inst[id].enabled \/ ~inst[id].initialized
  BY DisableBase DEF SoloInv
<1>2. \/ UNCHANGED task
      \/ \E v \in TaskRecord(ninst) :
           /\ task' = [task EXCEPT ![t] = v] /\ v.op = "disable" /\ v.pc = "destroy"
           /\ v.id \in ToSet(plugins) /\ inst[v.id].initialized
  BY DisableBase DEF SoloInv
<1>3. AllDisabledAreDown'
  BY <1>1 DEF SoloInv, AllDisabledAreDown
<1>4. /\ task \in [Tasks -> TaskRecord(ninst)] /\ \A u \in Tasks : u = t
      /\ ToSet(plugins) \subseteq 1..ninst /\ Idle(t)
  BY Types, RegistryType DEF OneCaller, SoloInv, BaseInv, Disable
<1>5. ASSUME UNCHANGED task
      PROVE  \A u \in Tasks : StillSo(task[u])' /\ Torn(task[u])'
  <2>1. task'[t].pc = "idle" /\ task'[t].op = "none"
    BY <1>4, <1>5 DEF Idle, SoloInv, BaseInv, Shaped
  <2> QED
    BY <1>4, <2>1 DEF StillSo, Torn
<1>6. ASSUME NEW v \in TaskRecord(ninst), task' = [task EXCEPT ![t] = v],
             v.op = "disable", v.pc = "destroy", v.id \in ToSet(plugins), inst[v.id].initialized
      PROVE  \A u \in Tasks : StillSo(task[u])' /\ Torn(task[u])'
  <2>1. \A u \in Tasks : task'[u] = v
    BY <1>4, <1>6
  <2> QED
    BY <1>1, <1>4, <1>6, <2>1 DEF StillSo, Torn
<1>7. \A u \in Tasks : StillSo(task[u])' /\ Torn(task[u])'
  BY <1>2, <1>5, <1>6
<1> QED
  BY <1>1, <1>3, <1>7, SoloFrame

\* The instances that are up under a name are finitely many.
LEMMA UpUnderFinite ==
  ASSUME BaseInv, NEW name
  PROVE  /\ IsFiniteSet(UpUnder(name)) /\ Cardinality(UpUnder(name)) \in Nat
         /\ UpUnder(name) # {} => Cardinality(UpUnder(name)) # 0
<1>1. IsFiniteSet(1..ninst) /\ UpUnder(name) \in SUBSET (1..ninst)
  BY RegistryType, FS_Interval DEF BaseInv, UpUnder
<1>2. IsFiniteSet(UpUnder(name))
  BY <1>1, FS_Subset
<1> QED
  BY <1>2, FS_CardinalityType, FS_EmptySet

\* plugin.initialize() resolves: one more is up, and once more in the order.
LEMMA InitSettlesSolo ==
  ASSUME OneCaller, SoloInv, NEW t \in Tasks, InitSettles(t, TRUE)
  PROVE  SoloInv'
<1> DEFINE id == task[t].id
<1>1. PICK ok \in BOOLEAN : ok = TRUE
  OBVIOUS
<1>2. InitSettles(t, ok)
  BY <1>1, Zenon
<1>3. /\ BaseInv' /\ UNCHANGED plugins /\ ninst' = ninst
      /\ \A jd \in 1..ninst :
           /\ inst'[jd].name = inst[jd].name /\ inst'[jd].enabled = inst[jd].enabled
           /\ inst'[jd].initialized = IF jd = id /\ ok THEN task[t].pc = "init"
                                                       ELSE inst[jd].initialized
  BY <1>2, SettleBase DEF SoloInv
<1>4. /\ task[t].pc = "init" /\ order' = Append(order, inst[id].name)
      /\ live' = [live EXCEPT ![id] = @ + 1] /\ AfterAwait(t, FALSE)
  BY DEF InitSettles
<1>5. /\ order \in Seq(Names) /\ id \in 1..ninst /\ inst[id].name \in Names
      /\ live \in [Id -> Nat] /\ ninst \in Nat /\ ninst <= MaxInst /\ MaxInst \in Nat
      /\ Shaped(task[t]) /\ BaseInv
  <2>1. /\ order \in Seq(Names) /\ inst \in Seq(InstRecord) /\ Shaped(task[t])
        /\ task[t] \in TaskRecord(ninst) /\ ninst \in Nat /\ ninst = Len(inst)
        /\ live \in [Id -> Nat] /\ ninst <= MaxInst /\ MaxInst \in Nat
    BY Types, RegistryType, PluginAssumption DEF SoloInv, BaseInv, ninst
  <2>2. id \in 1..ninst
    BY <1>4, <2>1 DEF Shaped, TaskRecord
  <2>3. inst[id] \in InstRecord
    BY <2>1, <2>2
  <2> QED
    BY <2>1, <2>2, <2>3 DEF SoloInv, InstRecord
<1>6. ~inst[id].initialized /\ inst[id].enabled
  BY <1>4 DEF SoloInv, StillSo
<1>7. /\ task'[t].op = task[t].op /\ task'[t].pc = "loop"
      /\ task[t].op # "disable" /\ task[t].op # "destroyAll"
  <2>1. PICK f \in BOOLEAN : f = FALSE
    OBVIOUS
  <2>2. AfterAwait(t, f) /\ task[t].pc \in {"init", "destroy"}
    BY <1>4, <2>1, Zenon
  <2> QED
    BY <1>4, <1>5, <2>2, Awaited DEF Shaped, IsInitializing
<1> HIDE DEF id
<1>8. \A jd \in 1..ninst : inst'[jd].initialized <=> jd = id \/ inst[jd].initialized
  BY <1>1, <1>3, <1>4
<1>9. CountsAgree'
  <2> SUFFICES ASSUME NEW name \in Names
               PROVE  Cardinality(Places(order', name)) = Cardinality(UpUnder(name)')
    BY DEF CountsAgree
  <2>1. Cardinality(Places(order', name))
          = Cardinality(Places(order, name)) + (IF inst[id].name = name THEN 1 ELSE 0)
    BY <1>4, <1>5, AppendPlaces DEF id
  <2>2. Cardinality(Places(order, name)) = Cardinality(UpUnder(name))
    BY DEF SoloInv, CountsAgree
  <2>3. CASE inst[id].name = name
    <3>1. UpUnder(name)' = UpUnder(name) \union {id} /\ id \notin UpUnder(name)
      BY <1>3, <1>5, <1>6, <1>8, <2>3 DEF UpUnder
    <3>2. IsFiniteSet(UpUnder(name)) /\ Cardinality(UpUnder(name)) \in Nat
      BY <1>5, UpUnderFinite
    <3>3. Cardinality(UpUnder(name) \union {id}) = Cardinality(UpUnder(name)) + 1
      BY <3>1, <3>2, FS_AddElement
    <3> QED
      BY <2>1, <2>2, <2>3, <3>1, <3>3
  <2>4. CASE inst[id].name # name
    <3>1. UpUnder(name)' = UpUnder(name)
      BY <1>3, <1>5, <1>8, <2>4 DEF UpUnder
    <3> QED
      BY <1>5, <2>1, <2>2, <2>4, <3>1, UpUnderFinite
  <2> QED
    BY <2>3, <2>4
<1>10. OnceUp'
  <2> SUFFICES ASSUME NEW jd \in Id
               PROVE  live'[jd] = IF jd <= ninst' /\ inst'[jd].initialized THEN 1 ELSE 0
    BY DEF OnceUp
  <2>1. live[jd] = IF jd <= ninst /\ inst[jd].initialized THEN 1 ELSE 0
    BY DEF SoloInv, OnceUp
  <2>2. jd <= ninst => (inst'[jd].initialized <=> jd = id \/ inst[jd].initialized)
    BY <1>5, <1>8 DEF Id
  <2> QED
    BY <1>3, <1>4, <1>5, <1>6, <2>1, <2>2 DEF Id, id
<1>11. AllDisabledAreDown'
  BY <1>3, <1>5, <1>6, <1>8 DEF SoloInv, AllDisabledAreDown
<1>12. \A u \in Tasks : StillSo(task[u])' /\ Torn(task[u])'
  <2>1. \A u \in Tasks : u = t
    BY DEF OneCaller
  <2> QED
    BY <1>7, <2>1 DEF StillSo, Torn
<1> QED
  BY <1>3, <1>9, <1>10, <1>11, <1>12 DEF SoloInv

\* plugin.destroy() resolves: one less is up, and once less in the order.
LEMMA DestroySettlesSolo ==
  ASSUME OneCaller, SoloInv, NEW t \in Tasks, DestroySettles(t, TRUE)
  PROVE  SoloInv'
<1> DEFINE id == task[t].id
<1>1. PICK ok \in BOOLEAN : ok = TRUE
  OBVIOUS
<1>2. DestroySettles(t, ok)
  BY <1>1, Zenon
<1>3. /\ BaseInv' /\ UNCHANGED plugins /\ ninst' = ninst
      /\ \A jd \in 1..ninst :
           /\ inst'[jd].name = inst[jd].name /\ inst'[jd].enabled = inst[jd].enabled
           /\ inst'[jd].initialized = IF jd = id /\ ok THEN task[t].pc = "init"
                                                       ELSE inst[jd].initialized
  BY <1>2, SettleBase DEF SoloInv
<1>4. /\ task[t].pc = "destroy" /\ order' = RemoveFirst(order, inst[id].name)
      /\ live' = [live EXCEPT ![id] = IF @ > 0 THEN @ - 1 ELSE 0] /\ AfterAwait(t, FALSE)
  BY DEF DestroySettles
<1>5. /\ order \in Seq(Names) /\ id \in 1..ninst /\ inst[id].name \in Names
      /\ live \in [Id -> Nat] /\ ninst \in Nat /\ ninst <= MaxInst /\ MaxInst \in Nat
      /\ Shaped(task[t]) /\ BaseInv
  <2>1. /\ order \in Seq(Names) /\ inst \in Seq(InstRecord) /\ Shaped(task[t])
        /\ task[t] \in TaskRecord(ninst) /\ ninst \in Nat /\ ninst = Len(inst)
        /\ live \in [Id -> Nat] /\ ninst <= MaxInst /\ MaxInst \in Nat
    BY Types, RegistryType, PluginAssumption DEF SoloInv, BaseInv, ninst
  <2>2. id \in 1..ninst
    BY <1>4, <2>1 DEF Shaped, TaskRecord
  <2>3. inst[id] \in InstRecord
    BY <2>1, <2>2
  <2> QED
    BY <2>1, <2>2, <2>3 DEF SoloInv, InstRecord
<1>6. inst[id].initialized /\ id \in ToSet(plugins) /\ ToSet(plugins) \subseteq 1..ninst
  BY <1>4, RegistryType DEF SoloInv, BaseInv, StillSo
<1>7. /\ task'[t].op = task[t].op /\ task'[t].pc = "loop" /\ task'[t].cfg = task[t].cfg
      /\ task'[t].todo = task[t].todo /\ task'[t].failed = task[t].failed
      /\ task[t].op = "disable" => task[t].cfg = id
  <2>1. PICK f \in BOOLEAN : f = FALSE
    OBVIOUS
  <2>2. AfterAwait(t, f) /\ task[t].pc \in {"init", "destroy"}
    BY <1>4, <2>1, Zenon
  <2>3. task[t].failed \in BOOLEAN
    BY Types DEF TaskRecord, SoloInv, BaseInv
  <2> QED
    BY <1>4, <1>5, <2>1, <2>2, <2>3, Awaited DEF Shaped
<1> HIDE DEF id
<1>8. \A jd \in 1..ninst : inst'[jd].initialized <=> jd # id /\ inst[jd].initialized
  BY <1>1, <1>3, <1>4
<1>9. CountsAgree'
  <2> SUFFICES ASSUME NEW name \in Names
               PROVE  Cardinality(Places(order', name)) = Cardinality(UpUnder(name)')
    BY DEF CountsAgree
  <2>1. \E k \in 1..Len(order) : order[k] = inst[id].name
    <3>1. id \in UpUnder(inst[id].name)
      BY <1>5, <1>6 DEF UpUnder
    <3>2. Cardinality(Places(order, inst[id].name)) # 0
      BY <1>5, <3>1, UpUnderFinite DEF SoloInv, CountsAgree
    <3> QED
      BY <1>5, <3>2, PlacesFinite
  <2>2. Cardinality(Places(order', name))
          = Cardinality(Places(order, name)) - (IF inst[id].name = name THEN 1 ELSE 0)
    BY <1>4, <1>5, <2>1, RemoveFirstPlaces DEF id
  <2>3. Cardinality(Places(order, name)) = Cardinality(UpUnder(name))
    BY DEF SoloInv, CountsAgree
  <2>4. CASE inst[id].name = name
    <3>1. UpUnder(name)' = UpUnder(name) \ {id} /\ id \in UpUnder(name)
      BY <1>3, <1>5, <1>6, <1>8, <2>4 DEF UpUnder
    <3> QED
      <4>1. IsFiniteSet(UpUnder(name))
        BY <1>5, UpUnderFinite
      <4>2. Cardinality(UpUnder(name) \ {id}) = Cardinality(UpUnder(name)) - 1
        BY <3>1, <4>1, FS_RemoveElement
      <4> QED
        BY <2>2, <2>3, <2>4, <3>1, <4>2
  <2>5. CASE inst[id].name # name
    <3>1. UpUnder(name)' = UpUnder(name)
      BY <1>3, <1>5, <1>8, <2>5 DEF UpUnder
    <3> QED
      BY <1>5, <2>2, <2>3, <2>5, <3>1, UpUnderFinite
  <2> QED
    BY <2>4, <2>5
<1>10. OnceUp'
  <2> SUFFICES ASSUME NEW jd \in Id
               PROVE  live'[jd] = IF jd <= ninst' /\ inst'[jd].initialized THEN 1 ELSE 0
    BY DEF OnceUp
  <2>1. live[jd] = IF jd <= ninst /\ inst[jd].initialized THEN 1 ELSE 0
    BY DEF SoloInv, OnceUp
  <2>2. jd <= ninst => (inst'[jd].initialized <=> jd # id /\ inst[jd].initialized)
    BY <1>5, <1>8 DEF Id
  <2> QED
    BY <1>3, <1>4, <1>5, <1>6, <2>1, <2>2 DEF Id, id
<1>11. AllDisabledAreDown'
  BY <1>3, <1>5, <1>6, <1>8 DEF SoloInv, AllDisabledAreDown
<1>12. \A u \in Tasks : u = t
  BY DEF OneCaller
<1>13. StillSo(task[t])'
  BY <1>5, <1>7, <1>8, <1>3 DEF StillSo
<1>14. Torn(task[t])'
  <2> SUFFICES ASSUME task[t].op = "destroyAll", ~task[t].failed, NEW kd \in Up', NEW jd \in Up',
                      Ahead(task[t].todo, inst'[kd].name, inst'[jd].name)
               PROVE  After(order', inst'[jd].name, inst'[kd].name)
    BY <1>7 DEF Torn
  <2>1. /\ kd \in Up \ {id} /\ jd \in Up \ {id} /\ kd \in 1..ninst /\ jd \in 1..ninst
        /\ id \in Up
    BY <1>3, <1>6, <1>8 DEF Up
  <2>2. inst'[kd].name = inst[kd].name /\ inst'[jd].name = inst[jd].name
    BY <1>3, <2>1
  <2>3. After(order, inst[jd].name, inst[kd].name)
    BY <1>4, <2>1, <2>2 DEF SoloInv, Torn, id
  <2>4. inst[kd].name # inst[id].name
    BY <1>5, <1>6, <2>1 DEF BaseInv, UniqueNames, Up
  <2> QED
    BY <1>4, <1>5, <2>2, <2>3, <2>4, RemoveOrder DEF id
<1> QED
  BY <1>3, <1>9, <1>10, <1>11, <1>12, <1>13, <1>14 DEF SoloInv

\* plugin.initialize() or plugin.destroy() rejects.
LEMMA FailureSolo ==
  ASSUME OneCaller, SoloInv, NEW t \in Tasks,
         InitSettles(t, FALSE) \/ DestroySettles(t, FALSE)
  PROVE  SoloInv'
<1>1. PICK ok \in BOOLEAN : ok = FALSE
  OBVIOUS
<1>2. InitSettles(t, ok) \/ DestroySettles(t, ok)
  BY <1>1, Zenon
<1>3. BaseInv'
  BY <1>2, SettleBase DEF SoloInv
<1>4. /\ UNCHANGED <<plugins, inst, order, live>> /\ AfterAwait(t, TRUE)
      /\ task[t].pc \in {"init", "destroy"}
  BY DEF InitSettles, DestroySettles
<1>5. task'[t].failed /\ task'[t].pc = "loop" /\ task'[t].op = task[t].op
  <2>1. PICK f \in BOOLEAN : f = TRUE
    OBVIOUS
  <2>2. AfterAwait(t, f)
    BY <1>4, <2>1, Zenon
  <2> QED
    BY <1>4, <2>1, <2>2, Awaited DEF SoloInv
<1>6. \A u \in Tasks : StillSo(task[u])' /\ Torn(task[u])'
  <2>1. \A u \in Tasks : u = t
    BY DEF OneCaller
  <2> QED
    BY <1>5, <2>1 DEF StillSo, Torn
<1>7. AllDisabledAreDown' /\ ninst' = ninst
  BY <1>4 DEF SoloInv, AllDisabledAreDown, ninst
<1> QED
  BY <1>3, <1>4, <1>6, <1>7, SoloFrame

\* The loop of the one caller goes on.
LEMMA ContinueSolo ==
  ASSUME OneCaller, SoloInv, NEW t \in Tasks, Continue(t)
  PROVE  SoloInv'
<1>1. /\ BaseInv' /\ Visited(task[t], Visit(task[t]))
      /\ task' = [task EXCEPT ![t] = Visit(task[t])]
  BY ContinueBase DEF SoloInv
<1>2. /\ task[t] \in TaskRecord(ninst) /\ Shaped(task[t]) /\ Torn(task[t])
      /\ task[t].pc = "loop" /\ task[t].todo # <<>> /\ UNCHANGED <<plugins, inst, order, live>>
  BY Types DEF SoloInv, BaseInv, Continue
<1>3. task[t].op \notin {"none", "disable"}
  BY <1>2 DEF Shaped
<1>4. StillSo(Visit(task[t])) /\ Torn(Visit(task[t])) /\ Visit(task[t]) \in TaskRecord(ninst)
  BY <1>1, <1>2, <1>3, VisitedSolo DEF Visited
<1> QED
  BY <1>1, <1>2, <1>4, SoloTask

\* The one caller's operation ends.
LEMMA FinishSolo ==
  ASSUME OneCaller, SoloInv, NEW t \in Tasks, Finish(t)
  PROVE  SoloInv'
<1>1. /\ BaseInv' /\ ninst' = ninst /\ UNCHANGED <<plugins, order, live>>
      /\ task' = [task EXCEPT ![t] = NoTask]
      /\ \A id \in 1..ninst :
           /\ inst'[id].name = inst[id].name /\ inst'[id].initialized = inst[id].initialized
           /\ \/ inst'[id].enabled = inst[id].enabled
              \/ id = task[t].cfg /\ task[t].op = "disable" /\ ~task[t].failed
  BY FinishBase DEF SoloInv
<1>2. task[t].op = "disable" /\ ~task[t].failed => ~inst[task[t].cfg].initialized
  BY DEF Finish, SoloInv, StillSo
<1>3. AllDisabledAreDown'
  BY <1>1, <1>2 DEF SoloInv, AllDisabledAreDown
<1>4. \A u \in Tasks : task'[u] = NoTask
  BY <1>1, Types DEF OneCaller, SoloInv, BaseInv
<1>5. \A u \in Tasks : StillSo(task[u])' /\ Torn(task[u])'
  BY <1>4 DEF StillSo, Torn, NoTask
<1> QED
  BY <1>1, <1>3, <1>5, SoloFrame

\* Every step of one caller keeps the invariant.
LEMMA SoloNext ==
  ASSUME OneCaller
  PROVE  SoloInv /\ [Next]_vars => SoloInv'
<1> SUFFICES ASSUME SoloInv, [Next]_vars PROVE SoloInv'
  OBVIOUS
<1>1. CASE UNCHANGED vars
  <2>1. BaseInv'
    BY <1>1, BaseNext DEF SoloInv
  <2> QED
    BY <1>1, <2>1 DEF vars, SoloInv, CountsAgree, UpUnder, OnceUp, AllDisabledAreDown, StillSo,
                      Torn, Up, ninst
<1>2. ASSUME NEW name \in Names, NEW enabled \in BOOLEAN, Register(name, enabled) PROVE SoloInv'
  BY <1>2, RegisterSolo
<1>3. ASSUME NEW name \in Names, Unregister(name) PROVE SoloInv'
  BY <1>3, UnregisterSolo
<1>4. ASSUME NEW t \in Tasks, Invoke(t) PROVE SoloInv'
  BY <1>4, BeginSolo, EnableSolo, DisableSolo DEF Invoke
<1>5. ASSUME NEW t \in Tasks, Step(t) PROVE SoloInv'
  <2>1. ASSUME NEW ok \in BOOLEAN, InitSettles(t, ok) \/ DestroySettles(t, ok) PROVE SoloInv'
    <3>1. CASE ok = TRUE
      BY <2>1, <3>1, InitSettlesSolo, DestroySettlesSolo
    <3>2. CASE ok = FALSE
      BY <2>1, <3>2, FailureSolo
    <3> QED
      BY <3>1, <3>2
  <2> QED
    BY <1>5, <2>1, ContinueSolo, FinishSolo DEF Step
<1> QED
  BY <1>1, <1>2, <1>3, <1>4, <1>5 DEF Next

\* It holds at the start.
LEMMA SoloInit == Init => SoloInv
<1> SUFFICES ASSUME Init PROVE SoloInv
  OBVIOUS
<1>1. /\ inst = <<>> /\ plugins = <<>> /\ order = <<>>
      /\ task = [t \in Tasks |-> NoTask] /\ live = [id \in Id |-> 0]
  BY DEF Init
<1>2. ninst = 0
  BY <1>1 DEF ninst
<1>3. \A name : Places(order, name) = {} /\ UpUnder(name) = {}
  BY <1>1, <1>2 DEF Places, UpUnder
<1>4. CountsAgree
  BY <1>3 DEF CountsAgree
<1>5. OnceUp /\ AllDisabledAreDown
  BY <1>1, <1>2 DEF OnceUp, AllDisabledAreDown, Id
<1>6. \A t \in Tasks : StillSo(task[t]) /\ Torn(task[t])
  BY <1>1 DEF NoTask, StillSo, Torn
<1> QED
  BY <1>4, <1>5, <1>6, BaseInit DEF SoloInv

\* It holds throughout.
LEMMA SoloInvariance == ASSUME OneCaller PROVE Spec => []SoloInv
BY SoloInit, SoloNext, PTL DEF Spec

\* With one caller at a time the initialization order lists the name of each
\* plugin exactly as often as an instance of it is up, whichever calls into the
\* plugins fail, and whatever is registered and unregistered between the steps.
THEOREM OrderListsWhatIsUp ==
  ASSUME OneCaller
  PROVE  Spec => []OrderIsExact
<1>1. SoloInv => OrderIsExact
  <2> SUFFICES ASSUME SoloInv PROVE OrderIsExact
    OBVIOUS
  <2>1. TypeOK /\ CountsAgree
    BY DEF SoloInv, BaseInv
  <2> QED
    BY <2>1 DEF OrderIsExact, CountsAgree, Places, UpUnder
<1> QED
  BY <1>1, SoloInvariance, PTL

\* With one caller at a time no plugin is initialized twice without having been
\* destroyed in between.
THEOREM NeverInitializedTwice ==
  ASSUME OneCaller
  PROVE  Spec => []NoDoubleInit
<1>1. SoloInv => NoDoubleInit
  BY DEF SoloInv, OnceUp, NoDoubleInit
<1> QED
  BY <1>1, SoloInvariance, PTL

\* With one caller at a time a plugin that is disabled is down: the flag is only
\* cleared once the plugin has been destroyed.
THEOREM DisabledPluginsAreDown ==
  ASSUME OneCaller
  PROVE  Spec => []DisabledIsDown
<1>1. SoloInv => DisabledIsDown
  <2> SUFFICES ASSUME SoloInv PROVE DisabledIsDown
    OBVIOUS
  <2>1. ToSet(plugins) \subseteq 1..ninst
    BY RegistryType DEF SoloInv, BaseInv
  <2> QED
    BY <2>1 DEF SoloInv, AllDisabledAreDown, DisabledIsDown
<1> QED
  BY <1>1, SoloInvariance, PTL

\* With one caller at a time destroyAll() destroys, until one of them fails to go
\* down, the plugin that came up last of those that are still up, although it
\* works from a snapshot of the order and the order changes under it.
THEOREM LastUpFirstDown ==
  ASSUME OneCaller
  PROVE  Spec => []TeardownReversed
<1>1. SoloInv => TeardownReversed
  <2> SUFFICES ASSUME SoloInv, NEW t \in Tasks, task[t].op = "destroyAll",
                      task[t].pc = "destroy", ~task[t].failed,
                      NEW id \in ToSet(plugins) \ {task[t].id}, inst[id].initialized
               PROVE  \E k \in 1..Len(order) :
                         /\ order[k] = inst[task[t].id].name
                         /\ inst[id].name \notin ToSet(SubSeq(order, k, Len(order)))
    BY DEF TeardownReversed
  <2>1. After(order, inst[id].name, inst[task[t].id].name) /\ order \in Seq(Names)
    BY Types DEF SoloInv, BaseInv, Torn, Up
  <2>2. PICK k \in 1..Len(order) : /\ order[k] = inst[task[t].id].name
                                   /\ \A j \in k..Len(order) : order[j] # inst[id].name
    BY <2>1 DEF After
  <2> DEFINE s == SubSeq(order, k, Len(order))
  <2>3. /\ s \in Seq(Names) /\ Len(s) = Len(order) - k + 1
        /\ \A i \in 1..Len(order) - k + 1 : s[i] = order[k + i - 1]
    BY <2>1, SubSeqProperties
  <2> HIDE DEF s
  <2>4. \A i \in 1..Len(s) : s[i] # inst[id].name
    BY <2>1, <2>2, <2>3
  <2>5. DOMAIN s = 1..Len(s)
    BY <2>3
  <2>6. inst[id].name \notin ToSet(s)
    BY <2>4, <2>5 DEF ToSet
  <2> QED
    BY <2>2, <2>6 DEF s
<1> QED
  BY <1>1, SoloInvariance, PTL
=============================================================================
