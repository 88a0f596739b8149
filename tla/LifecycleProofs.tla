--------------------------- MODULE LifecycleProofs ---------------------------
(***************************************************************************)
(* Theorems about Lifecycle, for any callers and any number of hooks.      *)
(***************************************************************************)
EXTENDS Lifecycle, SequenceLemmas

-----------------------------------------------------------------------------
(* Lemmas about the operators of the module.                               *)

CallRecord ==
  [op : {"none", "start", "stop", "restart", "signal", "crash"},
   pc : {"idle", "wait", "resume", "done"},
   phase : Phase, res : {"pending", "ok", "err"}]

Frame == [phase : Phase, wait : SUBSET Callers, field : {"unset", "held", "lost"}]

\* A call that settles is still a call.
LEMMA SettledType ==
  ASSUME NEW cl \in CallRecord, NEW r \in {"ok", "err"}
  PROVE  Settled(cl, r) \in CallRecord
BY DEF Settled, CallRecord

\* Whoever is told, calls stay calls.
LEMMA SettleType ==
  ASSUME TypeOK, NEW W \in SUBSET Callers, NEW r \in {"ok", "err"}
  PROVE  Settle(W, r) \in [Callers -> CallRecord]
<1>1. \A c \in Callers : call[c] \in CallRecord /\ Settled(call[c], r) \in CallRecord
  BY SettledType DEF TypeOK, CallRecord
<1> QED
  BY <1>1 DEF Settle

\* A joining caller is put among those that wait for a run that is leaving.
LEMMA JoinType ==
  ASSUME TypeOK, NEW c \in Callers, NEW phase \in Phase, NEW op, Join(c, op, phase)
  PROVE  leaving' \in Seq(Frame)
<1>1. leaving \in Seq(Frame)
  BY DEF TypeOK, Frame
<1>2. CASE leaving' = leaving
  BY <1>1, <1>2
<1>3. CASE leaving' = [k \in 1..Len(leaving) |->
                         [leaving[k] EXCEPT !.wait = IF Kept(phase, leaving[k])
                                                     THEN @ \union {c} ELSE @]]
  <2> DEFINE new(k) == [leaving[k] EXCEPT !.wait = IF Kept(phase, leaving[k])
                                                   THEN leaving[k].wait \union {c}
                                                   ELSE leaving[k].wait]
  <2>1. \A k \in 1..Len(leaving) : new(k) \in Frame
    <3> SUFFICES ASSUME NEW k \in 1..Len(leaving) PROVE new(k) \in Frame
      OBVIOUS
    <3>1. leaving[k] \in Frame
      BY <1>1
    <3> QED
      BY <3>1 DEF Frame
  <2>2. leaving' \in [1..Len(leaving) -> Frame]
    BY <1>3, <2>1
  <2> QED
    BY <1>1, <2>2, TabulatedType
<1> QED
  BY <1>2, <1>3 DEF Join, Return

\* The runs on the stack stay runs when one loses the field.
LEMMA OverwriteType ==
  ASSUME NEW phase \in Phase, NEW fs \in Seq(Frame)
  PROVE  /\ Overwrite(phase, fs) \in Seq(Frame)
         /\ Len(Overwrite(phase, fs)) = Len(fs)
         /\ \A k \in 1..Len(fs) : /\ Overwrite(phase, fs)[k].wait = fs[k].wait
                                  /\ Overwrite(phase, fs)[k].phase = fs[k].phase
<1> DEFINE new(k) == [fs[k] EXCEPT !.field = IF Kept(phase, fs[k]) THEN "lost"
                                             ELSE fs[k].field]
<1>1. \A k \in 1..Len(fs) : /\ new(k) \in Frame
                            /\ new(k).wait = fs[k].wait /\ new(k).phase = fs[k].phase
  <2> SUFFICES ASSUME NEW k \in 1..Len(fs)
               PROVE  /\ new(k) \in Frame
                      /\ new(k).wait = fs[k].wait /\ new(k).phase = fs[k].phase
    OBVIOUS
  <2>1. fs[k] \in Frame
    OBVIOUS
  <2> QED
    BY <2>1 DEF Frame
<1>2. Overwrite(phase, fs) = [k \in 1..Len(fs) |-> new(k)]
  BY DEF Overwrite
<1>3. Overwrite(phase, fs) \in [1..Len(fs) -> Frame] /\ Len(fs) \in Nat
  BY <1>1, <1>2
<1> HIDE DEF new
<1> QED
  BY <1>1, <1>2, <1>3, TabulatedType

\* No run gets the field by losing it.
LEMMA OverwriteKeeps ==
  ASSUME NEW phase \in Phase, NEW fs \in Seq(Frame)
  PROVE  \A k \in 1..Len(fs), p \in Phase : Kept(p, Overwrite(phase, fs)[k]) => Kept(p, fs[k])
<1> SUFFICES ASSUME NEW k \in 1..Len(fs), NEW p \in Phase, Kept(p, Overwrite(phase, fs)[k])
             PROVE  Kept(p, fs[k])
  OBVIOUS
<1> DEFINE x == IF Kept(phase, fs[k]) THEN "lost" ELSE fs[k].field
<1>1. Overwrite(phase, fs)[k] = [fs[k] EXCEPT !.field = x]
  BY DEF Overwrite
<1>2. fs[k] \in Frame
  OBVIOUS
<1>3. x = "lost" \/ x = fs[k].field
  OBVIOUS
<1> HIDE DEF x
<1> QED
  BY <1>1, <1>2, <1>3 DEF Kept, Frame

\* start() and stop(), whoever calls them, keep the types and, unless they
\* begin a run, touch only the call.
LEMMA InvokeType ==
  ASSUME TypeOK, NEW c \in Callers, NEW phase \in Phase,
         NEW op \in {"start", "stop", "restart", "signal", "crash"},
         Invoke(c, op, phase)
  PROVE  /\ TypeOK'
         /\ \/ CanBegin(phase) /\ Begin(c, op, phase)
            \/ UNCHANGED <<state, run>>
         /\ UNCHANGED running
<1> DEFINE aw == Await(op, phase)
<1>1. aw \in CallRecord
  BY DEF Await, CallRecord
<1>o. owed' \in SUBSET Callers
  BY DEF Invoke, Owing, TypeOK
<1>2. ASSUME NEW r \in {"ok", "err"}, Return(c, op, phase, r)
      PROVE  /\ call' \in [Callers -> CallRecord]
             /\ UNCHANGED <<state, run, entering, leaving, ran, plan, edits>>
  <2>1. Settled(aw, r) \in CallRecord
    BY <1>1, SettledType
  <2> QED
    BY <1>2, <2>1 DEF Return, TypeOK, CallRecord
<1>3. CASE state = Done(phase) /\ Return(c, op, phase, "ok")
  BY <1>3, <1>2, <1>o DEF Invoke, TypeOK, CallRecord
<1>4. CASE state = Doing(phase) /\ Join(c, op, phase)
  <2>1. promise[phase] \in {"none", "pending", "ok", "err"}
    BY DEF TypeOK
  <2>2. CASE promise[phase] = "pending"
    <3>1. /\ call' = [call EXCEPT ![c] = aw]
          /\ UNCHANGED <<state, run, entering, ran, plan, edits>>
      BY <1>4, <2>2 DEF Join
    <3>2. leaving' \in Seq(Frame)
      BY <1>4, JoinType
    <3> QED
      BY <1>1, <1>o, <3>1, <3>2 DEF Invoke, TypeOK, CallRecord, Frame
  <2>3. CASE promise[phase] \in {"none", "ok"}
    <3>1. Return(c, op, phase, "ok")
      BY <1>4, <2>3 DEF Join
    <3> QED
      BY <1>2, <1>o, <3>1 DEF Invoke, TypeOK, CallRecord
  <2>4. CASE promise[phase] = "err"
    <3>1. Return(c, op, phase, "err")
      BY <1>4, <2>4 DEF Join
    <3> QED
      BY <1>2, <1>o, <3>1 DEF Invoke, TypeOK, CallRecord
  <2> QED
    BY <2>1, <2>2, <2>3, <2>4
<1>5. CASE CanBegin(phase) /\ Begin(c, op, phase)
  <2>1. call' = [call EXCEPT ![c] = aw]
    BY <1>5 DEF Begin
  <2> QED
    BY <1>1, <1>5, <1>o, <2>1 DEF Invoke, Begin, Doing, Phase, TypeOK, CallRecord
<1>6. CASE Return(c, op, phase, "err")
  BY <1>6, <1>2, <1>o DEF Invoke, TypeOK, CallRecord
<1> QED
  BY <1>3, <1>4, <1>5, <1>6 DEF Invoke

-----------------------------------------------------------------------------
(* Type correctness, and handlers that never overlap.                      *)

\* What makes HandlersNeverOverlap inductive: a handler runs only while its race
\* is undecided or was lost to the timer, and a lost race leads nowhere but to
\* ERROR, from where no run begins.
HandlerInv ==
  running # {} => /\ state = "error" \/ (Active /\ run.res # "ok")
                  /\ running = {run.hook}

IInv == TypeOK /\ HandlerInv

\* The manager is constructed with every variable in its type.
LEMMA InitTypeOK == Init => TypeOK
<1> SUFFICES ASSUME Init PROVE TypeOK
  OBVIOUS
<1> USE DEF Init
<1>1. <<>> \in Seq(HookId)
  OBVIOUS
<1>2. hooks \in [Phase -> Seq(HookId)] /\ ran \in Seq(HookId) /\ plan \in Seq(HookId)
  BY <1>1
<1>3. NoCall \in CallRecord
  BY DEF NoCall, CallRecord, Phase
<1>4. call \in [Callers -> CallRecord]
  BY <1>3
<1>5. run \in [phase : Phase, i : Nat, hook : HookId \union {0},
              res : {"pending", "ok", "err"}]
  BY DEF NoRun, Phase
<1>6. nhooks \in 0..MaxHooks
  BY MaxHooksAssumption
<1> QED
  BY <1>1, <1>2, <1>4, <1>5, <1>6, EmptySeq DEF TypeOK, CallRecord

\* The end of a run keeps the types.
LEMMA FinishType == ASSUME TypeOK, Finish PROVE TypeOK'
<1> DEFINE f == [phase |-> run.phase, wait |-> Awaiting,
                 field |-> IF entering THEN "unset" ELSE IF Held THEN "held" ELSE "lost"]
<1>1. leaving' = Append(leaving, f) /\ leaving \in Seq(Frame)
  BY DEF Finish, Announce, TypeOK, Frame
<1>2. f \in Frame
  BY DEF Frame, Awaiting, TypeOK
<1>3. leaving' \in Seq(Frame)
  <2> HIDE DEF f
  <2> QED
    BY <1>1, <1>2, AppendProperties
<1>4. owed' \in SUBSET Callers
  BY DEF Finish, Announce, TypeOK
<1> QED
  BY <1>3, <1>4 DEF Finish, Announce, Done, TypeOK, Frame

\* So does the settling of its promise.
LEMMA LeaveType == ASSUME TypeOK, Leave PROVE TypeOK'
<1> DEFINE f == Last(leaving)
<1>1. leaving \in Seq(Frame) /\ leaving # <<>>
  BY DEF Leave, TypeOK, Frame
<1>2. f \in Frame /\ Front(leaving) \in Seq(Frame)
  BY <1>1, FrontLastType
<1>3. f.phase \in Phase /\ f.wait \in SUBSET Callers
  BY <1>2 DEF Frame
<1>4. call' \in [Callers -> CallRecord]
  <2>1. call' = Settle(f.wait, "ok")
    BY DEF Leave
  <2> QED
    BY <1>3, <2>1, SettleType
<1>5. leaving' \in Seq(Frame)
  <2>1. leaving' \in {Overwrite(f.phase, Front(leaving)), Front(leaving)}
    BY DEF Leave
  <2> QED
    BY <1>2, <1>3, <2>1, OverwriteType
<1>6. promise' \in [Phase -> {"none", "pending", "ok", "err"}]
  BY <1>3 DEF Leave, TypeOK
<1> QED
  BY <1>4, <1>5, <1>6 DEF Leave, TypeOK, Frame, CallRecord

\* A run that fails keeps the types.
LEMMA FailType == ASSUME TypeOK, Fail PROVE TypeOK'
<1>1. call' \in [Callers -> CallRecord]
  <2>1. call' = Settle(Awaiting, "err") /\ Awaiting \in SUBSET Callers
    BY DEF Fail, Awaiting
  <2> QED
    BY <2>1, SettleType
<1>2. promise' \in [Phase -> {"none", "pending", "ok", "err"}]
  BY DEF Fail, TypeOK
<1> QED
  BY <1>1, <1>2 DEF Fail, TypeOK, CallRecord

\* The promise of a run is assigned to the field of its phase.
LEMMA AssignType == ASSUME TypeOK, AssignPromise PROVE TypeOK'
<1>1. leaving' \in Seq(Frame)
  <2>1. leaving \in Seq(Frame) /\ run.phase \in Phase
    BY DEF TypeOK, Frame
  <2> QED
    BY <2>1, OverwriteType DEF AssignPromise
<1> QED
  BY <1>1 DEF AssignPromise, TypeOK, Frame

\* At the head of the loop no handler runs.
LEMMA NoHandlerAtLoopHead ==
  ASSUME IInv, AtLoopHead
  PROVE  running = {}
BY DEF IInv, HandlerInv, TypeOK, AtLoopHead, Active, HookId

\* Every operation of the manager keeps the types and keeps handlers apart.
LEMMA NextIInv == IInv /\ [Next]_vars => IInv'
<1> SUFFICES ASSUME IInv, [Next]_vars PROVE IInv'
  OBVIOUS
<1> USE DEF IInv
<1>a. ASSUME NEW c \in Callers, NEW phase \in Phase,
             NEW op \in {"start", "stop", "restart", "signal", "crash"},
             Invoke(c, op, phase)
      PROVE  IInv'
  <2>1. /\ TypeOK'
        /\ \/ CanBegin(phase) /\ Begin(c, op, phase)
           \/ UNCHANGED <<state, run>>
        /\ UNCHANGED running
    BY <1>a, InvokeType
  <2>2. CASE CanBegin(phase) /\ Begin(c, op, phase)
    <3>1. running = {}
      BY <2>2 DEF CanBegin, HandlerInv, Active
    <3> QED
      BY <2>1, <3>1 DEF HandlerInv
  <2>3. CASE UNCHANGED <<state, run>>
    BY <2>1, <2>3 DEF HandlerInv, Active
  <2> QED
    BY <2>1, <2>2, <2>3
<1>1. CASE OnStart
  <2>1. nhooks + 1 \in HookId
    BY <1>1, MaxHooksAssumption DEF OnStart, TypeOK, HookId
  <2>2. Append(hooks["start"], nhooks + 1) \in Seq(HookId)
    BY <2>1, AppendProperties DEF TypeOK, Phase
  <2>3. hooks' \in [Phase -> Seq(HookId)]
    <3>1. hooks' = [hooks EXCEPT !["start"] = Append(hooks["start"], nhooks + 1)]
      BY <1>1 DEF OnStart, EditHooks
    <3> QED
      BY <2>2, <3>1 DEF TypeOK
  <2>6. nhooks' \in 0..MaxHooks
    BY <1>1, MaxHooksAssumption DEF OnStart, TypeOK
  <2>4. edits' \in SUBSET {"add", "remove"}
    BY <1>1 DEF OnStart, EditHooks, TypeOK
  <2>5. TypeOK'
    BY <1>1, <2>3, <2>4, <2>6 DEF OnStart, EditHooks, TypeOK
  <2> QED
    BY <1>1, <2>5 DEF OnStart, EditHooks, HandlerInv, Active
<1>2. CASE OnStop
  <2>1. nhooks + 1 \in HookId
    BY <1>2, MaxHooksAssumption DEF OnStop, TypeOK, HookId
  <2>2. <<nhooks + 1>> \o hooks["stop"] \in Seq(HookId)
    <3>1. <<nhooks + 1>> \in Seq(HookId) /\ hooks["stop"] \in Seq(HookId)
      BY <2>1 DEF TypeOK, Phase
    <3> QED
      BY <3>1, ConcatProperties
  <2>3. hooks' \in [Phase -> Seq(HookId)]
    <3>1. hooks' = [hooks EXCEPT !["stop"] = <<nhooks + 1>> \o hooks["stop"]]
      BY <1>2 DEF OnStop, EditHooks
    <3> QED
      BY <2>2, <3>1 DEF TypeOK
  <2>6. nhooks' \in 0..MaxHooks
    BY <1>2, MaxHooksAssumption DEF OnStop, TypeOK
  <2>4. edits' \in SUBSET {"add", "remove"}
    BY <1>2 DEF OnStop, EditHooks, TypeOK
  <2>5. TypeOK'
    BY <1>2, <2>3, <2>4, <2>6 DEF OnStop, EditHooks, TypeOK
  <2> QED
    BY <1>2, <2>5 DEF OnStop, EditHooks, HandlerInv, Active
<1>3. ASSUME NEW phase \in Phase, RemoveHook(phase) PROVE IInv'
  <2>1. PICK k \in 1..Len(hooks[phase]) :
          EditHooks(phase, "remove", RemoveAt(hooks[phase], k))
    BY <1>3 DEF RemoveHook
  <2>2. RemoveAt(hooks[phase], k) \in Seq(HookId)
    BY RemoveAtType DEF TypeOK
  <2>3. TypeOK'
    BY <1>3, <2>1, <2>2 DEF RemoveHook, EditHooks, TypeOK
  <2> QED
    BY <1>3, <2>1, <2>3 DEF RemoveHook, EditHooks, HandlerInv, Active
<1>4. ASSUME NEW c \in Callers,
             Start(c) \/ Stop(c) \/ Restart(c) \/ Signal(c) \/ Crash(c)
      PROVE  IInv'
  BY <1>4, <1>a DEF Start, Stop, Restart, Signal, Crash, Phase
<1>5. ASSUME NEW c \in Callers, Resume(c) PROVE IInv'
  <2>1. CASE Invoke(c, "restart", "start")
    BY <1>a, <2>1 DEF Phase
  <2>2. CASE /\ call' = [call EXCEPT ![c].pc = "done"]
             /\ UNCHANGED <<state, hooks, nhooks, run, running, entering, leaving,
                            promise, exitCode, ran, plan, edits, owed>>
    <3>1. call' \in [Callers -> CallRecord]
      <4>1. [call[c] EXCEPT !.pc = "done"] \in CallRecord
        <5>1. call[c] \in CallRecord
          BY DEF TypeOK, CallRecord
        <5> QED
          BY <5>1 DEF CallRecord
      <4> QED
        BY <2>2, <4>1 DEF TypeOK, CallRecord
    <3>2. TypeOK'
      BY <2>2, <3>1 DEF TypeOK, CallRecord
    <3> QED
      BY <2>2, <3>2 DEF HandlerInv, Active
  <2>3. ASSUME NEW code \in {0, 1}, Exit(code) PROVE IInv'
    BY <2>3 DEF Exit, TypeOK, HandlerInv, Active
  <2> QED
    BY <1>5, <2>1, <2>2, <2>3 DEF Resume
<1>6. CASE NextHook
  <2>1. running = {}
    BY <1>6, NoHandlerAtLoopHead DEF NextHook
  <2>2. run.i \in Nat /\ run.phase \in Phase /\ hooks[run.phase] \in Seq(HookId)
    BY DEF TypeOK
  <2> DEFINE h == hooks[run.phase][run.i + 1]
  <2>3. h \in HookId
    BY <1>6, <2>2 DEF NextHook
  <2>4. ran' \in Seq(HookId)
    BY <1>6, <2>3, AppendProperties DEF NextHook, TypeOK
  <2>5. TypeOK'
    <3>1. run' \in [phase : Phase, i : Nat, hook : HookId \union {0},
                    res : {"pending", "ok", "err"}]
      <4>1. run' = [run EXCEPT !.i = @ + 1, !.hook = h, !.res = "pending"]
        BY <1>6 DEF NextHook
      <4>2. run \in [phase : Phase, i : Nat, hook : HookId \union {0},
                     res : {"pending", "ok", "err"}]
        BY DEF TypeOK
      <4>3. run.i + 1 \in Nat
        BY <4>2
      <4> HIDE DEF h
      <4> QED
        BY <2>3, <4>1, <4>2, <4>3
    <3>2. running' \in SUBSET HookId
      BY <1>6, <2>1, <2>3 DEF NextHook
    <3> QED
      BY <1>6, <2>4, <3>1, <3>2 DEF NextHook, TypeOK
  <2>6. running' = {h} /\ run'.hook = h /\ run'.res = "pending"
    BY <1>6, <2>1 DEF NextHook, TypeOK
  <2> QED
    BY <1>6, <2>5, <2>6 DEF NextHook, AtLoopHead, HandlerInv, Active
<1>7. CASE Finish
  <2>1. running = {}
    BY <1>7, NoHandlerAtLoopHead DEF Finish
  <2>2. TypeOK'
    BY <1>7, FinishType
  <2> QED
    BY <1>7, <2>1, <2>2 DEF Finish, Announce, HandlerInv
<1>8. CASE Fail
  <2>1. TypeOK'
    BY <1>8, FailType
  <2> QED
    BY <1>8, <2>1 DEF Fail, HandlerInv
<1>9. CASE AssignPromise
  BY <1>9, AssignType DEF AssignPromise, HandlerInv, Active
<1>13. CASE Leave
  BY <1>13, LeaveType DEF Leave, HandlerInv, Active
<1>10. CASE HookTimeout
  BY <1>10 DEF HookTimeout, TypeOK, HandlerInv, Active
<1>11. ASSUME NEW h \in HookId, NEW r \in {"ok", "err"}, HandlerSettles(h, r)
       PROVE  IInv'
  <2>1. running' = {}
    BY <1>11 DEF HandlerSettles, HandlerInv
  <2>2. run' \in [phase : Phase, i : Nat, hook : HookId \union {0},
                  res : {"pending", "ok", "err"}]
    BY <1>11 DEF HandlerSettles, TypeOK
  <2>3. TypeOK'
    BY <1>11, <2>1, <2>2 DEF HandlerSettles, TypeOK
  <2> QED
    BY <2>1, <2>3 DEF HandlerInv
<1>12. CASE UNCHANGED vars
  BY <1>12 DEF vars, TypeOK, HandlerInv, Active
<1> QED
  BY <1>1, <1>2, <1>3, <1>4, <1>5, <1>6, <1>7, <1>8, <1>9, <1>10, <1>11, <1>12,
     <1>13
  DEF Next

\* IInv is an invariant.
LEMMA Invariance == Spec => []IInv
<1>1. Init => IInv
  BY InitTypeOK DEF IInv, HandlerInv, Init
<1> QED
  BY <1>1, NextIInv, PTL DEF Spec

\* The variables of the manager keep their types.
THEOREM TypeCorrect == Spec => []TypeOK
<1>1. IInv => TypeOK
  BY DEF IInv
<1> QED
  BY <1>1, Invariance, PTL

\* For any callers and any number of hooks, and whatever the timing of their
\* timeouts, no two hook handlers ever run at the same time, and one that
\* outlives its run leaves the manager in ERROR.
THEOREM NoOverlap == Spec => []HandlersNeverOverlap
<1>1. IInv => HandlersNeverOverlap
  BY DEF IInv, HandlerInv, HandlersNeverOverlap
<1> QED
  BY <1>1, Invariance, PTL

-----------------------------------------------------------------------------
(* Runs that end well are complete, and hooks are called in order.         *)

\* Hooks are numbers.
LEMMA HookNumbers == ASSUME NEW s \in Seq(HookId), NEW k \in 1..Len(s) PROVE s[k] \in Int
<1>1. s[k] \in HookId
  OBVIOUS
<1> QED
  BY <1>1, MaxHooksAssumption DEF HookId

\* Hooks in the order of their phase.
InOrder(phase, g, h) == IF phase = "start" THEN g < h ELSE g > h

\* The lists are in order, and nothing is called that was not registered.
ListInv ==
  /\ \A p \in Phase : \A j, k \in 1..Len(hooks[p]) :
       j < k => InOrder(p, hooks[p][j], hooks[p][k])
  /\ \A p \in Phase : \A k \in 1..Len(hooks[p]) : hooks[p][k] <= nhooks
  /\ \A k \in 1..Len(ran) : ran[k] <= nhooks

\* What a run under way has called comes before what is left for it, and what it
\* began with has been called or is left.
RunInv ==
  Active =>
    /\ state = Doing(run.phase)
    /\ run.phase = "start" \/ "add" \notin edits =>
         \A j \in 1..Len(ran), k \in run.i + 1..Len(hooks[run.phase]) :
           InOrder(run.phase, ran[j], hooks[run.phase][k])
    /\ edits = {} => /\ hooks[run.phase] = plan /\ run.i <= Len(plan)
                     /\ Len(ran) = run.i /\ \A k \in 1..run.i : ran[k] = plan[k]
    /\ "remove" \notin edits =>
         \A j \in 1..Len(plan) :
           \/ \E k \in 1..Len(ran) : ran[k] = plan[j]
           \/ \E k \in run.i + 1..Len(hooks[run.phase]) : hooks[run.phase][k] = plan[j]

OInv == TypeOK /\ ListInv /\ RunInv /\ CompleteRun /\ RunOrder

\* A step that touches neither a list nor the place of the run in it, and leaves
\* the state or ends in ERROR.
LEMMA SameRun ==
  ASSUME OInv, TypeOK',
         UNCHANGED <<hooks, nhooks, ran, plan, edits>>,
         run'.phase = run.phase, run'.i = run.i, state' \in {state, "error"}
  PROVE  OInv'
<1>1. ListInv'
  BY DEF OInv, ListInv
<1>2. RunInv'
  BY DEF OInv, RunInv, Active
<1>3. CompleteRun' /\ RunOrder'
  BY DEF OInv, CompleteRun, RunOrder
<1> QED
  BY <1>1, <1>2, <1>3 DEF OInv

\* start() and stop(), whoever calls them, begin a run or leave it alone.
LEMMA InvokeOInv ==
  ASSUME OInv, NEW c \in Callers, NEW phase \in Phase,
         NEW op \in {"start", "stop", "restart", "signal", "crash"},
         Invoke(c, op, phase)
  PROVE  OInv'
<1>1. TypeOK'
  BY InvokeType DEF OInv
<1>2. \/ Begin(c, op, phase)
      \/ UNCHANGED <<state, run, ran, plan, edits>>
  BY DEF Invoke, Join, Return
<1>3. UNCHANGED <<hooks, nhooks>>
  BY DEF Invoke
<1>4. CASE Begin(c, op, phase)
  <2>1. /\ state' = Doing(phase) /\ run'.phase = phase /\ run'.i = 0
        /\ ran' = <<>> /\ plan' = hooks[phase] /\ edits' = {}
    BY <1>4 DEF Begin
  <2>2. ListInv' /\ RunOrder'
    BY <1>3, <2>1 DEF OInv, ListInv, RunOrder
  <2>3. RunInv'
    BY <1>1, <1>3, <2>1 DEF RunInv, TypeOK
  <2>4. CompleteRun'
    BY <2>1 DEF CompleteRun, Doing
  <2> QED
    BY <1>1, <2>2, <2>3, <2>4 DEF OInv
<1> QED
  BY <1>1, <1>2, <1>3, <1>4, SameRun

\* A new list of a phase, in order and with registered hooks only, keeps the
\* invariant when the rest of the run under way is kept as its edit says.
LEMMA EditOInv ==
  ASSUME OInv, TypeOK', NEW phase \in Phase, NEW edit \in {"add", "remove"},
         NEW s \in Seq(HookId), EditHooks(phase, edit, s),
         nhooks' \in {nhooks, nhooks + 1},
         \A j, k \in 1..Len(s) : j < k => InOrder(phase, s[j], s[k]),
         \A k \in 1..Len(s) : s[k] <= nhooks',
         \* what is left is what was left, but for a start hook that is added
         phase = "start" \/ edit = "remove" =>
           \A i \in Nat : \A k \in i + 1..Len(s) :
             \/ \E j \in i + 1..Len(hooks[phase]) : hooks[phase][j] = s[k]
             \/ phase = "start" /\ s[k] > nhooks,
         \* nothing is lost by an addition
         edit = "add" => \A i \in Nat : \A k \in i + 1..Len(hooks[phase]) :
                           \E j \in i + 1..Len(s) : s[j] = hooks[phase][k]
  PROVE  OInv'
<1>1. /\ hooks' = [hooks EXCEPT ![phase] = s]
      /\ edits' = IF Active /\ run.phase = phase THEN edits \union {edit} ELSE edits
      /\ UNCHANGED <<state, run, ran, plan>>
  BY DEF EditHooks
<1>2. hooks'[phase] = s /\ \A p \in Phase \ {phase} : hooks'[p] = hooks[p]
  BY <1>1 DEF OInv, TypeOK
<1>3. nhooks \in Nat /\ nhooks <= nhooks' /\ nhooks' \in Nat
  BY DEF OInv, TypeOK
<1>t. /\ run.phase \in Phase /\ run.i \in Nat /\ ran \in Seq(HookId) /\ plan \in Seq(HookId)
      /\ \A p \in Phase : hooks[p] \in Seq(HookId)
  BY DEF OInv, TypeOK
<1>4. ListInv'
  <2>1. \A p \in Phase : \A k \in 1..Len(hooks'[p]) : hooks'[p][k] <= nhooks'
    <3> TAKE p \in Phase
    <3>1. CASE p = phase
      BY <1>2, <3>1
    <3>2. CASE p # phase
      <4> SUFFICES ASSUME NEW k \in 1..Len(hooks[p]) PROVE hooks[p][k] <= nhooks'
        BY <1>2, <3>2
      <4>1. hooks[p][k] \in Int
        BY <1>t, HookNumbers
      <4>2. hooks[p][k] <= nhooks
        BY DEF OInv, ListInv
      <4> QED
        BY <1>3, <4>1, <4>2
    <3> QED
      BY <3>1, <3>2
  <2>2. \A k \in 1..Len(ran') : ran'[k] <= nhooks'
    <3> SUFFICES ASSUME NEW k \in 1..Len(ran) PROVE ran[k] <= nhooks'
      BY <1>1
    <3>1. ran[k] \in Int
      BY <1>t, HookNumbers
    <3>2. ran[k] <= nhooks
      BY DEF OInv, ListInv
    <3> QED
      BY <1>3, <3>1, <3>2
  <2>3. \A p \in Phase : \A j, k \in 1..Len(hooks'[p]) :
          j < k => InOrder(p, hooks'[p][j], hooks'[p][k])
    BY <1>2 DEF OInv, ListInv
  <2> QED
    BY <2>1, <2>2, <2>3 DEF ListInv
<1>5. RunInv'
  <2>1. CASE Active /\ run.phase = phase
    <3>1. edits' = edits \union {edit} /\ hooks'[run.phase] = s
      BY <1>1, <1>2, <2>1
    <3>2. state' = Doing(run'.phase)
      BY <1>1, <2>1 DEF OInv, RunInv
    <3>3. ASSUME phase = "start" \/ "add" \notin edits',
                 NEW j \in 1..Len(ran), NEW k \in run.i + 1..Len(s)
          PROVE  InOrder(phase, ran[j], s[k])
      <4>1. edit = "remove" \/ phase = "start"
        BY <3>1, <3>3
      <4>2. CASE \E i \in run.i + 1..Len(hooks[phase]) : hooks[phase][i] = s[k]
        BY <2>1, <3>1, <3>3, <4>2 DEF OInv, RunInv
      <4>3. CASE phase = "start" /\ s[k] > nhooks
        <5>1. k \in 1..Len(s)
          BY <1>t
        <5>2. ran[j] \in Int /\ s[k] \in Int
          BY <1>t, <5>1, HookNumbers
        <5>3. ran[j] <= nhooks
          BY DEF OInv, ListInv
        <5> QED
          BY <1>3, <4>3, <5>2, <5>3 DEF InOrder
      <4> QED
        BY <1>t, <3>3, <4>1, <4>2, <4>3
    <3>4. ASSUME "remove" \notin edits', NEW j \in 1..Len(plan)
          PROVE  \/ \E k \in 1..Len(ran) : ran[k] = plan[j]
                 \/ \E k \in run.i + 1..Len(s) : s[k] = plan[j]
      <4>1. edit = "add" /\ "remove" \notin edits
        BY <3>1, <3>4
      <4>2. \/ \E k \in 1..Len(ran) : ran[k] = plan[j]
            \/ \E k \in run.i + 1..Len(hooks[phase]) : hooks[phase][k] = plan[j]
        BY <2>1, <3>4, <4>1 DEF OInv, RunInv
      <4>3. ASSUME NEW k \in run.i + 1..Len(hooks[phase]), hooks[phase][k] = plan[j]
            PROVE  \E h \in run.i + 1..Len(s) : s[h] = plan[j]
        <5>1. \E h \in run.i + 1..Len(s) : s[h] = hooks[phase][k]
          BY <1>t, <4>1
        <5> QED
          BY <4>3, <5>1
      <4> QED
        BY <4>2, <4>3
    <3>5. edits' # {}
      BY <3>1
    <3> QED
      BY <1>1, <2>1, <3>1, <3>2, <3>3, <3>4, <3>5 DEF RunInv
  <2>2. CASE Active /\ run.phase # phase
    BY <1>1, <1>2, <1>t, <2>2 DEF OInv, RunInv, Active
  <2>3. CASE ~Active
    BY <1>1, <2>3 DEF RunInv, Active
  <2> QED
    BY <2>1, <2>2, <2>3
<1>6. CompleteRun'
  BY <1>1 DEF OInv, CompleteRun, Active
<1>7. RunOrder'
  BY <1>1 DEF OInv, RunOrder
<1> QED
  BY <1>4, <1>5, <1>6, <1>7 DEF OInv

\* Lists are edited as EditOInv asks.
LEMMA EditsOInv ==
  ASSUME OInv, TypeOK', OnStart \/ OnStop \/ \E phase \in Phase : RemoveHook(phase)
  PROVE  OInv'
<1>t. nhooks \in Nat /\ \A p \in Phase : hooks[p] \in Seq(HookId)
  BY DEF OInv, TypeOK
<1>n. ASSUME NEW p \in Phase, NEW k \in 1..Len(hooks[p])
      PROVE  hooks[p][k] \in Int /\ hooks[p][k] <= nhooks
  BY <1>t, HookNumbers DEF OInv, ListInv
<1>1. CASE OnStart
  <2> DEFINE old == hooks["start"]
             s == Append(old, nhooks + 1)
  <2>1. /\ "start" \in Phase /\ old \in Seq(HookId)
        /\ nhooks' = nhooks + 1 /\ EditHooks("start", "add", s)
    BY <1>1, <1>t DEF OnStart, Phase
  <2>2. nhooks + 1 \in HookId
    BY <1>1, <1>t, MaxHooksAssumption DEF OnStart, HookId
  <2>3. /\ s \in Seq(HookId) /\ Len(s) = Len(old) + 1 /\ s[Len(old) + 1] = nhooks + 1
        /\ \A k \in 1..Len(old) : s[k] = old[k]
    BY <2>1, <2>2, AppendProperties
  <2>4. \A k \in 1..Len(old) : old[k] \in Int /\ old[k] <= nhooks
    BY <1>n, <2>1
  <2>5. \A j, k \in 1..Len(old) : j < k => InOrder("start", old[j], old[k])
    BY <2>1 DEF OInv, ListInv
  <2> HIDE DEF old, s
  <2>6. Len(old) \in Nat
    BY <2>1
  <2>7. \A k \in 1..Len(s) : s[k] <= nhooks'
    BY <1>t, <2>1, <2>3, <2>4, <2>6
  <2>8. ASSUME NEW j \in 1..Len(s), NEW k \in 1..Len(s), j < k
        PROVE  InOrder("start", s[j], s[k])
    <3>1. j \in 1..Len(old) /\ s[j] = old[j]
      BY <2>3, <2>6, <2>8
    <3>2. CASE k \in 1..Len(old)
      BY <2>3, <2>5, <2>8, <3>1, <3>2
    <3>3. CASE k = Len(old) + 1
      BY <1>t, <2>3, <2>4, <3>1, <3>3 DEF InOrder
    <3> QED
      BY <2>3, <2>6, <3>2, <3>3
  <2>9. \A i \in Nat : \A k \in i + 1..Len(s) :
          \/ \E j \in i + 1..Len(old) : old[j] = s[k]
          \/ "start" = "start" /\ s[k] > nhooks
    BY <1>t, <2>3, <2>6
  <2>10. \A i \in Nat : \A k \in i + 1..Len(old) : \E j \in i + 1..Len(s) : s[j] = old[k]
    BY <2>3, <2>6
  <2> QED
    BY <2>1, <2>3, <2>7, <2>8, <2>9, <2>10, EditOInv DEF old
<1>2. CASE OnStop
  <2> DEFINE old == hooks["stop"]
             new == <<nhooks + 1>>
             s == new \o old
  <2>1. /\ "stop" \in Phase /\ old \in Seq(HookId)
        /\ nhooks' = nhooks + 1 /\ EditHooks("stop", "add", s)
    BY <1>2, <1>t DEF OnStop, Phase
  <2>2. nhooks + 1 \in HookId
    BY <1>2, <1>t, MaxHooksAssumption DEF OnStop, HookId
  <2>a. new \in Seq(HookId) /\ Len(new) = 1 /\ new[1] = nhooks + 1
    BY <2>2
  <2>4. \A k \in 1..Len(old) : old[k] \in Int /\ old[k] <= nhooks
    BY <1>n, <2>1
  <2>5. \A j, k \in 1..Len(old) : j < k => InOrder("stop", old[j], old[k])
    BY <2>1 DEF OInv, ListInv
  <2> HIDE DEF old, new
  <2>6. Len(old) \in Nat
    BY <2>1
  <2>b. /\ s \in Seq(HookId) /\ Len(s) = Len(new) + Len(old)
        /\ \A k \in 1..Len(new) + Len(old) :
             s[k] = IF k <= Len(new) THEN new[k] ELSE old[k - Len(new)]
    BY <2>1, <2>a, ConcatProperties
  <2> HIDE DEF s
  <2>3. /\ s \in Seq(HookId) /\ Len(s) = Len(old) + 1 /\ s[1] = nhooks + 1
        /\ \A k \in 1..Len(old) : s[k + 1] = old[k]
        /\ \A k \in 2..Len(s) : k - 1 \in 1..Len(old) /\ s[k] = old[k - 1]
    BY <2>a, <2>b, <2>6
  <2>7. \A k \in 1..Len(s) : s[k] <= nhooks'
    <3> TAKE k \in 1..Len(s)
    <3>1. CASE k = 1
      BY <1>t, <2>1, <2>3, <3>1
    <3>2. CASE k # 1
      <4>1. k \in 2..Len(s)
        BY <2>3, <2>6, <3>2
      <4>2. k - 1 \in 1..Len(old) /\ s[k] = old[k - 1]
        BY <2>3, <4>1
      <4> QED
        BY <1>t, <2>1, <2>4, <4>2
    <3> QED
      BY <3>1, <3>2
  <2>8. ASSUME NEW j \in 1..Len(s), NEW k \in 1..Len(s), j < k
        PROVE  InOrder("stop", s[j], s[k])
    <3>1. k \in 2..Len(s)
      BY <2>3, <2>6, <2>8
    <3>2. CASE j = 1
      BY <1>t, <2>3, <2>4, <3>1, <3>2 DEF InOrder
    <3>3. CASE j # 1
      <4>1. j \in 2..Len(s) /\ j - 1 < k - 1
        BY <2>3, <2>6, <2>8, <3>3
      <4> QED
        BY <2>3, <2>5, <3>1, <4>1
    <3> QED
      BY <3>2, <3>3
  <2>10. \A i \in Nat : \A k \in i + 1..Len(old) : \E j \in i + 1..Len(s) : s[j] = old[k]
    <3> TAKE i \in Nat
    <3> TAKE k \in i + 1..Len(old)
    <3>1. k \in 1..Len(old) /\ k + 1 \in i + 1..Len(s)
      BY <2>3, <2>6
    <3> QED
      BY <2>3, <3>1
  <2> QED
    BY <2>1, <2>3, <2>7, <2>8, <2>10, EditOInv DEF old
<1>3. ASSUME NEW phase \in Phase, RemoveHook(phase) PROVE OInv'
  <2> DEFINE old == hooks[phase]
  <2>1. PICK at \in 1..Len(old) : EditHooks(phase, "remove", RemoveAt(old, at))
    BY <1>3 DEF RemoveHook
  <2> DEFINE s == RemoveAt(old, at)
  <2>2. old \in Seq(HookId) /\ Len(old) \in Nat
    BY <1>t
  <2>3. /\ s \in Seq(HookId) /\ Len(s) = Len(old) - 1
        /\ \A k \in 1..Len(old) - 1 : s[k] = IF k < at THEN old[k] ELSE old[k + 1]
    BY <2>2, RemoveAtType, RemoveAtElements
  <2>4. \A k \in 1..Len(old) : old[k] <= nhooks
    BY <1>n
  <2>5. \A j, k \in 1..Len(old) : j < k => InOrder(phase, old[j], old[k])
    BY DEF OInv, ListInv
  <2>6. nhooks' = nhooks /\ EditHooks(phase, "remove", s)
    BY <1>3, <2>1 DEF RemoveHook
  <2> HIDE DEF old, s
  <2>7. \A k \in 1..Len(s) : s[k] <= nhooks'
    BY <2>2, <2>3, <2>4, <2>6
  <2>8. ASSUME NEW j \in 1..Len(s), NEW k \in 1..Len(s), j < k
        PROVE  InOrder(phase, s[j], s[k])
    <3>1. /\ {j, j + 1, k, k + 1} \subseteq 1..Len(old)
          /\ s[j] = IF j < at THEN old[j] ELSE old[j + 1]
          /\ s[k] = IF k < at THEN old[k] ELSE old[k + 1]
      BY <2>2, <2>3
    <3> QED
      BY <2>5, <2>8, <3>1
  <2>9. \A i \in Nat : \A k \in i + 1..Len(s) : \E j \in i + 1..Len(old) : old[j] = s[k]
    <3> TAKE i \in Nat
    <3> TAKE k \in i + 1..Len(s)
    <3>1. k \in 1..Len(old) - 1 /\ {k, k + 1} \subseteq i + 1..Len(old)
      BY <2>2, <2>3
    <3> QED
      BY <2>3, <3>1
  <2> QED
    BY <2>3, <2>6, <2>7, <2>8, <2>9, EditOInv DEF old
<1> QED
  BY <1>1, <1>2, <1>3

\* The loop calls the first hook that is left.
LEMMA NextHookOInv == ASSUME OInv, TypeOK', NextHook PROVE OInv'
<1> DEFINE list == hooks[run.phase]
           h == list[run.i + 1]
<1>1. /\ Active /\ run.i < Len(list)
      /\ run'.phase = run.phase /\ run'.i = run.i + 1
      /\ ran' = Append(ran, h) /\ UNCHANGED <<state, hooks, nhooks, plan, edits>>
  BY DEF NextHook, AtLoopHead, OInv, TypeOK
<1>2. /\ run.phase \in Phase /\ run.i \in Nat /\ ran \in Seq(HookId)
      /\ list \in Seq(HookId) /\ Len(list) \in Nat /\ Len(ran) \in Nat
  BY DEF OInv, TypeOK
<1>3. run.i + 1 \in 1..Len(list) /\ h \in HookId
  BY <1>1, <1>2
<1>4. /\ Len(ran') = Len(ran) + 1 /\ ran'[Len(ran) + 1] = h
      /\ \A k \in 1..Len(ran) : ran'[k] = ran[k]
  BY <1>1, <1>2, <1>3, AppendProperties
<1>5. h <= nhooks /\ \A k \in run.i + 2..Len(list) : InOrder(run.phase, h, list[k])
  BY <1>2, <1>3 DEF OInv, ListInv
<1>6. /\ state = Doing(run.phase)
      /\ run.phase = "start" \/ "add" \notin edits =>
           \A j \in 1..Len(ran), k \in run.i + 1..Len(list) :
             InOrder(run.phase, ran[j], list[k])
      /\ edits = {} => /\ list = plan /\ run.i <= Len(plan)
                       /\ Len(ran) = run.i /\ \A k \in 1..run.i : ran[k] = plan[k]
      /\ "remove" \notin edits =>
           \A j \in 1..Len(plan) :
             \/ \E k \in 1..Len(ran) : ran[k] = plan[j]
             \/ \E k \in run.i + 1..Len(list) : list[k] = plan[j]
  BY <1>1 DEF OInv, RunInv
<1>l. hooks'[run'.phase] = list /\ Active'
  BY <1>1 DEF Active
<1> HIDE DEF list, h
<1>7. ListInv'
  <2>1. \A k \in 1..Len(ran') : ran'[k] <= nhooks'
    BY <1>1, <1>2, <1>4, <1>5 DEF OInv, ListInv
  <2> QED
    BY <1>1, <2>1 DEF OInv, ListInv
<1>8. RunInv'
  <2>1. ASSUME run.phase = "start" \/ "add" \notin edits,
               NEW j \in 1..Len(ran'), NEW k \in run.i + 2..Len(list)
        PROVE  InOrder(run.phase, ran'[j], list[k])
    <3>1. CASE j \in 1..Len(ran)
      BY <1>2, <1>4, <1>6, <2>1, <3>1
    <3>2. CASE j = Len(ran) + 1
      BY <1>4, <1>5, <3>2
    <3> QED
      BY <1>2, <1>4, <3>1, <3>2
  <2>2. ASSUME edits = {}
        PROVE  /\ list = plan /\ run.i + 1 <= Len(plan) /\ Len(ran') = run.i + 1
               /\ \A k \in 1..run.i + 1 : ran'[k] = plan[k]
    BY <1>1, <1>2, <1>4, <1>6, <2>2 DEF h
  <2>3. ASSUME "remove" \notin edits, NEW j \in 1..Len(plan)
        PROVE  \/ \E k \in 1..Len(ran') : ran'[k] = plan[j]
               \/ \E k \in run.i + 2..Len(list) : list[k] = plan[j]
    <3>1. CASE \E k \in 1..Len(ran) : ran[k] = plan[j]
      BY <1>2, <1>4, <3>1
    <3>2. CASE \E k \in run.i + 1..Len(list) : list[k] = plan[j]
      <4>1. PICK k \in run.i + 1..Len(list) : list[k] = plan[j]
        BY <3>2
      <4>2. CASE k = run.i + 1
        BY <1>2, <1>4, <4>1, <4>2 DEF h
      <4>3. CASE k # run.i + 1
        BY <1>2, <4>1, <4>3
      <4> QED
        BY <4>2, <4>3
    <3> QED
      BY <1>6, <2>3, <3>1, <3>2
  <2>4. state' = Doing(run'.phase)
    BY <1>1, <1>6
  <2>5. run.i + 1 + 1 = run.i + 2
    BY <1>2
  <2> QED
    BY <1>1, <1>l, <2>1, <2>2, <2>3, <2>4, <2>5 DEF RunInv
<1>9. CompleteRun'
  BY <1>1 DEF CompleteRun, Active
<1>10. RunOrder'
  <2> SUFFICES ASSUME NEW i \in 1..Len(ran'), NEW j \in 1..Len(ran'), i < j
               PROVE  \/ run.phase = "start" /\ ran'[i] < ran'[j]
                      \/ run.phase = "stop" /\ (ran'[i] > ran'[j] \/ "add" \in edits)
    BY <1>1 DEF RunOrder
  <2>1. i \in 1..Len(ran) /\ ran'[i] = ran[i]
    BY <1>2, <1>4
  <2>2. CASE j \in 1..Len(ran)
    BY <1>4, <2>1, <2>2 DEF OInv, RunOrder
  <2>3. CASE j = Len(ran) + 1
    <3>1. run.phase = "start" \/ "add" \notin edits => InOrder(run.phase, ran[i], h)
      <4>1. run.i + 1 \in run.i + 1..Len(list)
        BY <1>2, <1>3
      <4> QED
        BY <1>6, <2>1, <4>1 DEF h
    <3> QED
      BY <1>2, <1>4, <2>1, <2>3, <3>1 DEF InOrder, Phase
  <2> QED
    BY <1>2, <1>4, <2>2, <2>3
<1> QED
  BY <1>7, <1>8, <1>9, <1>10 DEF OInv

\* A run that is through its list has called all of it.
LEMMA FinishOInv == ASSUME OInv, TypeOK', Finish PROVE OInv'
<1>1. /\ Active /\ run.i >= Len(hooks[run.phase]) /\ state' = Done(run.phase)
      /\ UNCHANGED <<hooks, nhooks, run, ran, plan, edits>>
  BY DEF Finish, Announce, AtLoopHead
<1>2. /\ run.phase \in Phase /\ run.i \in Nat /\ Len(hooks[run.phase]) \in Nat
      /\ ran \in Seq(HookId) /\ plan \in Seq(HookId)
  BY DEF OInv, TypeOK
<1>3. ListInv' /\ RunOrder'
  BY <1>1 DEF OInv, ListInv, RunOrder
<1>4. RunInv'
  BY <1>1 DEF RunInv, Active, Done
<1>5. edits = {} => ran = plan
  <2>1. edits = {} => Len(ran) = Len(plan) /\ \A k \in 1..Len(plan) : ran[k] = plan[k]
    BY <1>1, <1>2 DEF OInv, RunInv
  <2> QED
    BY <1>2, <2>1, SeqEqual
<1>6. "remove" \notin edits => ToSet(plan) \subseteq ToSet(ran)
  <2>1. ASSUME "remove" \notin edits, NEW j \in 1..Len(plan)
        PROVE  \E k \in 1..Len(ran) : ran[k] = plan[j]
    BY <1>1, <1>2, <2>1 DEF OInv, RunInv
  <2> QED
    BY <1>2, <2>1 DEF ToSet
<1>7. CompleteRun'
  BY <1>1, <1>5, <1>6 DEF CompleteRun
<1> QED
  BY <1>3, <1>4, <1>7 DEF OInv

\* Every operation keeps the order of the lists and the place of the run in them.
LEMMA NextOInv == OInv /\ IInv /\ [Next]_vars => OInv'
<1> SUFFICES ASSUME OInv, IInv, [Next]_vars PROVE OInv'
  OBVIOUS
<1>t. TypeOK'
  BY NextIInv DEF IInv
<1>r. run.i \in Nat /\ run.phase \in Phase
  BY DEF OInv, TypeOK
<1>1. CASE OnStart \/ OnStop \/ \E phase \in Phase : RemoveHook(phase)
  BY <1>t, <1>1, EditsOInv
<1>2. ASSUME NEW c \in Callers,
             Start(c) \/ Stop(c) \/ Restart(c) \/ Signal(c) \/ Crash(c)
      PROVE  OInv'
  BY <1>2, InvokeOInv DEF Start, Stop, Restart, Signal, Crash, Phase
<1>3. ASSUME NEW c \in Callers, Resume(c) PROVE OInv'
  <2>1. CASE Invoke(c, "restart", "start")
    BY <2>1, InvokeOInv DEF Phase
  <2>2. CASE UNCHANGED <<state, hooks, nhooks, run, ran, plan, edits>>
    BY <1>t, <2>2, SameRun
  <2> QED
    BY <1>3, <2>1, <2>2 DEF Resume, Exit
<1>4. CASE NextHook
  BY <1>t, <1>4, NextHookOInv
<1>5. CASE Finish
  BY <1>t, <1>5, FinishOInv
<1>6. CASE Leave \/ Fail \/ AssignPromise \/ HookTimeout
  <2>1. /\ UNCHANGED <<hooks, nhooks, ran, plan, edits>>
        /\ run'.phase = run.phase /\ run'.i = run.i /\ state' \in {state, "error"}
    BY <1>6 DEF Leave, Fail, AssignPromise, HookTimeout, OInv, TypeOK
  <2> QED
    BY <1>t, <2>1, SameRun
<1>7. ASSUME NEW h \in HookId, NEW r \in {"ok", "err"}, HandlerSettles(h, r) PROVE OInv'
  <2>1. /\ UNCHANGED <<state, hooks, nhooks, ran, plan, edits>>
        /\ run'.phase = run.phase /\ run'.i = run.i
    BY <1>7 DEF HandlerSettles, OInv, TypeOK
  <2> QED
    BY <1>t, <2>1, SameRun
<1>8. CASE UNCHANGED vars
  BY <1>t, <1>8, SameRun DEF vars
<1> QED
  BY <1>1, <1>2, <1>3, <1>4, <1>5, <1>6, <1>7, <1>8 DEF Next

\* OInv is an invariant.
LEMMA OrderInvariance == Spec => []OInv
<1>1. Init => OInv
  BY InitTypeOK DEF OInv, Init, ListInv, RunInv, Active, CompleteRun, RunOrder
<1> QED
  BY <1>1, NextOInv, Invariance, PTL DEF Spec

\* A run that ends well has called exactly the hooks its list held when it began,
\* in their order, unless the list was edited under it, and skipped none of them
\* unless one was removed.
THEOREM RunsAreComplete == Spec => []CompleteRun
<1>1. OInv => CompleteRun
  BY DEF OInv
<1> QED
  BY <1>1, OrderInvariance, PTL

\* Start hooks are called in the order of registration, stop hooks in the reverse
\* one, each once, but for stop hooks that are added while the manager stops.
THEOREM HooksInOrder == Spec => []RunOrder
<1>1. OInv => RunOrder
  BY DEF OInv
<1> QED
  BY <1>1, OrderInvariance, PTL
-----------------------------------------------------------------------------
(* What callers are told.                                                  *)

\* A caller waits for the run under way, which is of the phase it asked for, or
\* for one run that is leaving, which has brought what the caller is owed.  One
\* promise at most of those runs is in the field of a phase.
WaitInv ==
  /\ Active => state = Doing(run.phase)
  /\ \A c \in Awaiting : Active /\ call[c].phase = run.phase
  /\ \A k \in 1..Len(leaving) : \A c \in leaving[k].wait :
       call[c].pc = "wait" /\ c \notin owed
  /\ \A j, k \in 1..Len(leaving) : j < k =>
       /\ leaving[j].wait \intersect leaving[k].wait = {}
       /\ \A p \in Phase : ~(Kept(p, leaving[j]) /\ Kept(p, leaving[k]))

OutcomeInv == WaitInv /\ TruthfulOutcome

\* The runs on the stack.
LEMMA LeavingFrames ==
  ASSUME TypeOK
  PROVE  /\ leaving \in Seq(Frame) /\ Len(leaving) \in Nat
         /\ \A k \in 1..Len(leaving) : /\ leaving[k] \in Frame
                                       /\ leaving[k].wait \subseteq Callers
<1>1. leaving \in Seq(Frame)
  BY DEF TypeOK, Frame
<1>2. \A k \in 1..Len(leaving) : leaving[k] \in Frame
  BY <1>1
<1>3. \A g \in Frame : g.wait \subseteq Callers
  BY DEF Frame
<1> QED
  BY <1>1, <1>2, <1>3

\* A step that tells nobody and moves nobody.
LEMMA QuietTells ==
  ASSUME OutcomeInv, UNCHANGED <<state, call, leaving, owed>>, run'.phase = run.phase
  PROVE  OutcomeInv'
BY DEF OutcomeInv, WaitInv, TruthfulOutcome, Awaiting, Active, Kept

\* A free caller is answered at once.
LEMMA ReturnTells ==
  ASSUME TypeOK, OutcomeInv, NEW c \in Callers, NEW phase \in Phase, NEW op,
         NEW r \in {"ok", "err"}, Return(c, op, phase, r), call[c].pc # "wait",
         owed' = Owing(c, phase), r = "ok" => owed' = owed \ {c}
  PROVE  OutcomeInv'
<1> DEFINE cl == Settled(Await(op, phase), r)
<1>1. /\ call' = [call EXCEPT ![c] = cl]
      /\ UNCHANGED <<state, run, leaving>>
  BY DEF Return
<1>2. cl.pc # "wait" /\ cl.res = r
  BY DEF Settled, Await
<1> HIDE DEF cl
<1>3. \A d \in Callers : call'[d] = IF d = c THEN cl ELSE call[d]
  BY <1>1 DEF TypeOK
<1>4. \A d \in Callers : d # c => (d \in owed' <=> d \in owed)
  BY DEF Owing
<1>5. Awaiting' = Awaiting
  BY <1>1, <1>2, <1>3 DEF Awaiting
<1>6. c \notin Awaiting /\ Awaiting \subseteq Callers
  BY DEF Awaiting
<1>7. \A k \in 1..Len(leaving) : c \notin leaving[k].wait /\ leaving[k].wait \subseteq Callers
  BY LeavingFrames DEF OutcomeInv, WaitInv
<1>8. WaitInv'
  BY <1>1, <1>3, <1>4, <1>5, <1>6, <1>7 DEF OutcomeInv, WaitInv, Active, Kept
<1>9. TruthfulOutcome'
  BY <1>2, <1>3, <1>4 DEF OutcomeInv, TruthfulOutcome
<1> QED
  BY <1>8, <1>9 DEF OutcomeInv

\* A free caller joins the run under way, or one that is leaving.
LEMMA JoinTells ==
  ASSUME TypeOK, OutcomeInv, NEW c \in Callers, NEW phase \in Phase, NEW op,
         state = Doing(phase), Join(c, op, phase), call[c].pc # "wait",
         owed' = Owing(c, phase)
  PROVE  OutcomeInv'
<1>1. Active /\ phase = run.phase
  BY DEF OutcomeInv, WaitInv, Active, Doing, Phase, TypeOK
<1>2. CASE promise[phase] # "pending"
  <2>1. ~Held
    BY <1>1, <1>2 DEF Held
  <2>2. owed' = owed \ {c}
    BY <2>1 DEF Owing
  <2>3. Return(c, op, phase, "ok") \/ Return(c, op, phase, "err")
    BY <1>2 DEF Join
  <2> QED
    BY <2>2, <2>3, ReturnTells
<1>3. CASE promise[phase] = "pending"
  <2> DEFINE aw == Await(op, phase)
             n == Len(leaving)
             old(k) == leaving[k].wait
             new(k) == IF Kept(phase, leaving[k]) THEN old(k) \union {c} ELSE old(k)
  <2>1. /\ UNCHANGED <<state, run>>
        /\ call' = [call EXCEPT ![c] = aw]
        /\ leaving' = [k \in 1..n |-> [leaving[k] EXCEPT !.wait = new(k)]]
    BY <1>3 DEF Join, Return
  <2>2. aw.pc = "wait" /\ aw.phase = phase
    BY DEF Await
  <2> HIDE DEF aw
  <2>3. \A d \in Callers : call'[d] = IF d = c THEN aw ELSE call[d]
    BY <2>1 DEF TypeOK
  <2>4. n \in Nat /\ \A k \in 1..n : leaving[k] \in Frame
    BY LeavingFrames
  <2>5. Len(leaving') = n
    BY <2>1, <2>4
  <2>6. \A k \in 1..n : /\ leaving'[k].wait = new(k)
                        /\ \A p \in Phase : Kept(p, leaving'[k]) <=> Kept(p, leaving[k])
    <3> SUFFICES ASSUME NEW k \in 1..n
                 PROVE  /\ leaving'[k].wait = new(k)
                        /\ \A p \in Phase : Kept(p, leaving'[k]) <=> Kept(p, leaving[k])
      OBVIOUS
    <3>1. leaving'[k] = [leaving[k] EXCEPT !.wait = new(k)] /\ leaving[k] \in Frame
      BY <2>1, <2>4
    <3> HIDE DEF new
    <3> QED
      BY <3>1 DEF Frame, Kept
  <2>7. \A d \in Callers : d # c => (d \in owed' <=> d \in owed)
    BY DEF Owing
  <2>8. \A k \in 1..n : c \notin old(k) /\ old(k) \subseteq Callers
    BY <2>4 DEF OutcomeInv, WaitInv, Frame
  <2>9. \A k \in 1..n : Kept(phase, leaving[k]) => c \notin owed'
    <3>1. (\E k \in 1..n : Kept(phase, leaving[k])) => ~Held
      BY <1>1 DEF Held
    <3> QED
      BY <3>1 DEF Owing
  <2>10. \A d \in Awaiting' : d = c \/ d \in Awaiting
    <3> SUFFICES ASSUME NEW d \in Awaiting', d # c PROVE d \in Awaiting
      OBVIOUS
    <3>1. d \in Callers /\ call[d].pc = "wait" /\ \A k \in 1..n : d \notin leaving'[k].wait
      BY <2>3, <2>5 DEF Awaiting
    <3>2. \A k \in 1..n : d \notin leaving[k].wait
      BY <2>6, <3>1
    <3> QED
      BY <3>1, <3>2 DEF Awaiting
  <2>11. \A d \in Awaiting' : Active' /\ call'[d].phase = run'.phase
    <3>1. Active' /\ run'.phase = phase
      BY <1>1, <2>1 DEF Active
    <3>2. \A d \in Awaiting : d \in Callers /\ call[d].phase = phase
      BY <1>1 DEF OutcomeInv, WaitInv, Awaiting
    <3>3. \A d \in Callers : (d = c \/ call[d].phase = phase) => call'[d].phase = phase
      BY <2>2, <2>3
    <3> QED
      BY <2>10, <3>1, <3>2, <3>3
  <2>12. \A k \in 1..n : \A d \in leaving'[k].wait : call'[d].pc = "wait" /\ d \notin owed'
    <3> SUFFICES ASSUME NEW k \in 1..n, NEW d \in leaving'[k].wait
                 PROVE  call'[d].pc = "wait" /\ d \notin owed'
      OBVIOUS
    <3>1. CASE d \in old(k)
      <4>1. d # c /\ d \in Callers /\ call[d].pc = "wait" /\ d \notin owed
        BY <2>8, <3>1 DEF OutcomeInv, WaitInv
      <4> QED
        BY <2>3, <2>7, <4>1
    <3>2. CASE d = c /\ Kept(phase, leaving[k])
      BY <2>2, <2>3, <2>9, <3>2
    <3> QED
      BY <2>6, <3>1, <3>2
  <2>13. ASSUME NEW j \in 1..n, NEW k \in 1..n, j < k
         PROVE  /\ leaving'[j].wait \intersect leaving'[k].wait = {}
                /\ \A p \in Phase : ~(Kept(p, leaving'[j]) /\ Kept(p, leaving'[k]))
    <3>1. /\ old(j) \intersect old(k) = {}
          /\ \A p \in Phase : ~(Kept(p, leaving[j]) /\ Kept(p, leaving[k]))
      BY <2>13 DEF OutcomeInv, WaitInv
    <3>2. ~(Kept(phase, leaving[j]) /\ Kept(phase, leaving[k]))
      BY <3>1
    <3>3. new(j) \intersect new(k) = {}
      BY <2>8, <3>1, <3>2
    <3> QED
      BY <2>6, <3>1, <3>3
  <2>14. WaitInv'
    BY <2>1, <2>5, <2>11, <2>12, <2>13 DEF OutcomeInv, WaitInv, Active
  <2>15. TruthfulOutcome'
    BY <2>2, <2>3, <2>7 DEF OutcomeInv, TruthfulOutcome
  <2> QED
    BY <2>14, <2>15 DEF OutcomeInv
<1> QED
  BY <1>2, <1>3

\* A free caller begins a run, which it is the first to await.
LEMMA BeginTells ==
  ASSUME TypeOK, OutcomeInv, NEW c \in Callers, NEW phase \in Phase, NEW op,
         CanBegin(phase), Begin(c, op, phase), call[c].pc # "wait",
         owed' = Owing(c, phase)
  PROVE  OutcomeInv'
<1> DEFINE aw == Await(op, phase)
<1>1. /\ state' = Doing(phase) /\ run'.phase = phase /\ leaving' = leaving
      /\ call' = [call EXCEPT ![c] = aw]
  BY DEF Begin
<1>2. aw.pc = "wait" /\ aw.phase = phase
  BY DEF Await
<1> HIDE DEF aw
<1>3. \A d \in Callers : call'[d] = IF d = c THEN aw ELSE call[d]
  BY <1>1 DEF TypeOK
<1>4. Active' /\ Awaiting = {}
  BY <1>1 DEF Active, Doing, CanBegin, OutcomeInv, WaitInv
<1>5. \A d \in Awaiting' : d = c
  BY <1>1, <1>3, <1>4 DEF Awaiting
<1>6. \A d \in Callers : d # c => (d \in owed' <=> d \in owed)
  BY DEF Owing
<1>7. \A k \in 1..Len(leaving) : c \notin leaving[k].wait /\ leaving[k].wait \subseteq Callers
  BY LeavingFrames DEF OutcomeInv, WaitInv
<1>8. WaitInv'
  BY <1>1, <1>2, <1>3, <1>4, <1>5, <1>6, <1>7 DEF OutcomeInv, WaitInv, Kept
<1>9. TruthfulOutcome'
  BY <1>2, <1>3, <1>6 DEF OutcomeInv, TruthfulOutcome
<1> QED
  BY <1>8, <1>9 DEF OutcomeInv

\* start() and stop(), whoever calls them.
LEMMA InvokeTells ==
  ASSUME TypeOK, OutcomeInv, NEW c \in Callers, NEW phase \in Phase,
         NEW op \in {"start", "stop", "restart", "signal", "crash"},
         call[c].pc # "wait", Invoke(c, op, phase)
  PROVE  OutcomeInv'
<1>1. owed' = Owing(c, phase)
  BY DEF Invoke
<1>2. CASE state = Done(phase) /\ Return(c, op, phase, "ok")
  <2>1. owed' = owed \ {c}
    BY <1>1, <1>2 DEF Owing
  <2> QED
    BY <1>1, <1>2, <2>1, ReturnTells
<1>3. CASE state = Doing(phase) /\ Join(c, op, phase)
  BY <1>1, <1>3, JoinTells
<1>4. CASE CanBegin(phase) /\ Begin(c, op, phase)
  BY <1>1, <1>4, BeginTells
<1>5. CASE Return(c, op, phase, "err")
  BY <1>1, <1>5, ReturnTells
<1> QED
  BY <1>2, <1>3, <1>4, <1>5 DEF Invoke

\* A run that ends well takes those who await it to its listeners.
LEMMA FinishTells == ASSUME TypeOK, OutcomeInv, Finish PROVE OutcomeInv'
<1> DEFINE n == Len(leaving)
           f == [phase |-> run.phase, wait |-> Awaiting,
                 field |-> IF entering THEN "unset" ELSE IF Held THEN "held" ELSE "lost"]
<1>1. /\ state' = Done(run.phase) /\ UNCHANGED <<call, run>>
      /\ leaving' = Append(leaving, f)
      /\ owed' = {c \in owed : call[c].pc # "wait" \/ call[c].phase # run.phase}
  BY DEF Finish, Announce
<1>2. f.wait = Awaiting /\ \A p \in Phase : Kept(p, f) => p = run.phase /\ Held
  BY DEF Kept
<1>3. leaving \in Seq(Frame) /\ f \in Frame
  BY DEF TypeOK, Frame, Awaiting
<1> HIDE DEF f
<1>4. /\ Len(leaving') = n + 1 /\ n \in Nat /\ leaving'[n + 1] = f
      /\ \A k \in 1..n : leaving'[k] = leaving[k]
  BY <1>1, <1>3, AppendProperties
<1>5. Awaiting' = {}
  <2> SUFFICES ASSUME NEW d \in Awaiting' PROVE FALSE
    OBVIOUS
  <2>1. d \in Callers /\ call[d].pc = "wait" /\ \A k \in 1..n + 1 : d \notin leaving'[k].wait
    BY <1>1, <1>4 DEF Awaiting
  <2>2. d \in Awaiting
    BY <1>4, <2>1 DEF Awaiting
  <2> QED
    BY <1>2, <1>4, <2>1, <2>2
<1>6. ~Active'
  BY <1>1 DEF Active, Done
<1>7. ASSUME NEW k \in 1..n + 1, NEW d \in leaving'[k].wait
      PROVE  call'[d].pc = "wait" /\ d \notin owed'
  <2>1. CASE k \in 1..n
    BY <1>1, <1>4, <2>1, <1>7 DEF OutcomeInv, WaitInv
  <2>2. CASE k = n + 1
    BY <1>1, <1>2, <1>4, <2>2, <1>7 DEF OutcomeInv, WaitInv, Awaiting
  <2> QED
    BY <1>4, <2>1, <2>2
<1>8. ASSUME NEW j \in 1..n + 1, NEW k \in 1..n + 1, j < k
      PROVE  /\ leaving'[j].wait \intersect leaving'[k].wait = {}
             /\ \A p \in Phase : ~(Kept(p, leaving'[j]) /\ Kept(p, leaving'[k]))
  <2>1. j \in 1..n /\ leaving'[j] = leaving[j]
    BY <1>4, <1>8
  <2>2. CASE k \in 1..n
    BY <1>4, <1>8, <2>1, <2>2 DEF OutcomeInv, WaitInv
  <2>3. CASE k = n + 1
    <3>1. leaving'[k] = f
      BY <1>4, <2>3
    <3>2. leaving[j].wait \intersect Awaiting = {}
      BY <2>1 DEF Awaiting
    <3>3. \A p \in Phase : Kept(p, f) => ~Kept(p, leaving[j])
      BY <1>2, <2>1 DEF Held
    <3> QED
      BY <1>2, <2>1, <3>1, <3>2, <3>3
  <2> QED
    BY <1>4, <2>2, <2>3
<1>9. WaitInv'
  BY <1>4, <1>5, <1>6, <1>7, <1>8 DEF WaitInv
<1>10. TruthfulOutcome'
  BY <1>1 DEF OutcomeInv, TruthfulOutcome
<1> QED
  BY <1>9, <1>10 DEF OutcomeInv

\* Callers that are told.
LEMMA SettleTells ==
  ASSUME TypeOK, NEW W \in SUBSET Callers, NEW r \in {"ok", "err"}, call' = Settle(W, r)
  PROVE  /\ \A d \in Callers \ W : call'[d] = call[d]
         /\ \A d \in W : call'[d].pc \in {"done", "resume"} /\ call'[d].res = r
<1>1. \A d \in Callers : call'[d] = IF d \in W THEN Settled(call[d], r) ELSE call[d]
  BY DEF Settle
<1>2. \A d \in Callers : call[d] \in CallRecord
  BY DEF TypeOK, CallRecord
<1>3. ASSUME NEW cl \in CallRecord
      PROVE  Settled(cl, r).pc \in {"done", "resume"} /\ Settled(cl, r).res = r
  BY DEF Settled, CallRecord
<1> QED
  BY <1>1, <1>2, <1>3

\* The promise of a run settles, for those who await that run.
LEMMA LeaveTells == ASSUME TypeOK, OutcomeInv, Leave PROVE OutcomeInv'
<1> DEFINE n == Len(leaving)
           W == leaving[n].wait
           fs == Front(leaving)
<1>1. leaving \in Seq(Frame) /\ leaving # <<>>
  BY DEF TypeOK, Frame, Leave
<1>2. /\ n \in Nat \ {0} /\ Last(leaving) = leaving[n] /\ leaving[n] \in Frame
      /\ fs \in Seq(Frame) /\ Len(fs) = n - 1 /\ \A k \in 1..n - 1 : fs[k] = leaving[k]
  BY <1>1, FrontLastType
<1>3. W \in SUBSET Callers /\ leaving[n].phase \in Phase
  BY <1>2 DEF Frame
<1>4. /\ call' = Settle(W, "ok") /\ UNCHANGED <<state, run, owed>>
      /\ leaving' \in {Overwrite(leaving[n].phase, fs), fs}
  BY <1>2 DEF Leave
<1>5. /\ Len(leaving') = n - 1
      /\ \A k \in 1..n - 1 : leaving'[k].wait = leaving[k].wait
      /\ \A k \in 1..n - 1, p \in Phase : Kept(p, leaving'[k]) => Kept(p, leaving[k])
  <2>1. CASE leaving' = fs
    BY <1>2, <2>1
  <2>2. CASE leaving' = Overwrite(leaving[n].phase, fs)
    BY <1>2, <1>3, <2>2, OverwriteType, OverwriteKeeps
  <2> QED
    BY <1>4, <2>1, <2>2
<1>6. /\ \A d \in Callers \ W : call'[d] = call[d]
      /\ \A d \in W : call'[d].pc \in {"done", "resume"} /\ call'[d].res = "ok"
  BY <1>3, <1>4, SettleTells
<1>7. \A d \in W : d \notin owed
  BY <1>2 DEF OutcomeInv, WaitInv
<1>l. \A k \in 1..n - 1 : k \in 1..n /\ n \in 1..n /\ k < n
  BY <1>2
<1>8. \A k \in 1..n - 1 : leaving[k].wait \intersect W = {} /\ leaving[k].wait \subseteq Callers
  BY <1>l, LeavingFrames DEF OutcomeInv, WaitInv
<1> HIDE DEF W
<1>9. Awaiting' \subseteq Awaiting /\ Awaiting' \intersect W = {}
  <2> SUFFICES ASSUME NEW d \in Awaiting' PROVE d \in Awaiting /\ d \notin W
    OBVIOUS
  <2>1. d \in Callers /\ call'[d].pc = "wait" /\ \A k \in 1..n - 1 : d \notin leaving[k].wait
    BY <1>5 DEF Awaiting
  <2>2. d \notin W /\ call[d].pc = "wait"
    BY <1>6, <2>1
  <2>3. \A k \in 1..n : d \notin leaving[k].wait
    BY <1>2, <2>1, <2>2 DEF W
  <2> QED
    BY <2>1, <2>2, <2>3 DEF Awaiting
<1>10. WaitInv'
  <2>1. \A d \in Awaiting' : Active' /\ call'[d].phase = run'.phase
    <3>1. \A d \in Awaiting' : d \in Callers \ W /\ d \in Awaiting
      BY <1>9 DEF Awaiting
    <3> QED
      BY <1>4, <1>6, <3>1 DEF OutcomeInv, WaitInv, Active
  <2>2. \A k \in 1..n - 1 : \A d \in leaving'[k].wait : call'[d].pc = "wait" /\ d \notin owed'
    <3> SUFFICES ASSUME NEW k \in 1..n - 1, NEW d \in leaving[k].wait
                 PROVE  call'[d].pc = "wait" /\ d \notin owed
      BY <1>4, <1>5
    <3>1. d \in Callers \ W
      BY <1>8
    <3>2. call[d].pc = "wait" /\ d \notin owed
      BY <1>l DEF OutcomeInv, WaitInv
    <3> QED
      BY <1>6, <3>1, <3>2
  <2>3. \A j, k \in 1..n - 1 : j < k =>
          /\ leaving'[j].wait \intersect leaving'[k].wait = {}
          /\ \A p \in Phase : ~(Kept(p, leaving'[j]) /\ Kept(p, leaving'[k]))
    BY <1>l, <1>5 DEF OutcomeInv, WaitInv
  <2> QED
    BY <1>4, <1>5, <2>1, <2>2, <2>3 DEF OutcomeInv, WaitInv, Active
<1>11. TruthfulOutcome'
  BY <1>4, <1>6, <1>7 DEF OutcomeInv, TruthfulOutcome
<1> QED
  BY <1>10, <1>11 DEF OutcomeInv

\* A run that fails says so to those who await it.
LEMMA FailTells == ASSUME TypeOK, OutcomeInv, Fail PROVE OutcomeInv'
<1>1. /\ state' = "error" /\ call' = Settle(Awaiting, "err")
      /\ UNCHANGED <<run, leaving, owed>> /\ leaving = <<>>
  BY DEF Fail, Quiet
<1>2. Awaiting \in SUBSET Callers
  BY DEF Awaiting
<1>3. /\ \A d \in Callers \ Awaiting : call'[d] = call[d]
      /\ \A d \in Awaiting : call'[d].pc \in {"done", "resume"} /\ call'[d].res = "err"
  BY <1>1, <1>2, SettleTells
<1>4. Awaiting' = {}
  BY <1>1, <1>3 DEF Awaiting
<1>5. WaitInv'
  BY <1>1, <1>4 DEF WaitInv, Active
<1>6. TruthfulOutcome'
  BY <1>1, <1>3 DEF OutcomeInv, TruthfulOutcome
<1> QED
  BY <1>5, <1>6 DEF OutcomeInv

\* The promise of the run under way is handed out.
LEMMA AssignTells == ASSUME TypeOK, OutcomeInv, AssignPromise PROVE OutcomeInv'
<1>1. /\ UNCHANGED <<state, run, call, owed>>
      /\ leaving' = Overwrite(run.phase, leaving) /\ run.phase \in Phase
      /\ leaving \in Seq(Frame)
  BY DEF AssignPromise, TypeOK, Frame
<1>2. /\ Len(leaving') = Len(leaving)
      /\ \A k \in 1..Len(leaving) : leaving'[k].wait = leaving[k].wait
      /\ \A k \in 1..Len(leaving), p \in Phase : Kept(p, leaving'[k]) => Kept(p, leaving[k])
  BY <1>1, OverwriteType, OverwriteKeeps
<1>3. Awaiting' = Awaiting
  BY <1>1, <1>2 DEF Awaiting
<1>4. WaitInv'
  BY <1>1, <1>2, <1>3 DEF OutcomeInv, WaitInv, Active
<1>5. TruthfulOutcome'
  BY <1>1 DEF OutcomeInv, TruthfulOutcome
<1> QED
  BY <1>4, <1>5 DEF OutcomeInv

\* Every step keeps what callers wait for, and tells them what came true.
LEMMA NextTells == TypeOK /\ OutcomeInv /\ [Next]_vars => OutcomeInv'
<1> SUFFICES ASSUME TypeOK, OutcomeInv, [Next]_vars PROVE OutcomeInv'
  OBVIOUS
<1>1. CASE OnStart \/ OnStop \/ \E phase \in Phase : RemoveHook(phase)
  BY <1>1, QuietTells DEF OnStart, OnStop, RemoveHook, EditHooks
<1>2. ASSUME NEW c \in Callers,
             Start(c) \/ Stop(c) \/ Restart(c) \/ Signal(c) \/ Crash(c)
      PROVE  OutcomeInv'
  BY <1>2, InvokeTells DEF Start, Stop, Restart, Signal, Crash, Free, Phase
<1>3. ASSUME NEW c \in Callers, Resume(c) PROVE OutcomeInv'
  <2>1. CASE Invoke(c, "restart", "start")
    BY <1>3, <2>1, InvokeTells DEF Resume, Phase
  <2>2. CASE /\ call[c].res = "err" /\ call' = [call EXCEPT ![c].pc = "done"]
             /\ UNCHANGED <<state, run, leaving, owed>>
    <3>1. \A d \in Callers : IF d = c THEN call'[d].pc = "done" /\ call'[d].res = "err"
                             ELSE call'[d] = call[d]
      BY <2>2 DEF TypeOK
    <3>2. call[c].pc # "wait" /\ leaving = <<>>
      BY <1>3 DEF Resume, Quiet
    <3>3. \A d \in Awaiting' : d \in Awaiting /\ d # c
      BY <2>2, <3>1 DEF Awaiting
    <3>4. WaitInv'
      BY <2>2, <3>1, <3>2, <3>3 DEF OutcomeInv, WaitInv, Active, Awaiting
    <3>5. TruthfulOutcome'
      BY <2>2, <3>1 DEF OutcomeInv, TruthfulOutcome
    <3> QED
      BY <3>4, <3>5 DEF OutcomeInv
  <2>3. CASE UNCHANGED <<state, run, call, leaving, owed>>
    BY <2>3, QuietTells
  <2> QED
    BY <1>3, <2>1, <2>2, <2>3 DEF Resume, Exit
<1>4. CASE NextHook
  BY <1>4, QuietTells DEF NextHook, TypeOK
<1>5. CASE Finish
  BY <1>5, FinishTells
<1>6. CASE Leave
  BY <1>6, LeaveTells
<1>7. CASE Fail
  BY <1>7, FailTells
<1>8. CASE AssignPromise
  BY <1>8, AssignTells
<1>9. CASE HookTimeout \/ \E h \in HookId, r \in {"ok", "err"} : HandlerSettles(h, r)
  BY <1>9, QuietTells DEF HookTimeout, HandlerSettles, TypeOK
<1>10. CASE UNCHANGED vars
  BY <1>10, QuietTells DEF vars
<1> QED
  BY <1>1, <1>2, <1>3, <1>4, <1>5, <1>6, <1>7, <1>8, <1>9, <1>10 DEF Next

\* For any callers and any number of hooks, and whatever listeners do between the
\* end of a run and the settling of its promise: who is told that a start, a stop
\* or a restart succeeded has seen it come true, but for a caller that was handed
\* another promise than that of the run it found in progress.
THEOREM CallersAreToldTheTruth == Spec => []TruthfulOutcome
<1>1. Init => OutcomeInv
  BY DEF Init, NoCall, OutcomeInv, WaitInv, TruthfulOutcome, Awaiting, Active
<1>2. OutcomeInv => TruthfulOutcome
  BY DEF OutcomeInv
<1> QED
  BY <1>1, <1>2, NextTells, TypeCorrect, PTL DEF Spec
=============================================================================
