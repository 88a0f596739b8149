---------------------------- MODULE CircuitBreaker ----------------------------
(***************************************************************************)
(* CircuitBreakerStrategy of                                               *)
(* packages/error-core/src/strategies/circuit-breaker.ts: one breaker      *)
(* shared by callers whose calls overlap.  execute() looks at the state    *)
(* once, before it awaits the protected function, and the outcome is       *)
(* counted in whatever state the breaker is by then.                       *)
(*                                                                         *)
(* Time is the number of ticks left until nextAttemptTime.                 *)
(***************************************************************************)
EXTENDS Integers, TLAPS

CONSTANTS Callers,
          FailureThreshold,  \* options.failureThreshold
          HalfOpenMaxCalls,  \* options.halfOpenMaxCalls
          ResetTimeout,      \* options.resetTimeout, in ticks
          CountCap           \* bound: failureCount is not told apart above it

ASSUME BreakerAssumption ==
  /\ FailureThreshold \in Nat \ {0}
  /\ HalfOpenMaxCalls \in Nat \ {0}
  /\ ResetTimeout \in Nat \ {0}
  /\ CountCap \in Nat /\ CountCap >= FailureThreshold

VARIABLES state,         \* this.state
          failureCount,  \* this.failureCount, at most CountCap
          successCount,  \* this.successCount
          wait,          \* ticks until this.nextAttemptTime, NoTime if undefined
          running,       \* the callers whose function is being awaited
          healthy,       \* the protected service has recovered for good
          proven         \* history: successes counted since the last probe began

vars == <<state, failureCount, successCount, wait, running, healthy, proven>>

NoTime == -1

\* a + 1, counted up to cap
Inc(a, cap) == IF a < cap THEN a + 1 ELSE cap

Init ==
  /\ state = "closed"
  /\ failureCount = 0
  /\ successCount = 0
  /\ wait = NoTime
  /\ running = {}
  /\ healthy = FALSE
  /\ proven = 0

-----------------------------------------------------------------------------
ShouldAttemptReset == wait = 0

\* Mutant of BeginProbe: the successes of the last probe are kept.
BeginProbeKeepingCount ==
  /\ state = "open" /\ ShouldAttemptReset
  /\ state' = "half-open"
  /\ proven' = 0
  /\ UNCHANGED successCount

BeginProbe ==
  /\ state = "open" /\ ShouldAttemptReset
  /\ state' = "half-open"
  /\ successCount' = 0
  /\ proven' = 0

\* Mutant of Admit: every call admitted in half-open restarts the count.
AdmitRestarting ==
  \/ BeginProbe
  \/ /\ state # "open"
     /\ IF state = "half-open" THEN successCount' = 0 /\ proven' = 0
                              ELSE UNCHANGED <<successCount, proven>>
     /\ UNCHANGED state

\* what execute() does to the breaker before it calls the function
Admit ==
  \/ BeginProbe
  \/ state # "open" /\ UNCHANGED <<state, successCount, proven>>

\* execute() up to its await.  A call that finds the breaker open throws and
\* changes nothing.
Execute(c) ==
  /\ c \notin running
  /\ Admit
  /\ running' = running \union {c}
  /\ UNCHANGED <<failureCount, wait, healthy>>

\* Mutant of OnSuccess: one success too many is asked for.
OnSuccessOneMore ==
  /\ failureCount' = 0
  /\ IF state = "half-open"
     THEN /\ successCount' = successCount + 1
          /\ proven' = proven + 1
          /\ state' = IF successCount + 1 > HalfOpenMaxCalls THEN "closed" ELSE state
     ELSE UNCHANGED <<state, successCount, proven>>
  /\ UNCHANGED wait

OnSuccess ==
  /\ failureCount' = 0
  /\ IF state = "half-open"
     THEN /\ successCount' = successCount + 1
          /\ proven' = proven + 1
          /\ state' = IF successCount + 1 >= HalfOpenMaxCalls THEN "closed" ELSE state
     ELSE UNCHANGED <<state, successCount, proven>>
  /\ UNCHANGED wait

OnFailure ==
  /\ failureCount' = Inc(failureCount, CountCap)
  /\ IF \/ state = "half-open"
        \/ state = "closed" /\ failureCount + 1 >= FailureThreshold
     THEN state' = "open" /\ wait' = ResetTimeout
     ELSE UNCHANGED <<state, wait>>
  /\ UNCHANGED <<successCount, proven>>

\* the awaited function resolves or rejects: the rest of execute()
Succeed(c) ==
  /\ c \in running
  /\ OnSuccess
  /\ running' = running \ {c}
  /\ UNCHANGED healthy

Reject(c) ==
  /\ c \in running /\ ~healthy
  /\ OnFailure
  /\ running' = running \ {c}
  /\ UNCHANGED healthy

-----------------------------------------------------------------------------
(* The operator's interventions, which stop once the service is healthy.   *)

Reset ==
  /\ ~healthy
  /\ state' = "closed"
  /\ failureCount' = 0
  /\ successCount' = 0
  /\ wait' = NoTime
  /\ UNCHANGED <<running, healthy, proven>>

\* Mutant of ForceOpen: setNextAttemptTime() is forgotten.
ForceOpenWithoutTime ==
  /\ ~healthy
  /\ state' = "open"
  /\ UNCHANGED <<failureCount, successCount, wait, running, healthy, proven>>

ForceOpen ==
  /\ ~healthy
  /\ state' = "open"
  /\ wait' = ResetTimeout
  /\ UNCHANGED <<failureCount, successCount, running, healthy, proven>>

\* Mutant of ForceClose: the failure count survives.
ForceCloseKeepingCount ==
  /\ ~healthy
  /\ state' = "closed"
  /\ wait' = NoTime
  /\ UNCHANGED <<failureCount, successCount, running, healthy, proven>>

ForceClose ==
  /\ ~healthy
  /\ state' = "closed"
  /\ failureCount' = 0
  /\ wait' = NoTime
  /\ UNCHANGED <<successCount, running, healthy, proven>>

-----------------------------------------------------------------------------
(* The environment.                                                        *)

Tick ==
  /\ wait > 0
  /\ wait' = wait - 1
  /\ UNCHANGED <<state, failureCount, successCount, running, healthy, proven>>

\* from now on the protected function never rejects
Heal ==
  /\ ~healthy
  /\ healthy' = TRUE
  /\ UNCHANGED <<state, failureCount, successCount, wait, running, proven>>

Next ==
  \/ \E c \in Callers : Execute(c) \/ Succeed(c) \/ Reject(c)
  \/ Reset \/ ForceOpen \/ ForceClose
  \/ Tick \/ Heal

\* Time passes, the service answers, and the callers keep calling.
Fairness ==
  /\ WF_vars(Tick)
  /\ \A c \in Callers : WF_vars(Execute(c)) /\ WF_vars(Succeed(c))

Spec == Init /\ [][Next]_vars

FairSpec == Spec /\ Fairness

-----------------------------------------------------------------------------
(* Properties.                                                             *)

\* Every variable has its type; the success count never reaches the limit
\* outside the step that closes the breaker.
TypeOK ==
  /\ state \in {"closed", "open", "half-open"}
  /\ failureCount \in 0..CountCap
  /\ successCount \in 0..HalfOpenMaxCalls
  /\ wait \in {NoTime} \union 0..ResetTimeout
  /\ running \in SUBSET Callers
  /\ healthy \in BOOLEAN
  /\ proven \in Nat

\* A closed breaker has failures left before it opens: outcomes of calls that
\* overlapped an opening, counted late, never leave it closed at its threshold.
ClosedBelowThreshold == state = "closed" => failureCount < FailureThreshold

\* An open breaker knows when to try again, so no sequence of late failures and
\* interventions leaves it open for ever.
OpenHasDeadline == state = "open" => wait # NoTime

\* A breaker that closes out of half-open by itself has seen HalfOpenMaxCalls
\* successes since that very probe began, none of them left from an earlier one.
ClosesOnlyProven ==
  [][state = "half-open" /\ state' = "closed" /\ running' # running
       => proven' >= HalfOpenMaxCalls]_vars

\* Once the service is healthy and nobody intervenes, the breaker closes and
\* stays closed.
Recovers == healthy ~> [](state = "closed")

-----------------------------------------------------------------------------
(* Theorems, for any number of overlapping calls and any thresholds.        *)

\* In half-open the success count is short of the limit, and it counts exactly
\* the successes of this probe.
ProbeInv ==
  state = "half-open" => successCount < HalfOpenMaxCalls /\ proven = successCount

IInv == TypeOK /\ ClosedBelowThreshold /\ OpenHasDeadline /\ ProbeInv

\* A saturating count stays within its cap.
LEMMA IncType ==
  ASSUME NEW cap \in Nat, NEW a \in 0..cap
  PROVE  Inc(a, cap) \in 0..cap
BY DEF Inc

\* A new breaker is closed with no failures.
LEMMA InitIInv == Init => IInv
<1> SUFFICES ASSUME Init PROVE IInv
  OBVIOUS
<1> USE BreakerAssumption DEF Init
<1>1. failureCount \in 0..CountCap /\ successCount \in 0..HalfOpenMaxCalls
  OBVIOUS
<1>2. TypeOK
  BY <1>1 DEF TypeOK, NoTime
<1> QED
  BY <1>2 DEF IInv, ClosedBelowThreshold, OpenHasDeadline, ProbeInv

\* Every outcome, whatever state it finds the breaker in, and every
\* intervention keeps the invariant.
LEMMA NextIInv == IInv /\ [Next]_vars => IInv'
<1> SUFFICES ASSUME IInv, [Next]_vars PROVE IInv'
  OBVIOUS
<1> USE BreakerAssumption DEF IInv, TypeOK, ClosedBelowThreshold, OpenHasDeadline,
                              ProbeInv, NoTime
<1>1. ASSUME NEW c \in Callers, Execute(c) PROVE IInv'
  BY <1>1 DEF Execute, Admit, BeginProbe, ShouldAttemptReset
<1>2. ASSUME NEW c \in Callers, Succeed(c) PROVE IInv'
  <2>1. CASE state = "half-open" /\ successCount + 1 >= HalfOpenMaxCalls
    BY <1>2, <2>1 DEF Succeed, OnSuccess
  <2>2. CASE state = "half-open" /\ ~(successCount + 1 >= HalfOpenMaxCalls)
    BY <1>2, <2>2 DEF Succeed, OnSuccess
  <2>3. CASE state # "half-open"
    BY <1>2, <2>3 DEF Succeed, OnSuccess
  <2> QED
    BY <2>1, <2>2, <2>3
<1>3. ASSUME NEW c \in Callers, Reject(c) PROVE IInv'
  <2> DEFINE opens == \/ state = "half-open"
                      \/ state = "closed" /\ failureCount + 1 >= FailureThreshold
  <2>1. failureCount' \in 0..CountCap
    BY <1>3, IncType DEF Reject, OnFailure
  <2>2. CASE opens
    BY <1>3, <2>1, <2>2 DEF Reject, OnFailure
  <2>3. CASE ~opens
    BY <1>3, <2>1, <2>3 DEF Reject, OnFailure, Inc
  <2> QED
    BY <2>2, <2>3
<1>4. CASE Reset
  BY <1>4 DEF Reset
<1>5. CASE ForceOpen
  BY <1>5 DEF ForceOpen
<1>6. CASE ForceClose
  BY <1>6 DEF ForceClose
<1>7. CASE Tick
  BY <1>7 DEF Tick
<1>8. CASE Heal
  BY <1>8 DEF Heal
<1>9. CASE UNCHANGED vars
  BY <1>9 DEF vars
<1> QED
  BY <1>1, <1>2, <1>3, <1>4, <1>5, <1>6, <1>7, <1>8, <1>9 DEF Next

\* IInv is an invariant.
LEMMA Invariance == Spec => []IInv
BY InitIInv, NextIInv, PTL DEF Spec

\* The variables of the breaker keep their types.
THEOREM TypeCorrect == Spec => []TypeOK
<1>1. IInv => TypeOK
  BY DEF IInv
<1> QED
  BY <1>1, Invariance, PTL

\* For any thresholds and any overlap of calls, a closed breaker is below its
\* threshold.
THEOREM ClosedHasMargin == Spec => []ClosedBelowThreshold
<1>1. IInv => ClosedBelowThreshold
  BY DEF IInv
<1> QED
  BY <1>1, Invariance, PTL

\* An open breaker always has a time at which it tries again.
THEOREM OpenIsTemporary == Spec => []OpenHasDeadline
<1>1. IInv => OpenHasDeadline
  BY DEF IInv
<1> QED
  BY <1>1, Invariance, PTL

\* The breaker closes out of half-open only after HalfOpenMaxCalls successes
\* counted since that probe began.
THEOREM ClosedByProof == Spec => ClosesOnlyProven
<1>1. IInv /\ [Next]_vars =>
        [state = "half-open" /\ state' = "closed" /\ running' # running
           => proven' >= HalfOpenMaxCalls]_vars
  <2> SUFFICES ASSUME IInv, Next, state = "half-open", state' = "closed",
                      running' # running
               PROVE  proven' >= HalfOpenMaxCalls
    BY DEF vars
  <2> USE BreakerAssumption DEF IInv, ProbeInv, TypeOK
  <2>1. ASSUME NEW c \in Callers, Execute(c) PROVE FALSE
    BY <2>1 DEF Execute, Admit, BeginProbe
  <2>2. ASSUME NEW c \in Callers, Succeed(c) PROVE proven' >= HalfOpenMaxCalls
    BY <2>2 DEF Succeed, OnSuccess
  <2>3. ASSUME NEW c \in Callers, Reject(c) PROVE FALSE
    BY <2>3 DEF Reject, OnFailure
  <2> QED
    BY <2>1, <2>2, <2>3 DEF Next, Reset, ForceOpen, ForceClose, Tick, Heal
<1> QED
  BY <1>1, Invariance, PTL DEF Spec, ClosesOnlyProven
=============================================================================
