------------------------------- MODULE HttpRetry -------------------------------
(***************************************************************************)
(* RetryHandler and CircuitBreaker of                                      *)
(* packages/protocol-http/src/client/retry-handler.ts.  Callers retry an   *)
(* operation through one shared breaker; their operations overlap, so an   *)
(* outcome may find the breaker in another state than the call did.        *)
(* Unlike the breaker of error-core this one counts failures for as long   *)
(* as it is closed, whatever succeeds between them: nothing reads          *)
(* monitoringPeriod.                                                       *)
(***************************************************************************)
EXTENDS Integers

CONSTANTS HCallers,         \* callers of RetryHandler.execute()
          FailureThreshold, \* the breaker's options
          VolumeThreshold,
          RetryAttempts     \* maxAttempts of the handler

HttpRetryAssumption == {FailureThreshold, VolumeThreshold, RetryAttempts} \subseteq Nat \ {0}

VARIABLE hb

\* the counts are capped above both thresholds, past which nothing compares them
RequestCap == (IF FailureThreshold > VolumeThreshold THEN FailureThreshold ELSE VolumeThreshold) + 1

\* due: recoveryTimeout has passed since lastFailureTime; healed: the service
\* answers from now on; pc and attempt: of each caller
Init == hb = [state |-> "closed", failureCount |-> 0, requestCount |-> 0, due |-> FALSE,
              healed |-> FALSE, pc |-> [c \in HCallers |-> "idle"],
              attempt |-> [c \in HCallers |-> 0]]

Inc(n) == IF n < RequestCap THEN n + 1 ELSE n
ShouldOpen(h) == h.requestCount >= VolumeThreshold /\ h.failureCount >= FailureThreshold

\* RetryHandler.execute() behind an error: whether it retries is its condition
Caught(h, c, again) ==
  LET n == h.attempt[c] + 1 IN
  IF n >= RetryAttempts \/ ~again THEN [h EXCEPT !.pc[c] = "idle", !.attempt[c] = 0]
  ELSE [h EXCEPT !.pc[c] = "delay", !.attempt[c] = n]

\* CircuitBreaker.execute() up to the operation
Admit(h, c, again) ==
  IF h.state = "open" /\ ~h.due THEN Caught(h, c, again)
  ELSE [h EXCEPT !.state = IF @ = "open" THEN "half-open" ELSE @, !.pc[c] = "running"]

Call(c, again) ==
  /\ hb.pc[c] = "idle"
  /\ hb' = Admit(hb, c, again)

\* the delay before the next attempt has passed
Again(c, again) ==
  /\ hb.pc[c] = "delay"
  /\ hb' = Admit(hb, c, again)

\* Mutant of Succeed: the breaker closes and keeps its counts.
SucceedKeeping(c) ==
  /\ hb.pc[c] = "running"
  /\ LET h == [hb EXCEPT !.pc[c] = "idle", !.attempt[c] = 0] IN
     hb' = IF hb.state = "half-open" THEN [h EXCEPT !.state = "open", !.failureCount = 0]
           ELSE [h EXCEPT !.requestCount = Inc(@)]

\* onSuccess() and reset(): any success closes a half-open breaker, also that of
\* an operation which began before it opened
Succeed(c) ==
  /\ hb.pc[c] = "running"
  /\ LET h == [hb EXCEPT !.pc[c] = "idle", !.attempt[c] = 0] IN
     hb' = IF hb.state = "half-open"
           THEN [h EXCEPT !.state = "closed", !.failureCount = 0, !.requestCount = 0]
           ELSE [h EXCEPT !.requestCount = Inc(@)]

\* Mutant of Fail: a failed probe is counted from zero.
FailAnew(c, again) ==
  /\ hb.pc[c] = "running" /\ ~hb.healed
  /\ LET h == [hb EXCEPT !.failureCount = IF hb.state = "half-open" THEN 1 ELSE Inc(@),
                         !.requestCount = Inc(@), !.due = FALSE] IN
     hb' = Caught([h EXCEPT !.state = IF ShouldOpen(h) THEN "open" ELSE @], c, again)

\* onFailure(): a late one puts off the next probe as well
Fail(c, again) ==
  /\ hb.pc[c] = "running" /\ ~hb.healed
  /\ LET h == [hb EXCEPT !.failureCount = Inc(@), !.requestCount = Inc(@), !.due = FALSE] IN
     hb' = Caught([h EXCEPT !.state = IF ShouldOpen(h) THEN "open" ELSE @], c, again)

\* the time since the last failure reaches recoveryTimeout
Elapse == hb.state = "open" /\ ~hb.due /\ hb' = [hb EXCEPT !.due = TRUE]

Heal == ~hb.healed /\ hb' = [hb EXCEPT !.healed = TRUE]

\* a caller asks the breaker, and an operation that is running settles
Attempt(c) == \E again \in BOOLEAN : Call(c, again) \/ Again(c, again)
Answer(c) == Succeed(c) \/ \E again \in BOOLEAN : Fail(c, again)

Next == (\E c \in HCallers : Attempt(c) \/ Answer(c)) \/ Elapse \/ Heal

\* Time passes, operations settle, and callers come again.
Fairness == WF_hb(Elapse) /\ \A c \in HCallers : WF_hb(Attempt(c)) /\ WF_hb(Answer(c))
Spec == Init /\ [][Next]_hb /\ Fairness

-----------------------------------------------------------------------------
(* Properties.                                                             *)

\* The counters are bounded, and a caller that waits has an attempt behind it.
TypeOK ==
  /\ {hb.failureCount, hb.requestCount} \subseteq 0..RequestCap
  /\ \A c \in HCallers : hb.attempt[c] \in 0..RetryAttempts - 1
                      /\ (hb.pc[c] = "delay" => hb.attempt[c] > 0)

\* A breaker that is not closed has the failures and the volume to be open, so
\* that the first failure after a probe opens it again, however late outcomes of
\* earlier calls arrive.
OpenIsEarned == hb.state # "closed" => ShouldOpen(hb)

\* A failure while the breaker is half-open, which starts its timeout again,
\* opens it again.
FailedProbeReopens ==
  [][hb.state = "half-open" /\ hb.due /\ ~hb'.due => hb'.state = "open"]_hb

\* Once the service answers, the breaker closes.
BreakerCloses == hb.healed ~> hb.state = "closed"
=============================================================================
