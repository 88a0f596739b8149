----------------------------- MODULE ErrorRecovery -----------------------------
(***************************************************************************)
(* The recovery strategies of packages/error-core and their composition:   *)
(* ErrorRecoveryStrategy (strategies/fallback.ts) and the decorators       *)
(* (decorators/index.ts) wrap a method in layers, the first one innermost. *)
(* A layer calls what it wraps and handles the error that comes back: it   *)
(* retries, falls back, counts for a circuit breaker, or reports it.       *)
(* GlobalErrorHandler redefines the methods of the prototype each time an  *)
(* instance is made, so that the layers grow with the instances.           *)
(***************************************************************************)
EXTENDS Integers, Sequences, FiniteSetsExt

CONSTANTS MaxAttempts,  \* maxAttempts of the retry layers
          Threshold,    \* failureThreshold of the circuit breakers
          Probes,       \* halfOpenMaxCalls of the circuit breakers
          MaxLayers,    \* bound on the layers
          MaxExecs      \* bound on the executions, one after the other

RecoveryAssumption == {MaxAttempts, Threshold, Probes, MaxExecs} \subseteq Nat \ {0}

VARIABLE rec

Layers == {"retry", "fallback", "breaker", "report", "swallow"}
Zero == [k \in 1..MaxLayers |-> 0]

\* at: the layer that runs, 0 the method, MaxLayers + 1 the caller; going: "in" a
\* call, "out" with the error or the value of `ok'; attempt, mode, fails, wins: of
\* the layers; calls, reports: of this execution, what reached the method and
\* onError(); raised: some fallback has declined or thrown; due: history: how often
\* the deadline of an open breaker was over, since its failures count from zero
Init ==
  \E n \in 1..MaxLayers : \E layers \in [1..n -> Layers] :
    rec = [layers |-> layers, at |-> MaxLayers + 1, going |-> "out", ok |-> TRUE, execs |-> 0,
           attempt |-> Zero, mode |-> [k \in 1..MaxLayers |-> "closed"], fails |-> Zero,
           wins |-> Zero, due |-> Zero, calls |-> 0, reports |-> 0, raised |-> FALSE]

Depth == Len(rec.layers)
Is(kind) == rec.at \in 1..Depth /\ rec.layers[rec.at] = kind
Idle == rec.at > Depth

\* the layer outside the one that runs is given its value or its error
Leave(r, ok) == [r EXCEPT !.at = IF @ = Depth THEN MaxLayers + 1 ELSE @ + 1,
                          !.going = "out", !.ok = ok]

-----------------------------------------------------------------------------
\* the caller executes the method
Execute ==
  /\ Idle /\ rec.execs < MaxExecs
  /\ rec' = [rec EXCEPT !.at = Depth, !.going = "in", !.execs = @ + 1, !.calls = 0,
                        !.attempt = Zero, !.reports = 0, !.raised = FALSE]

\* GlobalErrorHandler: an instance is made between two executions
NewInstance(kind) ==
  /\ Idle /\ Depth < MaxLayers
  /\ rec' = [rec EXCEPT !.layers = Append(@, kind), !.ok = TRUE, !.reports = 0]

\* the layer that runs calls what it wraps, for the first time
Inward(r) == [r EXCEPT !.at = @ - 1, !.attempt[r.at] = 1,
                       !.calls = IF r.at = 1 THEN @ + 1 ELSE @]

Entering == rec.at \in 1..Depth /\ rec.going = "in"
Open == Is("breaker") /\ rec.mode[rec.at] = "open"

\* a layer calls what it wraps; an open breaker does not before its deadline
Enter ==
  /\ Entering
  /\ rec' = IF Open THEN Leave(rec, FALSE) ELSE Inward(rec)

\* the deadline of an open breaker is over, and the call becomes its probe
Probe ==
  /\ Entering /\ Open
  /\ rec' = Inward([rec EXCEPT !.mode[rec.at] = "half-open", !.wins[rec.at] = 0,
                               !.due[rec.at] = @ + 1])

\* the method returns or throws
Method(ok) ==
  /\ rec.at = 0
  /\ rec' = Leave(rec, ok)

\* a value passes through every layer: a breaker counts from zero again, and one
\* that is half-open counts the value, until it closes
Pass ==
  /\ rec.at \in 1..Depth /\ rec.going = "out" /\ rec.ok
  /\ LET half == Is("breaker") /\ rec.mode[rec.at] = "half-open"
         won  == rec.wins[rec.at] + 1
     IN rec' = Leave([rec EXCEPT !.fails[rec.at] = 0, !.due[rec.at] = 0,
                        !.wins[rec.at] = IF half THEN won ELSE @,
                        !.mode[rec.at] = IF half /\ won >= Probes THEN "closed" ELSE @],
                     TRUE)

Failed == rec.at \in 1..Depth /\ rec.going = "out" /\ ~rec.ok

\* Mutant of Retry: the attempts are counted from zero.
RetryOneMore(again) ==
  /\ Failed /\ Is("retry")
  /\ rec' = IF rec.attempt[rec.at] > MaxAttempts \/ ~again THEN Leave(rec, FALSE)
            ELSE [rec EXCEPT !.at = @ - 1, !.attempt[rec.at] = @ + 1, !.going = "in",
                             !.calls = IF rec.at = 1 THEN @ + 1 ELSE @]

\* Mutant of Retry: the failed attempts are not counted.
RetryForever(again) ==
  /\ Failed /\ Is("retry")
  /\ rec' = IF ~again THEN Leave(rec, FALSE) ELSE [rec EXCEPT !.at = @ - 1, !.going = "in"]

\* RetryStrategy.execute() behind a failed attempt, whose condition is `again'
Retry(again) ==
  /\ Failed /\ Is("retry")
  /\ rec' = IF rec.attempt[rec.at] >= MaxAttempts \/ ~again THEN Leave(rec, FALSE)
            ELSE [rec EXCEPT !.at = @ - 1, !.attempt[rec.at] = @ + 1, !.going = "in",
                             !.calls = IF rec.at = 1 THEN @ + 1 ELSE @]

\* Mutant of Fallback: the value of the fallback is not returned.
FallbackRethrowing(use, ok) ==
  /\ Failed /\ Is("fallback")
  /\ rec' = [Leave(rec, FALSE) EXCEPT !.raised = @ \/ ~(use /\ ok)]

\* FallbackStrategy.execute(): the condition declines, or the fallback settles
Fallback(use, ok) ==
  /\ Failed /\ Is("fallback")
  /\ rec' = [Leave(rec, use /\ ok) EXCEPT !.raised = @ \/ ~(use /\ ok)]

\* the breaker counts a failure, and opens for it
Counted(opens) ==
  Leave([rec EXCEPT !.fails[rec.at] = @ + 1,
                    !.mode[rec.at] = IF opens THEN "open" ELSE @], FALSE)

\* Mutant of Breaker: a failed probe leaves the breaker half-open.
BreakerHalfOpen ==
  /\ Failed /\ Is("breaker")
  /\ rec' = Counted(rec.mode[rec.at] = "closed" /\ rec.fails[rec.at] + 1 >= Threshold)

\* CircuitBreakerStrategy.onFailure()
Breaker ==
  /\ Failed /\ Is("breaker")
  /\ rec' = Counted(rec.mode[rec.at] = "half-open" \/ rec.fails[rec.at] + 1 >= Threshold)

\* Mutant of Report: the error is rethrown with rethrow = false as well.
ReportRethrowing ==
  /\ Failed /\ (Is("report") \/ Is("swallow"))
  /\ rec' = [Leave(rec, FALSE) EXCEPT !.reports = @ + 1]

\* HandleErrors and GlobalErrorHandler, with rethrow or without
Report ==
  /\ Failed /\ (Is("report") \/ Is("swallow"))
  /\ rec' = [Leave(rec, Is("swallow")) EXCEPT !.reports = @ + 1]

\* a step of an execution that is under way
Step ==
  \/ Enter \/ Probe \/ Pass \/ Breaker \/ Report
  \/ \E ok \in BOOLEAN : Method(ok) \/ Retry(ok) \/ \E use \in BOOLEAN : Fallback(use, ok)

Next == Execute \/ Step \/ \E kind \in {"report", "swallow"} : NewInstance(kind)

\* The method and the fallbacks settle, and so does every layer around them.
Spec == Init /\ [][Next]_rec /\ WF_rec(Step)

-----------------------------------------------------------------------------
(* Properties.                                                             *)

Number(kind) == Cardinality({k \in 1..Depth : rec.layers[k] = kind})

\* The layers' counters are bounded by their options.
TypeOK ==
  /\ \A k \in 1..MaxLayers : rec.attempt[k] \in 0..MaxAttempts
                          /\ rec.fails[k] \in 0..Threshold + rec.due[k]
                          /\ rec.mode[k] \in {"closed", "open", "half-open"}
                          /\ rec.wins[k] \in 0..Probes
  /\ rec.calls \in 0..MaxAttempts ^ MaxLayers

\* Nested retries multiply, and nothing else calls the method again.
AttemptsBounded == rec.calls <= MaxAttempts ^ Number("retry")

\* A caller outside a fallback sees an error only if that fallback declined or
\* threw, or if a layer outside it added one.
FallbackAnswers ==
  Idle /\ ~rec.ok /\ rec.layers[Depth] = "fallback" => rec.raised

\* A breaker that wraps the method itself lets Threshold failing attempts in a row
\* through, and one more for each time its deadline was over, however often the
\* layers outside it retry.
BreakerLimitsAttempts ==
  rec.layers[1] = "breaker" /\ rec.at = 0 => rec.fails[1] < Threshold + rec.due[1]

\* An error that reaches the caller was reported by every instance's handler, one
\* that is swallowed by none of those outside the one that swallowed it.
ReportedPerInstance ==
  Idle /\ rec.execs > 0 /\ (\A k \in 1..Depth : rec.layers[k] \in {"report", "swallow"}) =>
    /\ ~rec.ok => rec.reports = Depth /\ Number("swallow") = 0
    /\ rec.ok /\ rec.reports # 0 =>
         rec.reports = Min({k \in 1..Depth : rec.layers[k] = "swallow"})

\* Every execution ends.
ExecutionEnds == ~Idle ~> Idle
=============================================================================
