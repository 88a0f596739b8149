----------------------------- MODULE HealthChecker -----------------------------
(***************************************************************************)
(* HealthChecker and AdvancedHealthChecker of packages/protocol-grpc/src/  *)
(* balancer/health-checker.ts: targets that come and go, rounds of checks  *)
(* that wait for their answers, and a timer that each round sets again.    *)
(* A chain is what one start() began: its timer, its round, its timer ...  *)
(***************************************************************************)
EXTENDS Integers, FiniteSets

CONSTANTS HTargets,    \* ids of targets
          MaxChains,   \* chains alive at a time
          MaxCount     \* where the counts of AdvancedHealthChecker are cut off

HealthAssumption == MaxChains \in Nat \ {0} /\ MaxCount \in Nat \ {0}

VARIABLE hk

Chains == 1..MaxChains
Dead == [at |-> "dead", left |-> {}]

\* handle: the chain checkInterval names, 0 without one; manual: targets of pending
\* checkTarget() calls; doubled, late: history, a start() found another chain alive,
\* targets whose check ended after their removal
Init == hk = [running |-> FALSE, handle |-> 0, chain |-> [c \in Chains |-> Dead],
              targets |-> {}, status |-> [t \in HTargets |-> "none"], manual |-> {},
              fails |-> [t \in HTargets |-> 0], succs |-> [t \in HTargets |-> 0],
              doubled |-> FALSE, late |-> {}]

Alive == {c \in Chains : hk.chain[c].at # "dead"}

\* scheduleNextCheck()
Schedule(h, c) ==
  IF h.running THEN [h EXCEPT !.handle = c, !.chain[c] = [at |-> "waiting", left |-> {}]]
  ELSE [h EXCEPT !.chain[c] = Dead]

\* Mutant of Start: the guard on isRunning is gone.
StartAnyway ==
  \E c \in Chains \ Alive :
    hk' = Schedule([hk EXCEPT !.running = TRUE], c)

\* start()
Start ==
  /\ ~hk.running
  /\ \E c \in Chains \ Alive :
       hk' = Schedule([hk EXCEPT !.running = TRUE, !.doubled = Alive # {}], c)

\* Mutant of Stop: the timer is left pending.
StopOnly ==
  /\ hk.running
  /\ hk' = [hk EXCEPT !.running = FALSE, !.handle = 0]

\* stop(): a round that is under way goes on
Stop ==
  /\ hk.running
  /\ hk' = [hk EXCEPT !.running = FALSE, !.handle = 0,
              !.chain = [c \in Chains |->
                 IF c = hk.handle /\ @[c].at = "waiting" THEN Dead ELSE @[c]]]

\* addTarget()
AddTarget(t) ==
  hk' = [hk EXCEPT !.targets = @ \cup {t}, !.status[t] = "unknown", !.late = @ \ {t}]

\* Mutant of RemoveTarget: the status is left behind.
RemoveTargetOnly(t) ==
  /\ t \in hk.targets
  /\ hk' = [hk EXCEPT !.targets = @ \ {t}]

\* removeTarget(): the checks of the target go on, and the counts stay
RemoveTarget(t) ==
  /\ t \in hk.targets
  /\ hk' = [hk EXCEPT !.targets = @ \ {t}, !.status[t] = "none"]

\* the timer of a chain fires: checkAllTargets()
TimerFires(c) ==
  /\ hk.chain[c].at = "waiting"
  /\ hk' = IF hk.targets = {} THEN Schedule(hk, c)
           ELSE [hk EXCEPT !.chain[c] = [at |-> "checking", left |-> hk.targets]]

\* checkTarget(), one pending call for a target at a time
CheckTarget(t) ==
  /\ t \in hk.targets \ hk.manual
  /\ hk' = [hk EXCEPT !.manual = @ \cup {t}]

Bump(n) == IF n < MaxCount THEN n + 1 ELSE n

\* Mutant of Answered: the counts of the other outcome are kept.
AnsweredKeeping(h, t, ok) ==
  [h EXCEPT !.status[t] = IF ok THEN "healthy" ELSE "unhealthy",
            !.late = IF t \in h.targets THEN @ ELSE @ \cup {t},
            !.succs[t] = IF ok THEN Bump(@) ELSE @, !.fails[t] = IF ok THEN @ ELSE Bump(@)]

\* performHealthCheck() of a target after its await.  The thresholds compare the
\* result with the status that was just stored, itself, and never change it.
Answered(h, t, ok) ==
  [h EXCEPT !.status[t] = IF ok THEN "healthy" ELSE "unhealthy",
            !.late = IF t \in h.targets THEN @ ELSE @ \cup {t},
            !.succs[t] = IF ok THEN Bump(@) ELSE 0, !.fails[t] = IF ok THEN 0 ELSE Bump(@)]

\* Mutant of CheckEnds: a failed check does not schedule the next round.
CheckEndsOnce(c, t, ok) ==
  /\ t \in hk.chain[c].left
  /\ LET h == Answered([hk EXCEPT !.chain[c].left = @ \ {t}], t, ok) IN
     hk' = IF h.chain[c].left # {} THEN h ELSE IF ok THEN Schedule(h, c)
           ELSE [h EXCEPT !.chain[c] = Dead]

\* a check of a round ends, and the last one ends the round
CheckEnds(c, t, ok) ==
  /\ t \in hk.chain[c].left
  /\ LET h == Answered([hk EXCEPT !.chain[c].left = @ \ {t}], t, ok) IN
     hk' = IF h.chain[c].left = {} THEN Schedule(h, c) ELSE h

ManualEnds(t, ok) ==
  /\ t \in hk.manual
  /\ hk' = Answered([hk EXCEPT !.manual = @ \ {t}], t, ok)

Next ==
  \/ Start \/ Stop
  \/ \E t \in HTargets : \/ AddTarget(t) \/ RemoveTarget(t) \/ CheckTarget(t)
                         \/ \E ok \in BOOLEAN : ManualEnds(t, ok)
  \/ \E c \in Chains : \/ TimerFires(c)
                       \/ \E t \in HTargets, ok \in BOOLEAN : CheckEnds(c, t, ok)

Fairness ==
  \A c \in Chains : /\ WF_hk(TimerFires(c))
                    /\ \A t \in HTargets : WF_hk(\E ok \in BOOLEAN : CheckEnds(c, t, ok))
Spec == Init /\ [][Next]_hk /\ Fairness

-----------------------------------------------------------------------------
(* Properties.                                                             *)

\* Rounds check targets; a target has a status.
TypeOK ==
  /\ \A c \in Chains : hk.chain[c].left # {} <=> hk.chain[c].at = "checking"
  /\ \A t \in hk.targets : hk.status[t] # "none"

\* While the checker runs, the chain its handle names is alive, and it is the only
\* one unless a start() came while the round of an earlier start() was under way.
\* After a stop() no timer is pending, with the same exception: the second of two
\* chains is out of the handle's reach.
OneChain ==
  /\ hk.running => hk.handle \in Alive
  /\ ~hk.doubled => /\ Cardinality(Alive) <= 1
                    /\ ~hk.running => \A c \in Chains : hk.chain[c].at # "waiting"

\* A target that is gone has a status only if one of its checks ended late.
StatusOfTargets ==
  \A t \in HTargets : hk.status[t] # "none" /\ t \notin hk.targets => t \in hk.late

\* The counts of consecutive outcomes agree with the status.
CountsAgree ==
  \A t \in HTargets :
    /\ hk.status[t] = "healthy" => hk.succs[t] > 0
    /\ hk.status[t] = "unhealthy" => hk.fails[t] > 0
    /\ hk.succs[t] = 0 \/ hk.fails[t] = 0

\* While the checker runs, a new target comes to know its health.
TargetIsChecked ==
  \A t \in HTargets :
    hk.running /\ hk.status[t] = "unknown"
      ~> ~hk.running \/ hk.status[t] # "unknown"
=============================================================================
