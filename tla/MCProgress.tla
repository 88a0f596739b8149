------------------------------ MODULE MCProgress ------------------------------
(***************************************************************************)
(* The components that must make progress, under their fairness.  They     *)
(* share no state: a behaviour belongs to one of them, the part, and the   *)
(* variables of the others keep their initial values.  Instances are small *)
(* here; MCSafety checks the same components on larger ones.               *)
(***************************************************************************)
EXTENDS CircuitBreaker, Sequences

CONSTANTS Parts,
          Jobs, QConc, Batches, MaxPermits, Items, BatchLimit,
          MaxAttempts, Threshold, Probes, MaxLayers, MaxExecs,
          HCallers, BreakerFailures, VolumeThreshold, RetryAttempts,
          Requests, MaxHooks, HttpAttempts, MaxVersion,
          Conns, Addresses, Users, MaxConns, MaxPerIP, MaxPerUser,
          QTasks, Priorities, TaskLimit, TaskConc, Added, BatchSize, MaxRetries,
          MiddlewareKinds, MaxChain, HTargets, MaxChains, MaxCount,
          Senders, BufferSize, MaxMessages, StreamReconnects, MaxTimers, MaxPings

VARIABLES part, aq, bp, bat, rec, hb, hc, wsm, tq, ub, rq, hk, sh, bi

AQ == INSTANCE AsyncQueue
BA == INSTANCE Batch
ER == INSTANCE ErrorRecovery
HB == INSTANCE HttpRetry WITH FailureThreshold <- BreakerFailures
HC == INSTANCE HttpClient
WM == INSTANCE WebSocketConnections
TQ == INSTANCE TaskQueue
UB == INSTANCE BatchProcessor
RQ == INSTANCE HttpServer
HK == INSTANCE HealthChecker
SH == INSTANCE GrpcHandlers

ASSUME ProgressAssumption ==
  /\ AQ!QConcAssumption /\ BA!BatchesAssumption /\ BA!BatchLimitAssumption
  /\ ER!RecoveryAssumption /\ HB!HttpRetryAssumption /\ HC!HttpAttemptsAssumption
  /\ TQ!TaskQueueAssumption /\ UB!BatchProcessorAssumption /\ RQ!HttpServerAssumption
  /\ HK!HealthAssumption /\ SH!StreamAssumption /\ SH!BidiAssumption
  /\ WM!ConnectionsAssumption

all == <<part, vars, aq, bp, bat, rec, hb, hc, wsm,
         tq, ub, rq, hk, sh, bi>>

\* Initial states of a part that does not run are not told apart.
InitAll ==
  /\ part \in Parts
  /\ Init /\ AQ!Init /\ BA!BatcherInit /\ HB!Init /\ HC!Init /\ WM!Init
  /\ BA!AllInit /\ (part # "batchProcess" => bp.conc = 1)
  /\ ER!Init /\ (part # "recovery" => rec.layers = [k \in 1..MaxLayers |-> "retry"])
  /\ TQ!Init /\ UB!Init /\ RQ!Init /\ HK!Init /\ SH!HandlerInit /\ SH!BidiInit

Only(p) ==
  /\ part = p /\ UNCHANGED part
  /\ p # "breaker" => UNCHANGED vars
  /\ p # "queue" => UNCHANGED aq
  /\ p # "batchProcess" => UNCHANGED bp
  /\ p # "batcher" => UNCHANGED bat
  /\ p # "recovery" => UNCHANGED rec
  /\ p # "retryHandler" => UNCHANGED hb
  /\ p # "httpClient" => UNCHANGED hc
  /\ p # "connections" => UNCHANGED wsm
  /\ p # "tasks" => UNCHANGED tq
  /\ p # "udefBatches" => UNCHANGED ub
  /\ p # "httpServer" => UNCHANGED rq
  /\ p # "health" => UNCHANGED hk
  /\ p # "stream" => UNCHANGED sh
  /\ p # "bidi" => UNCHANGED bi

NextOfAny ==
  \/ Only("breaker") /\ Next
  \/ Only("queue") /\ AQ!Next
  \/ Only("batchProcess") /\ BA!AllNext
  \/ Only("batcher") /\ BA!BatcherNext
  \/ Only("recovery") /\ ER!Next
  \/ Only("retryHandler") /\ HB!Next
  \/ Only("httpClient") /\ HC!Next
  \/ Only("connections") /\ WM!Next
  \/ Only("tasks") /\ TQ!Next
  \/ Only("udefBatches") /\ UB!Next
  \/ Only("httpServer") /\ RQ!Next
  \/ Only("health") /\ HK!Next
  \/ Only("stream") /\ SH!HandlerNext
  \/ Only("bidi") /\ SH!BidiNext

FairnessOfAll ==
  /\ WF_all(Only("breaker") /\ Tick)
  /\ \A c \in Callers : WF_all(Only("breaker") /\ Execute(c))
                     /\ WF_all(Only("breaker") /\ Succeed(c))
  /\ \A j \in 1..Jobs : WF_all(Only("queue") /\ AQ!Settle(j))
                     /\ WF_all(Only("queue") /\ AQ!Release(j))
  /\ \A b \in 1..Batches : /\ WF_all(Only("batchProcess") /\ BA!Turn(b))
                           /\ WF_all(Only("batchProcess") /\ BA!Acquire(b))
                           /\ WF_all(Only("batchProcess") /\ BA!Begin(b))
                           /\ WF_all(Only("batchProcess") /\ (BA!Succeed(b) \/ BA!Fail(b)))
  /\ WF_all(Only("batcher") /\ BA!TimerFires)
  /\ WF_all(Only("batcher") /\ \E ok \in BOOLEAN : BA!ProcessorSettles(ok))
  /\ WF_all(Only("recovery") /\ ER!Step)
  /\ WF_all(Only("retryHandler") /\ HB!Elapse)
  /\ \A c \in HCallers :
       /\ WF_all(Only("retryHandler") /\ HB!Attempt(c))
       /\ WF_all(Only("retryHandler") /\ HB!Answer(c))
  /\ \A r \in Requests : WF_all(Only("httpClient") /\ HC!Step(r))
  /\ WF_all(Only("connections") /\ WM!CleanupIdle)
  /\ \A t \in 1..QTasks : WF_all(Only("tasks") /\ TQ!Settle(t))
  /\ WF_all(Only("udefBatches") /\ UB!TimerFires)
  /\ WF_all(Only("udefBatches") /\ (UB!ProcessorResolves \/ UB!ProcessorRejects))
  /\ WF_all(/\ Only("httpServer")
            /\ RQ!CallNext \/ RQ!Route \/ RQ!Return \/ RQ!Throw \/ RQ!End)
  /\ \A c \in 1..MaxChains :
       /\ WF_all(Only("health") /\ HK!TimerFires(c))
       /\ \A t \in HTargets :
            WF_all(Only("health") /\ \E ok \in BOOLEAN : HK!CheckEnds(c, t, ok))
  /\ WF_all(Only("stream") /\ SH!Receive)
  /\ \A s \in Senders : /\ WF_all(Only("stream") /\ SH!Poll(s))
                        /\ WF_all(Only("stream") /\ SH!Push(s))
  /\ WF_all(Only("bidi") /\ SH!Reconnect)

SpecOfAll == InitAll /\ [][NextOfAny]_all /\ FairnessOfAll

-----------------------------------------------------------------------------
(* The components' properties, under names of this module.                 *)

\* Every job of AsyncQueue settles unless the jobs starve the queue, every batch
\* of batchProcess() ends behind a failed one, what the Batcher's timer is armed for
\* is processed, every task of AsyncSerializer's queue ends, and so does what
\* BatchProcessor's timer is armed for.
QueuesProgress ==
  /\ AQ!SettlesOrStarves /\ BA!EveryBatchEnds /\ BA!ArmedIsProcessed
  /\ TQ!TaskEnds /\ UB!TimedIsProcessed

\* Every execution of nested recovery strategies ends, RetryHandler's breaker
\* closes once the service answers, requests of HttpClient settle and those of the
\* server end, and idle WebSocket connections are removed.  gRPC: a target is
\* checked again and again, a sender held back ends, a broken stream reconnects.
CallsProgress ==
  /\ ER!ExecutionEnds /\ HB!BreakerCloses /\ HC!RequestSettles /\ WM!IdleIsRemoved
  /\ RQ!RequestEnds /\ HK!TargetIsChecked /\ SH!BlockedSendEnds /\ SH!Reconnects
=============================================================================
