------------------------------ MODULE Components ------------------------------
(***************************************************************************)
(* The components of the suite that have theorems in ComponentProofs, with *)
(* the constants and the state of each.  They share none of it.            *)
(***************************************************************************)
CONSTANTS Handlers, MaxReg, MaxDepth, Jobs, QConc, TaskCount, PConc, Batches,
          MaxPermits, Items, BatchLimit, Keys, MaxSize, MaxCounter, MaxFlights,
          HCallers, FailureThreshold, VolumeThreshold, RetryAttempts, MaxSockets,
          MaxReconnect, WsMessages, QueueMax, Conns, Addresses, Users, MaxConns,
          MaxPerIP, MaxPerUser, Requests, MaxHooks, HttpAttempts, MaxVersion

VARIABLES bus, aq, pa, bp, bat, lru, hb, ws, wsm, hc

EB == INSTANCE EventBus
AQ == INSTANCE AsyncQueue
PA == INSTANCE PromiseAll WITH Tasks <- TaskCount
BA == INSTANCE Batch
LRU == INSTANCE LRUCache
HB == INSTANCE HttpRetry
WC == INSTANCE WebSocketClient
WM == INSTANCE WebSocketConnections
HC == INSTANCE HttpClient
=============================================================================
