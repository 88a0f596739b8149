---------------------------- MODULE GrpcHandlers -----------------------------
(***************************************************************************)
(* packages/protocol-grpc/src/streaming: the stream handler whose senders  *)
(* wait for room in its buffer, and the bidirectional client that          *)
(* reconnects.                                                             *)
(***************************************************************************)
EXTENDS Integers, SequencesExt

(***************************************************************************)
(* ServerStreamHandler over BaseStreamHandler, of packages/protocol-grpc/  *)
(* src/streaming/stream-handler.ts: send() looks at the stream, the limit  *)
(* and the buffer, awaits, and only then puts its message into the buffer. *)
(***************************************************************************)

CONSTANTS Senders,      \* concurrent calls of send()
          BufferSize,   \* options.bufferSize
          MaxMessages   \* options.maxMessages

StreamAssumption == BufferSize \in Nat \ {0} /\ MaxMessages \in Nat

VARIABLE sh

\* at: idle, passed (awaits nothing but its turn) or blocked (polls the buffer);
\* history: got, the numbers received; dropped, those stop() threw away; late, calls
\* that were past the guard on isActive when stop() came
HandlerInit == sh = [active |-> FALSE, buffer |-> <<>>, seq |-> 0, at |-> [s \in Senders |-> "idle"],
                     got |-> <<>>, dropped |-> {}, late |-> {}]

\* start()
Start ==
  /\ ~sh.active
  /\ sh' = [sh EXCEPT !.active = TRUE]

\* Mutant of Stop: the buffer is kept.
StopKeeping ==
  /\ sh.active
  /\ sh' = [sh EXCEPT !.active = FALSE]

\* stop(): calls that wait go on
Stop ==
  /\ sh.active
  /\ sh' = [sh EXCEPT !.active = FALSE, !.buffer = <<>>, !.dropped = @ \cup ToSet(sh.buffer),
                      !.late = {s \in Senders : sh.at[s] # "idle"}]

\* Mutant of Send: the buffer is not looked at.
SendPassing(s) ==
  /\ sh.at[s] = "idle" /\ sh.active /\ sh.seq < MaxMessages
  /\ sh' = [sh EXCEPT !.at[s] = "passed"]

\* send() up to its await: validateMessageLimit(), checkBackpressure()
Send(s) ==
  /\ sh.at[s] = "idle" /\ sh.active /\ sh.seq < MaxMessages
  /\ sh' = [sh EXCEPT !.at[s] = IF Len(sh.buffer) >= BufferSize THEN "blocked" ELSE "passed"]

\* Mutant of Poll: a blocked call never looks again.
PollNever(s) ==
  /\ sh.at[s] = "blocked" /\ sh.buffer = <<>>
  /\ UNCHANGED sh

\* handleBackpressure() looks again: below 0.8 of the size it passes
Poll(s) ==
  /\ sh.at[s] = "blocked" /\ 5 * Len(sh.buffer) < 4 * BufferSize
  /\ sh' = [sh EXCEPT !.at[s] = "passed"]

\* Mutant of Push: the message goes to the front.
PushFirst(s) ==
  /\ sh.at[s] = "passed"
  /\ sh' = [sh EXCEPT !.at[s] = "idle", !.seq = @ + 1, !.buffer = <<sh.seq + 1>> \o @]

\* send() after its await: nothing is looked at again
Push(s) ==
  /\ sh.at[s] = "passed"
  /\ sh' = [sh EXCEPT !.at[s] = "idle", !.seq = @ + 1, !.buffer = Append(@, sh.seq + 1)]

\* a consumer of receive() takes a message
Receive ==
  /\ sh.buffer # <<>>
  /\ sh' = [sh EXCEPT !.buffer = Tail(@), !.got = Append(@, Head(sh.buffer))]

HandlerNext ==
  \/ Start \/ Stop \/ Receive
  \/ \E s \in Senders : Send(s) \/ Poll(s) \/ Push(s)

HandlerFairness == /\ WF_sh(Receive)
                   /\ \A s \in Senders : WF_sh(Poll(s)) /\ WF_sh(Push(s))
HandlerSpec == HandlerInit /\ [][HandlerNext]_sh /\ HandlerFairness

-----------------------------------------------------------------------------
(* Properties.                                                             *)

\* The buffer exceeds its size, and the number of messages its limit, by no more than
\* the calls that looked at them before the first of their messages was there.
BoundsStretch ==
  /\ Len(sh.buffer) < BufferSize + Cardinality(Senders)
  /\ sh.seq < MaxMessages + Cardinality(Senders)

\* Every message is received, waits or was thrown away by stop(), once, and messages
\* are received in the order of their numbers.
EachMessageOnce ==
  /\ IsInjective(sh.got \o sh.buffer)
  /\ ToSet(sh.got \o sh.buffer) \cup sh.dropped = 1..sh.seq
  /\ ToSet(sh.got \o sh.buffer) \cap sh.dropped = {}
  /\ \A i, j \in 1..Len(sh.got) : i < j => sh.got[i] < sh.got[j]

\* A stream that is not active holds messages only of calls that were past the guard
\* when it stopped: stop() does not end them, it lets them pass.
EmptyWhenStopped ==
  ~sh.active => Len(sh.buffer) <= Cardinality(sh.late)

\* A call that waits for room ends, as long as somebody receives and messages are
\* limited.
BlockedSendEnds == \A s \in Senders : sh.at[s] = "blocked" ~> sh.at[s] = "idle"

-----------------------------------------------------------------------------
(***************************************************************************)
(* BidirectionalStreamClient of packages/protocol-grpc/src/streaming/      *)
(* bidirectional-stream.ts: a stream that reconnects whenever it stops,    *)
(* and a heartbeat whose interval each connection sets again.              *)
(***************************************************************************)

CONSTANTS StreamReconnects,   \* options.reconnectAttempts
          MaxTimers,          \* bound: reconnect timers pending at a time
          MaxPings            \* where the intervals out of reach are counted no more

BidiAssumption ==
  StreamReconnects \in Nat \ {0} /\ MaxTimers \in Nat \ {0} /\ MaxPings \in Nat \ {0}

VARIABLE bi

\* active: the handler's streams are started; ping: the interval of the handle is
\* there, pings: others; pong: the pong timer is pending; timers: reconnect timers.
\* History: ever, there was a connection; again, one was made over a running interval
BidiInit == bi = [connected |-> FALSE, active |-> FALSE, ping |-> FALSE, pings |-> 0,
                  pong |-> FALSE, attempts |-> 0, timers |-> 0, ever |-> FALSE, again |-> FALSE]

\* attemptReconnect(): the timer has no handle
AttemptReconnect(b) ==
  IF b.attempts >= StreamReconnects THEN b
  ELSE [b EXCEPT !.attempts = @ + 1, !.timers = @ + 1]

\* Mutant of Connected: the heartbeat is started for the first connection only.
ConnectedOnce(b) ==
  [b EXCEPT !.active = TRUE, !.connected = TRUE, !.ever = TRUE, !.ping = @ \/ ~b.ever]

\* the handler starts, and with it the heartbeat, whose handle is overwritten
Connected(b) ==
  [b EXCEPT !.active = TRUE, !.connected = TRUE, !.ever = TRUE, !.again = @ \/ b.ping,
            !.pings = IF b.ping /\ @ < MaxPings THEN @ + 1 ELSE @, !.ping = TRUE]

\* connect()
Connect == bi' = Connected(bi)

\* a reconnect timer fires
Reconnect ==
  /\ bi.timers > 0
  /\ bi' = Connected([bi EXCEPT !.timers = @ - 1, !.attempts = 0])

\* Mutant of Disconnect: the heartbeat goes on.
DisconnectBeating ==
  /\ bi.timers < MaxTimers
  /\ bi' = AttemptReconnect([bi EXCEPT !.active = FALSE, !.connected = FALSE])

\* disconnect(): the handler's stop lets the client reconnect
Disconnect ==
  /\ bi.timers < MaxTimers
  /\ bi' = AttemptReconnect([bi EXCEPT !.active = FALSE, !.connected = FALSE,
                                       !.ping = FALSE, !.pong = FALSE])

\* an interval sends a ping, and sets the pong timer again
Ping ==
  /\ bi.ping \/ bi.pings > 0
  /\ bi.active
  /\ bi' = [bi EXCEPT !.pong = TRUE]

\* a pong is received
Pong ==
  /\ bi.pong /\ bi.active
  /\ bi' = [bi EXCEPT !.pong = FALSE]

\* Mutant of PongTimeout: the loss is noted, and nothing is done about it.
PongTimeoutOnly ==
  /\ bi.pong
  /\ bi' = [bi EXCEPT !.pong = FALSE, !.connected = FALSE]

\* the pong timer fires: handleConnectionLost(), the handler stays started
PongTimeout ==
  /\ bi.pong /\ bi.timers < MaxTimers
  /\ bi' = AttemptReconnect([bi EXCEPT !.pong = FALSE, !.connected = FALSE])

BidiNext == Connect \/ Reconnect \/ Disconnect \/ Ping \/ Pong \/ PongTimeout

BidiFairness == WF_bi(Reconnect)
BidiSpec == BidiInit /\ [][BidiNext]_bi /\ BidiFairness

-----------------------------------------------------------------------------
(* Properties.                                                             *)

\* Attempts are bounded, and each of them has its timer.
BidiTypeOK == bi.attempts <= StreamReconnects /\ bi.attempts <= bi.timers

\* A client that was connected once, and is not, has a reconnection before it: the
\* limit never ends its attempts, and neither does disconnect().
ComesBack == bi.ever /\ ~bi.connected => bi.timers > 0

\* And it does come back.
Reconnects == bi.ever /\ ~bi.connected ~> bi.connected

\* A connected client has started streams and a heartbeat, and a second interval only
\* if it was connected again before the first one was cleared; such an interval no
\* disconnect() ends.
OneHeartbeat ==
  /\ bi.connected => bi.active /\ bi.ping
  /\ bi.pings > 0 => bi.again

\* Without a connection there is no pong timer, unless a ping went out over the
\* started streams of a lost one.
PongOnlyIfActive == bi.pong => bi.active
=============================================================================
