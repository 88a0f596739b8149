---------------------------- MODULE WebSocketClient ----------------------------
(***************************************************************************)
(* WebSocketClient of packages/protocol-websocket/src/core/                *)
(* websocket-client.ts and its MessageQueue (utils/message-utils.ts).  The *)
(* handlers of every socket the client ever made stay attached and change  *)
(* the one state of the client; a failed socket emits `error' and then     *)
(* `close', and the client schedules a reconnection for each of them,      *)
(* keeping the handle of the last timer only.  What follows an event in    *)
(* microtasks belongs to its step, but for the queue, whose processing     *)
(* lets other code send between two messages.                              *)
(***************************************************************************)
EXTENDS Integers, Sequences, FiniteSets, Functions

CONSTANTS MaxSockets,   \* bound on the sockets created
          MaxReconnect, \* reconnect.maxAttempts
          WsMessages,   \* bound on the calls of send(), numbered in that order
          QueueMax      \* message.queue.maxSize

WsAssumption == {MaxReconnect, QueueMax} \subseteq Nat \ {0}

VARIABLE ws

\* socks: of each socket, as the ws library has it, whether the promise of its
\* connect() is pending, and whether its 30 s timer runs; timer, leaked: is the
\* reconnectTimer armed, and how many are that it has forgotten; beat, beats: the
\* same of heartbeatTimer; wanted: history, connect() was called and neither
\* disconnect() nor a clean close came since; stale: history, an event or a timer
\* of a socket found that another one had been made meanwhile; wire: the messages
\* sent; overtook: those that were sent while older ones were queued
Init == ws = [state |-> "CLOSED", socks |-> <<>>, attempt |-> 0, timer |-> FALSE, leaked |-> 0,
              beat |-> FALSE, beats |-> 0, queue |-> <<>>, processing |-> FALSE,
              wanted |-> FALSE, stale |-> FALSE, sends |-> 0, wire |-> <<>>, overtook |-> {}]

Cur == Len(ws.socks)
Settled == ~ws.processing  \* no microtask is left
Stale(s) == ws.stale \/ s # Cur

\* Mutant of Connect: a client that is connecting connects again.
ConnectAgain(w) ==
  IF w.state = "OPEN" THEN w
  ELSE [w EXCEPT !.state = "CONNECTING", !.timer = FALSE,
                 !.socks = Append(@, [st |-> "connecting", pending |-> TRUE, timer |-> TRUE])]

\* connect() up to its await
Connect(w) ==
  IF w.state \in {"CONNECTING", "OPEN"} THEN w
  ELSE [w EXCEPT !.state = "CONNECTING", !.timer = FALSE,
                 !.socks = Append(@, [st |-> "connecting", pending |-> TRUE, timer |-> TRUE])]

\* Mutant of Schedule: one attempt more is made.
ScheduleOneMore(w) ==
  IF w.attempt > MaxReconnect THEN w
  ELSE [w EXCEPT !.attempt = @ + 1, !.timer = TRUE, !.leaked = IF w.timer THEN @ + 1 ELSE @]

\* scheduleReconnect(): a timer that is armed already is not cleared
Schedule(w) ==
  IF w.attempt >= MaxReconnect THEN w
  ELSE [w EXCEPT !.attempt = @ + 1, !.timer = TRUE, !.leaked = IF w.timer THEN @ + 1 ELSE @]

\* the catch block of connect(), for the socket whose promise is rejected first
Rejected(w, s) ==
  IF ~w.socks[s].pending THEN w
  ELSE Schedule([w EXCEPT !.socks[s].pending = FALSE, !.state = "CLOSED"])

-----------------------------------------------------------------------------
\* connect() of the application
UserConnect ==
  /\ Settled /\ Cur < MaxSockets
  /\ ws' = [Connect(ws) EXCEPT !.wanted = TRUE]

\* a reconnection timer fires, the current one or one that was forgotten
TimerFires(leaked) ==
  /\ Settled /\ Cur < MaxSockets
  /\ IF leaked THEN ws.leaked > 0 ELSE ws.timer
  /\ ws' = Connect(IF leaked THEN [ws EXCEPT !.leaked = @ - 1] ELSE [ws EXCEPT !.timer = FALSE])

\* ws.close() of the library, which aborts a handshake
Close(w) ==
  IF Len(w.socks) = 0 THEN w
  ELSE [w EXCEPT !.socks[Len(w.socks)].st =
          CASE @ = "connecting" -> "aborting" [] @ = "open" -> "closing" [] OTHER -> @]

\* disconnect(): forgotten timers stay armed
Disconnect ==
  /\ Settled
  /\ LET w == [ws EXCEPT !.timer = FALSE, !.beat = FALSE, !.attempt = 0, !.queue = <<>>,
                         !.wanted = FALSE] IN
     ws' = IF Cur > 0 /\ ws.state # "CLOSED" THEN Close([w EXCEPT !.state = "CLOSING"])
           ELSE [w EXCEPT !.state = "CLOSED"]

\* the 30 s timer of a socket, which looks at the state of the client
ConnectTimeout(s) ==
  /\ Settled /\ s \in 1..Cur /\ ws.socks[s].timer
  /\ LET w == [ws EXCEPT !.socks[s].timer = FALSE] IN
     ws' = IF ws.state # "CONNECTING" THEN w
           ELSE Rejected(Close([w EXCEPT !.stale = Stale(s)]), s)

\* onopen and handleOpen(): the heartbeat starts and the queue is processed
SocketOpens(s) ==
  /\ Settled /\ s \in 1..Cur /\ ws.socks[s].st = "connecting"
  /\ ws' = [ws EXCEPT !.socks[s].st = "open", !.socks[s].pending = FALSE, !.state = "OPEN",
                      !.attempt = 0, !.beat = TRUE, !.beats = IF ws.beat THEN @ + 1 ELSE @,
                      !.processing = ws.queue # <<>>, !.stale = Stale(s)]

\* the handshake fails or is aborted: onerror, onclose and the catch of connect()
SocketFails(s) ==
  /\ Settled /\ s \in 1..Cur /\ ws.socks[s].st \in {"connecting", "aborting"}
  /\ ws' = Rejected(Schedule([ws EXCEPT !.socks[s].st = "closed", !.state = "CLOSED",
                                        !.beat = FALSE, !.stale = Stale(s)]), s)

\* Mutant of SocketCloses: a lost connection counts as closed.
SocketClosesClean(s, clean) ==
  /\ Settled /\ s \in 1..Cur /\ ws.socks[s].st \in {"open", "closing"}
  /\ ws' = [ws EXCEPT !.socks[s].st = "closed", !.state = "CLOSED", !.beat = FALSE,
                      !.stale = Stale(s), !.wanted = @ /\ ~clean]

\* onclose and handleClose() of an open socket, cleanly closed or lost
SocketCloses(s, clean) ==
  /\ Settled /\ s \in 1..Cur /\ ws.socks[s].st \in {"open", "closing"}
  /\ LET w == [ws EXCEPT !.socks[s].st = "closed", !.state = "CLOSED", !.beat = FALSE,
                         !.stale = Stale(s), !.wanted = @ /\ ~clean] IN
     ws' = IF clean THEN w ELSE Schedule(w)

-----------------------------------------------------------------------------
\* Mutant of Enqueue: messages are queued at the wrong end.
EnqueueLast(q, m) == IF Len(q) >= QueueMax THEN <<m>> \o Tail(q) ELSE <<m>> \o q

\* enqueue(): a full queue loses its oldest message
Enqueue(q, m) == Append(IF Len(q) >= QueueMax THEN Tail(q) ELSE q, m)

\* send(): ws.send() of a socket that is not open throws
Send ==
  LET m == ws.sends + 1
      w == [ws EXCEPT !.sends = m] IN
  /\ m <= WsMessages
  /\ ws' = IF ws.state # "OPEN" THEN [w EXCEPT !.queue = Enqueue(@, m)]
           ELSE IF ws.socks[Cur].st # "open" THEN w
           ELSE [w EXCEPT !.wire = Append(@, m),
                          !.overtook = IF ws.queue = <<>> THEN @ ELSE @ \union {m}]

\* processQueue(): the next message is sent, and the loop ends with the queue; a
\* message whose send() throws is lost
ProcessQueue ==
  /\ ws.processing
  /\ ws' = IF ws.queue = <<>> THEN [ws EXCEPT !.processing = FALSE]
           ELSE [ws EXCEPT !.queue = Tail(@),
                           !.wire = IF ws.socks[Cur].st = "open" THEN Append(@, Head(ws.queue))
                                    ELSE @]

Next ==
  \/ UserConnect \/ Disconnect \/ Send \/ ProcessQueue
  \/ \E leaked \in BOOLEAN : TimerFires(leaked)
  \/ \E s \in 1..MaxSockets :
       \/ ConnectTimeout(s) \/ SocketOpens(s) \/ SocketFails(s)
       \/ \E clean \in BOOLEAN : SocketCloses(s, clean)

Spec == Init /\ [][Next]_ws

-----------------------------------------------------------------------------
(* Properties.                                                             *)

\* The queue and the attempts keep their bounds.
TypeOK ==
  /\ ws.attempt \in 0..MaxReconnect /\ Len(ws.queue) <= QueueMax
  /\ ws.leaked \in Nat /\ ws.beats \in Nat

Live == {s \in 1..Cur : ws.socks[s].st \in {"connecting", "open"}}

\* Until an event or a timer of an older socket interferes there is one live
\* socket and one heartbeat, the state is that socket's, and the heartbeat runs
\* exactly while the client is open.
OneConnection ==
  ~ws.stale =>
    /\ Cardinality(Live) <= 1 /\ ws.beats = 0
    /\ (ws.state = "OPEN") = (\E s \in Live : ws.socks[s].st = "open")
    /\ ws.beat = (ws.state = "OPEN")

\* A client that wants its connection and has none is trying, waits for a timer,
\* or has used up its attempts.
NeverStuck ==
  ws.wanted /\ ws.state = "CLOSED" /\ ~ws.stale =>
    ws.timer \/ ws.leaked > 0 \/ ws.attempt = MaxReconnect

\* Messages go out once and in the order of the send() calls, but for those sent
\* while the queue was processed.
QueueKeepsOrder ==
  /\ IsInjective(ws.wire)
  /\ \A j, k \in DOMAIN ws.wire :
       j < k /\ ws.wire[j] > ws.wire[k] => ws.wire[j] \in ws.overtook
=============================================================================
