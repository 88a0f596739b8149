--------------------------- MODULE WebSocketSession ---------------------------
(***************************************************************************)
(* What the WebSocket server does with an accepted connection: the         *)
(* lifecycle handler (welcome, authentication and its timers, rooms that   *)
(* are left), the message handlers with their router, and the message      *)
(* batcher.  The awaits of a handler are over before the next event of a   *)
(* socket or a timer: send() of the server's connections waits for nothing.*)
(***************************************************************************)
EXTENDS Integers, SequencesExt

CONSTANTS Peers,       \* connections, each accepted once
          Rooms,
          MaxJoins,    \* bound on the joins of rooms
          MaxRefusals, \* bound on the attempts to authenticate that are answered by a failure
          RouteKinds,  \* what the middlewares of the message router do
          MaxRoute,    \* how many of them there are at most
          BatchKeys,
          BatchFull,   \* batchSize of the batcher
          MaxBatched   \* bound on the messages given to it

VARIABLES ss, mr, mb

SessionAssumption == MaxJoins \in Nat \ {0} /\ MaxRefusals \in Nat \ {0}
RouteAssumption ==
  RouteKinds \subseteq {"next", "twice", "silent", "throws"} /\ MaxRoute \in Nat
BatchFullAssumption == BatchFull \in Nat \ {0}

Each(v) == [p \in Peers |-> v]
Zero == Each([r \in Rooms |-> 0])

\* wired: the owner of the server passes its connection and disconnect events on
\* to the emitter of the lifecycle handler, which the server itself does not do.
\* managed: the connections of the connection manager; onClose, onAuth: the once-listeners
\* there are, of a connection's 'close' and of 'authenticated'.  History: proven, whose
\* 'authenticated' was emitted; late, rooms joined when the connection was managed no more;
\* strayed, who said something in a room that was told of as many leaves as joins.
SessionInit ==
  \E w \in BOOLEAN :
    ss = [wired |-> w, state |-> Each("NEW"), managed |-> {}, user |-> {}, welcomed |-> {},
          authTimer |-> {}, onClose |-> {}, onAuth |-> {}, proven |-> {},
          refusals |-> 0, closing |-> Each(0),
          rooms |-> Each({}), joins |-> Zero, told |-> Zero, late |-> Each({}),
          strayed |-> {}]

\* close() of a connection does nothing when it is closing or closed already.
Close(s, p) == IF s.state[p] = "OPEN" THEN [s EXCEPT !.state[p] = "CLOSING"] ELSE s

Receives(p) == ss.state[p] \in {"OPEN", "CLOSING"}

\* handleConnection(): the welcome, then the timer and its two once-listeners.
Accept(p) ==
  /\ ss.state[p] = "NEW"
  /\ LET s == [ss EXCEPT !.state[p] = "OPEN", !.managed = @ \union {p}]
     IN ss' \in IF ~ss.wired THEN {s}
                ELSE {Close(s, p),
                      [s EXCEPT !.welcomed = @ \union {p}, !.authTimer = @ \union {p},
                                !.onClose = @ \union {p}, !.onAuth = @ \union {p}]}

\* sendAuthFailure(): after the message, a timer that closes the connection,
\* whatever happens meanwhile; the failure of the message is logged.
Refused(s, p) ==
  {s} \union IF s.state[p] = "OPEN" /\ s.refusals < MaxRefusals
             THEN {[s EXCEPT !.closing[p] = @ + 1, !.refusals = @ + 1]} ELSE {}

EmitAuthenticatedClearing(s, p) ==
  [s EXCEPT !.authTimer = @ \ s.onAuth, !.onAuth = {}, !.proven = @ \union {p}]

\* Mutant of EmitAuthenticated: an authentication clears the timers of the others.
EmitAuthenticatedOthers(s, p) ==
  [s EXCEPT !.authTimer = @ \ (s.onAuth \ {p}), !.onAuth = {}, !.proven = @ \union {p}]

\* The event 'authenticated' consumes the once-listeners of all connections; the
\* listener of this connection clears its timer.
EmitAuthenticated(s, p) ==
  [s EXCEPT !.authTimer = IF p \in s.onAuth THEN @ \ {p} ELSE @, !.onAuth = {},
            !.proven = @ \union {p}]

\* handleAuthentication(): the user is set before the answer is sent.
Authenticate(p, token) ==
  /\ Receives(p)
  /\ LET s == [ss EXCEPT !.user = @ \union {p}]
     IN ss' \in IF ~token THEN Refused(ss, p)
                ELSE IF s.state[p] = "OPEN"
                THEN {EmitAuthenticated(s, p)} \union Refused(s, p)
                ELSE {s}

\* The timer of setupConnectionTimeout().
AuthTimeout(p) ==
  /\ p \in ss.authTimer
  /\ LET s == [ss EXCEPT !.authTimer = @ \ {p}]
     IN ss' = IF p \in s.user THEN s ELSE Close(s, p)

\* The timer of sendAuthFailure().
RefusalCloses(p) ==
  /\ ss.closing[p] > 0
  /\ ss' = Close([ss EXCEPT !.closing[p] = @ - 1], p)

\* handleJoinRoom() and handleLeaveRoom(): the rooms of a connection are managed
\* by the listeners of their events, who join it and leave it at once.
JoinRoom(p, r) ==
  /\ Receives(p) /\ r \notin ss.rooms[p]
  /\ MapThenSumSet(LAMBDA q : SumFunction(ss.joins[q]), Peers) < MaxJoins
  /\ ss' = [ss EXCEPT !.rooms[p] = @ \union {r}, !.joins[p][r] = @ + 1,
                              !.late[p] = IF p \in ss.managed THEN @ ELSE @ \union {r}]

LeaveRoom(p, r) ==
  /\ Receives(p) /\ r \in ss.rooms[p]
  /\ ss' = [ss EXCEPT !.rooms[p] = @ \ {r}, !.told[p][r] = @ + 1]

Speaks(p, r) ==
  IF ss.joins[p][r] > ss.told[p][r] THEN ss ELSE [ss EXCEPT !.strayed = @ \union {p}]

\* Mutant of RoomMessage: whether the connection is in the room is not asked.
RoomMessageOfAnyone(p, r) == Receives(p) /\ ss' = Speaks(p, r)

\* handleRoomMessage(): only of a connection in the room.
RoomMessage(p, r) ==
  /\ Receives(p)
  /\ ss' = IF r \in ss.rooms[p] THEN Speaks(p, r) ELSE ss

\* cleanupConnection(): every room is left and told so, then the listeners of the
\* connection are removed, for a user only after the await of its session.
LeaveAll(s, p) ==
  [s EXCEPT !.rooms[p] = {},
            !.told[p] = [r \in Rooms |-> IF r \in s.rooms[p] THEN @[r] + 1 ELSE @[r]]]
RemoveListeners(s, p) == [s EXCEPT !.onClose = @ \ {p}]

\* Cleaned and notified the other way round, a room hears twice of a leave.
NotifyRoomLeaveOfAll(s, p) ==
  [s EXCEPT !.told[p] = [r \in Rooms |-> IF ss.rooms[p] # {} THEN @[r] + 1 ELSE @[r]]]

\* notifyRoomLeave() finds the rooms that cleanupConnection() has left over.
NotifyRoomLeave(s, p) ==
  IF p \in s.user
  THEN [s EXCEPT !.told[p] = [r \in Rooms |-> IF r \in s.rooms[p] THEN @[r] + 1 ELSE @[r]]]
  ELSE s

\* Mutant of RemoveConnection: DISCONNECT is not emitted.
RemoveConnectionQuietly(s, p) ==
  IF p \notin s.managed THEN s ELSE RemoveListeners([s EXCEPT !.managed = @ \ {p}], p)

\* removeConnection(), once for a connection: its listeners are removed and it is closed, then
\* DISCONNECT is emitted, which handleDisconnect() follows: cleanupConnection(), and
\* notifyRoomLeave() for the rooms that one has left over.
RemoveConnection(s, p) ==
  IF p \notin s.managed THEN s
  ELSE LET c == Close(RemoveListeners([s EXCEPT !.managed = @ \ {p}], p), p)
       IN IF s.wired THEN NotifyRoomLeave(LeaveAll(c, p), p) ELSE c

\* The 'close' event of the connection: its once-listener, where it is still there, clears
\* the timer.
EmitClose(s, p) ==
  IF p \in s.onClose THEN [s EXCEPT !.authTimer = @ \ {p}, !.onClose = @ \ {p}] ELSE s

\* The socket closes: the connection is removed from the manager, if it still is there, and
\* then 'close' is emitted.
SocketCloses(p) ==
  /\ Receives(p)
  /\ ss' = EmitClose(RemoveConnection([ss EXCEPT !.state[p] = "CLOSED"], p), p)

\* cleanupIdleConnections() for one connection: it is CLOSING when it is removed, and its
\* messages go on arriving until the socket closes.
CleanupIdle(p) ==
  /\ p \in ss.managed
  /\ ss' = RemoveConnection(Close(ss, p), p)

\* shutdown() of the manager: all its connections at once.
Shutdown ==
  /\ ss.managed # {}
  /\ \E all \in SetToSeqs(ss.managed) :
       ss' = FoldLeft(LAMBDA s, p : RemoveConnection(Close(s, p), p), ss, all)

\* handleReconnectFailed() cleans up a connection whatever its state.
ReconnectFailed(p) ==
  /\ ss.wired /\ ss.state[p] # "NEW"
  /\ ss' = RemoveListeners(LeaveAll(ss, p), p)

\* handleConnectionError() closes the connection on a fatal error.
ConnectionError(p) ==
  /\ ss.wired /\ ss.state[p] = "OPEN"
  /\ ss' = Close(ss, p)

SessionNext ==
  \/ Shutdown
  \/ \E p \in Peers :
       \/ Accept(p) \/ AuthTimeout(p) \/ RefusalCloses(p) \/ SocketCloses(p)
       \/ CleanupIdle(p) \/ ReconnectFailed(p) \/ ConnectionError(p)
       \/ \E token \in BOOLEAN : Authenticate(p, token)
       \/ \E r \in Rooms : JoinRoom(p, r) \/ LeaveRoom(p, r) \/ RoomMessage(p, r)

SessionSpec == SessionInit /\ [][SessionNext]_ss

-----------------------------------------------------------------------------
\* The authentication of one connection never takes the time limit off another:
\* one that was welcomed, is open and has no user has its timer.
StrangersAreTimed ==
  \A p \in ss.welcomed \ (ss.user \union ss.authTimer) : ss.state[p] # "OPEN"

\* An authentication clears the timer of its connection, unless another connection's had
\* consumed the listener: only then the timer runs on, past the end of the connection too.
ProvenAreUntimed ==
  \A p \in ss.proven \intersect ss.authTimer : \E q \in ss.proven : q # p

\* Every join of a room is followed by one leave that the room is told of, at the latest
\* when the connection is removed, so nothing is said after the leave; only what is joined
\* by a message that arrives after the removal, while the socket closes, is never left.
LeavesAreTold ==
  /\ \A p \in Peers, r \in Rooms :
       ss.joins[p][r] = ss.told[p][r] + (IF r \in ss.rooms[p] THEN 1 ELSE 0)
  /\ \A p \in Peers :
       ss.wired /\ ss.state[p] # "NEW" /\ p \notin ss.managed => ss.rooms[p] \subseteq ss.late[p]
  /\ ss.strayed = {}

-----------------------------------------------------------------------------
(* BaseMessageHandler and MessageRouter: one message through the chain.    *)

RouteInit ==
  \E c \in SeqOf(RouteKinds, MaxRoute), m \in {"invalid", "unknown", "known"},
    h \in {"answers", "fails"} :
    mr = [chain |-> c, message |-> m, handler |-> h, runs |-> 0, entered |-> {},
          outcome |-> "none", told |-> "nothing"]

\* Every next() continues after its own middleware.
ExecuteMiddlewareFromOwn ==
  LET execute[i \in 1..(Len(mr.chain) + 1)] ==
        IF i > Len(mr.chain)
        THEN [index |-> i, runs |-> 1, entered |-> {}, outcome |-> mr.handler]
        ELSE LET a == execute[i + 1]
             IN CASE mr.chain[i] = "next"   -> [a EXCEPT !.entered = @ \union {i}]
                  [] mr.chain[i] = "silent" ->
                       [index |-> i + 1, runs |-> 1, entered |-> {i}, outcome |-> "hangs"]
                  [] mr.chain[i] = "throws" ->
                       [index |-> i + 1, runs |-> 0, entered |-> {i}, outcome |-> "fails"]
                  [] mr.chain[i] = "twice"  ->
                       [a EXCEPT !.entered = @ \union {i}, !.runs = a.runs * 2]
  IN execute[1]

\* executeMiddleware() from an index that all calls of next() share: where the
\* index is left, how often the handler runs, the middlewares entered, and the
\* outcome.  A middleware that calls next() twice settles with the first of the
\* two that settles.
ExecuteMiddleware ==
  LET execute[i \in 1..(Len(mr.chain) + 1)] ==
        IF i > Len(mr.chain)
        THEN [index |-> i, runs |-> 1, entered |-> {}, outcome |-> mr.handler]
        ELSE LET a == execute[i + 1]
                 b == execute[a.index]
                 stays == [index |-> i + 1, runs |-> 0, entered |-> {i}, outcome |-> "hangs"]
             IN CASE mr.chain[i] = "next"   -> [a EXCEPT !.entered = @ \union {i}]
                  [] mr.chain[i] = "silent" -> stays
                  [] mr.chain[i] = "throws" -> [stays EXCEPT !.outcome = "fails"]
                  [] mr.chain[i] = "twice"  ->
                       [index |-> b.index, runs |-> a.runs + b.runs,
                        entered |-> a.entered \union b.entered \union {i},
                        outcome |-> IF a.outcome = "hangs" THEN b.outcome ELSE a.outcome]
  IN execute[1]

\* handleMessage(): an invalid or unknown message is answered with an error, an
\* error of the chain with MESSAGE_PROCESSING_ERROR.
HandleMessage ==
  /\ mr.outcome = "none"
  /\ IF mr.message # "known"
     THEN mr' = [mr EXCEPT !.outcome = "answers", !.told = mr.message]
     ELSE LET e == ExecuteMiddleware
          IN mr' = [mr EXCEPT !.runs = e.runs, !.entered = e.entered,
                              !.outcome = IF e.outcome = "hangs" THEN "hangs" ELSE "answers",
                              !.told = IF e.outcome = "fails" THEN "error" ELSE "nothing"]

RouteDone == mr.outcome # "none" /\ UNCHANGED mr

RouteNext == HandleMessage \/ RouteDone
RouteSpec == RouteInit /\ [][RouteNext]_mr

Kinds(is) == {mr.chain[i] : i \in is}

\* The handler of a message hangs only with a middleware that never calls next(),
\* and a handler that runs in spite of such a middleware, or of one that throws,
\* was reached by the second next() of an earlier one.
StopsHold ==
  /\ mr.outcome = "hangs" => "silent" \in Kinds(mr.entered)
  /\ mr.runs > 0 =>
       \A i \in mr.entered :
         mr.chain[i] \in {"silent", "throws"} =>
           \E k \in mr.entered : k < i /\ mr.chain[k] = "twice"

\* The handler runs once, and once more for each second call of next(), unless a
\* middleware stopped a run.
RunsAreCounted ==
  /\ mr.runs <= 1 + Cardinality({i \in mr.entered : mr.chain[i] = "twice"})
  /\ mr.message = "known" /\ mr.outcome # "none" /\ mr.runs = 0 =>
       Kinds(mr.entered) \intersect {"silent", "throws"} # {}

-----------------------------------------------------------------------------
(* MessageBatcher.                                                         *)

BatcherSessionInit ==
  mb = [batches |-> [k \in BatchKeys |-> <<>>], timers |-> {}, added |-> 0,
        returned |-> <<>>, dropped |-> {}]

FlushBatchOnly(b, k) == [b EXCEPT !.batches[k] = <<>>]

\* flushBatch(): takes the batch and its timer away, and returns the batch.
FlushBatch(b, k) ==
  IF b.batches[k] = <<>> THEN b
  ELSE [b EXCEPT !.batches[k] = <<>>, !.timers = @ \ {k}]

\* What flushBatch() returns to the timer or to addMessage() is lost.
Dropped(b, k) == [FlushBatch(b, k) EXCEPT !.dropped = @ \union ToSet(b.batches[k])]

AddMessageOver(k) ==
  /\ mb.added < MaxBatched
  /\ LET b == [mb EXCEPT !.added = @ + 1, !.batches[k] = Append(@, mb.added + 1),
                          !.timers = @ \union {k}]
     IN mb' = IF Len(b.batches[k]) > BatchFull THEN Dropped(b, k) ELSE b

AddMessage(k) ==
  /\ mb.added < MaxBatched
  /\ LET b == [mb EXCEPT !.added = @ + 1, !.batches[k] = Append(@, mb.added + 1),
                          !.timers = @ \union {k}]
     IN mb' = IF Len(b.batches[k]) >= BatchFull THEN Dropped(b, k) ELSE b

FlushTimer(k) ==
  /\ k \in mb.timers
  /\ mb' = Dropped(mb, k)

\* flushAll(): the batches by key, each in its order.
FlushAll ==
  /\ \E k \in BatchKeys : mb.batches[k] # <<>>
  /\ \E s \in SetToSeqs(BatchKeys) :
       mb' = [FoldLeft(FlushBatch, mb, s)
                EXCEPT !.returned = @ \o FoldLeft(LAMBDA q, k : q \o mb.batches[k], <<>>, s)]

ClearBatches ==
  /\ mb' = [mb EXCEPT !.batches = [k \in BatchKeys |-> <<>>], !.timers = {},
                      !.dropped = @ \union UNION {ToSet(mb.batches[k]) : k \in BatchKeys}]

BatcherSessionNext ==
  \/ FlushAll \/ ClearBatches
  \/ \E k \in BatchKeys : AddMessage(k) \/ FlushTimer(k)
BatcherSessionSpec == BatcherSessionInit /\ [][BatcherSessionNext]_mb

\* A key waits with its timer and below the size of a batch, and no timer runs
\* for a key without messages.
WaitingIsTimed ==
  \A k \in BatchKeys : /\ mb.batches[k] # <<>> <=> k \in mb.timers
                       /\ Len(mb.batches[k]) < BatchFull

\* A message waits, was returned by flushAll() once, or is lost with a batch that
\* its size, its timer or clear() flushed.
MessagesAreAccounted ==
  LET waiting == UNION {ToSet(mb.batches[k]) : k \in BatchKeys}
  IN /\ waiting \union ToSet(mb.returned) \union mb.dropped = 1..mb.added
     /\ Cardinality(waiting) + Len(mb.returned) + Cardinality(mb.dropped) = mb.added
=============================================================================
