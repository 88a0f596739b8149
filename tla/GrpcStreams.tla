----------------------------- MODULE GrpcStreams -----------------------------
(***************************************************************************)
(* packages/protocol-grpc/src/streaming: the batches of a client stream,   *)
(* the event streams of a server and the server of bidirectional streams.  *)
(***************************************************************************)
EXTENDS Integers, SequencesExt

(***************************************************************************)
(* ClientStream of packages/protocol-grpc/src/streaming/client-stream.ts:  *)
(* items are buffered and sent in batches, by the write() that fills one,  *)
(* by a timer, by end() and by the retry of a batch that failed.  A batch  *)
(* that failed is put back as a whole.                                     *)
(***************************************************************************)

CONSTANTS CsItems,      \* bound: items written, numbered in that order
          CsBatch,      \* batchSize
          CsRetries,    \* maxRetries
          CsMessages    \* maxMessages of the handler

ClientStreamAssumption == CsBatch \in Nat \ {0} /\ CsRetries \in Nat

VARIABLE cs

\* active: isActive; handler: that of the handler; timer: the flush timer runs; retrying:
\* retries whose timeout is pending; flights: the flush() calls that await, each with the
\* items it has sent; end: of end() or cancel().  History: written; times, how often each
\* item went through the handler; back, items put back; lost, those of batches given up
\* or cancelled; late, those that did not wait in the buffer when end() flushed it
ClientInit == cs = [active |-> TRUE, handler |-> TRUE, timer |-> TRUE, messages |-> 0,
                    buffer |-> <<>>, retryCount |-> 0, retrying |-> 0, flights |-> {},
                    end |-> "none", written |-> 0, times |-> [i \in 1..CsItems |-> 0],
                    back |-> {}, lost |-> {}, late |-> {}]

With(c, f) == [c EXCEPT !.flights = @ \cup {f}]
Without(c, f) == [c EXCEPT !.flights = @ \ {f}]

\* the handler's send() for the next item of a batch: it throws when it is not active or
\* at its limit, and when a listener of "message:sent" does, the message being counted
Attempts(c, f) ==
  IF ~c.handler \/ c.messages >= CsMessages THEN {With(c, [f EXCEPT !.failed = TRUE])}
  ELSE {With([c EXCEPT !.messages = @ + 1, !.times[f.batch[f.pos + 1]] = @ + 1],
             [f EXCEPT !.pos = @ + 1, !.failed = throws]) : throws \in BOOLEAN}

\* Mutant of Flushes: the buffer is emptied when the batch is sent, not when it is taken.
FlushesKeeping(c, by) ==
  IF c.buffer = <<>> THEN {c}
  ELSE Attempts(c, [by |-> by, batch |-> c.buffer, pos |-> 0, failed |-> FALSE])

\* flush() up to its first await: the outcomes it may have
Flushes(c, by) ==
  IF c.buffer = <<>> THEN {c}
  ELSE Attempts([c EXCEPT !.buffer = <<>>],
                [by |-> by, batch |-> c.buffer, pos |-> 0, failed |-> FALSE])

\* write()
Write ==
  /\ cs.active /\ cs.written < CsItems
  /\ LET c == [cs EXCEPT !.written = @ + 1, !.buffer = Append(@, cs.written + 1),
                         !.late = IF cs.end = "none" THEN @ ELSE @ \cup {cs.written + 1}] IN
     cs' \in IF Len(c.buffer) >= CsBatch THEN Flushes(c, "write") ELSE {c}

\* the flush timer, and the timeout of a retry
Tick == cs.timer /\ cs.buffer # <<>> /\ cs' \in Flushes(cs, "timer")
Retry == cs.retrying > 0 /\ cs' \in Flushes([cs EXCEPT !.retrying = @ - 1], "retry")

\* sendBatch() goes on with its next item
SendNext(f) ==
  /\ ~f.failed /\ f.pos < Len(f.batch)
  /\ cs' \in Attempts(Without(cs, f), f)

\* end() after its flush(): the handler stops, and isActive follows after its await
Stops(c, f) == IF f.by = "end" THEN [c EXCEPT !.timer = FALSE, !.handler = FALSE,
                                              !.end = "closing"]
               ELSE c

\* sendBatch() has sent them all
FlushEnds(f) ==
  /\ ~f.failed /\ f.pos = Len(f.batch)
  /\ cs' = Stops([Without(cs, f) EXCEPT !.retryCount = 0], f)

\* Mutant of FlushFails: only what was not sent is put back, and it is put last.
FlushFailsLast(f) ==
  /\ f.failed
  /\ cs' = IF cs.retryCount < CsRetries
           THEN Stops([Without(cs, f) EXCEPT
                         !.retryCount = @ + 1, !.retrying = @ + 1,
                         !.buffer = @ \o SubSeq(f.batch, f.pos + 2, Len(f.batch)),
                         !.back = @ \cup ToSet(f.batch)], f)
           ELSE [Without(cs, f) EXCEPT !.lost = @ \cup ToSet(f.batch),
                                       !.end = IF f.by = "end" THEN "failed" ELSE @]

\* the catch of flush(): the batch is put back and a retry is set, or it is given up
FlushFails(f) ==
  /\ f.failed
  /\ cs' = IF cs.retryCount < CsRetries
           THEN Stops([Without(cs, f) EXCEPT
                         !.retryCount = @ + 1, !.retrying = @ + 1,
                         !.buffer = f.batch \o @, !.back = @ \cup ToSet(f.batch)], f)
           ELSE [Without(cs, f) EXCEPT !.lost = @ \cup ToSet(f.batch),
                                       !.end = IF f.by = "end" THEN "failed" ELSE @]

InFlight == UNION {ToSet(f.batch) : f \in cs.flights}

\* Mutant of ClientEnd: the buffer is not flushed.
EndUnflushed ==
  /\ cs.active /\ cs.end \in {"none", "failed"}
  /\ cs' = Stops([cs EXCEPT !.late = @ \cup InFlight], [by |-> "end"])

\* end() up to its first await
ClientEnd ==
  /\ cs.active /\ cs.end \in {"none", "failed"}
  /\ LET c == [cs EXCEPT !.end = "flushing", !.late = @ \cup InFlight] IN
     cs' \in IF cs.buffer = <<>> THEN {Stops(c, [by |-> "end"])} ELSE Flushes(c, "end")

EndCloses ==
  /\ cs.end = "closing"
  /\ cs' = [cs EXCEPT !.active = FALSE, !.end = "ended"]

\* cancel() up to its await, and after it
Cancel ==
  /\ cs.active /\ cs.end \in {"none", "failed"}
  /\ cs' = [cs EXCEPT !.timer = FALSE, !.handler = FALSE, !.end = "cancelling"]
CancelEnds ==
  /\ cs.end = "cancelling"
  /\ cs' = [cs EXCEPT !.active = FALSE, !.end = "cancelled", !.buffer = <<>>,
                      !.lost = @ \cup ToSet(cs.buffer)]

ClientNext ==
  \/ Write \/ Tick \/ Retry \/ ClientEnd \/ EndCloses \/ Cancel \/ CancelEnds
  \/ \E f \in cs.flights : SendNext(f) \/ FlushEnds(f) \/ FlushFails(f)

ClientSpec == ClientInit /\ [][ClientNext]_cs

-----------------------------------------------------------------------------
(* Properties.                                                             *)

\* Every item that write() took was sent, waits, is under way, or was in a batch that
\* was given up or cancelled.
NothingVanishes ==
  \A i \in 1..cs.written :
    cs.times[i] > 0 \/ i \in ToSet(cs.buffer) \cup InFlight \cup cs.lost

\* An item is sent twice only if its batch failed after the item and was put back.
TwiceOnlyIfPutBack == \A i \in 1..cs.written : cs.times[i] > 1 => i \in cs.back

\* end() resolves although items are not sent: items whose batch failed and waits for a
\* retry, which the stopped handler refuses, or that end() did not see.  It resolves for no
\* other reason.
EndedIsSent ==
  cs.end = "ended" =>
    \A i \in 1..cs.written : cs.times[i] > 0 \/ i \in cs.back \cup cs.late \cup cs.lost

-----------------------------------------------------------------------------
(***************************************************************************)
(* RealTimeEventStream over ServerStream, of packages/protocol-grpc/src/   *)
(* streaming/server-stream.ts: events are kept in a bounded buffer, sent   *)
(* when there are subscribers, and all sent again for each new subscriber. *)
(* Every send() waits for its throttle timer; the stream knows only the    *)
(* one that was set last, and end() clears that.  The handler's send() is  *)
(* refused at its limit of messages, and polls while its buffer is full.   *)
(***************************************************************************)

CONSTANTS StreamEvents,  \* bound: events published, numbered in that order
          EventsMax,     \* maxBufferSize
          HandlerBuffer, \* bufferSize of the handler
          HandlerLimit,  \* maxMessages of the handler
          Subscribers,
          MaxJoins,      \* bound: calls of addSubscriber()
          MaxStarts      \* bound: calls of start() that start

EventStreamAssumption == EventsMax \in Nat \ {0} /\ HandlerBuffer \in Nat \ {0}

VARIABLE es

\* active, handler: isActive of the stream and of its handler; kept: eventBuffer; timers:
\* the calls whose throttle timer runs, in the order of their timers, which are equally
\* long; a call is the events it has still to send, and whether it replays them; polls:
\* the calls that poll for room in the handler's buffer, of whose messages there are full.
\* messages: messageCount.  History: starts, joins; live, events published to subscribers;
\* sent, the events sent, with their replays and whether they polled; failed, events of
\* calls that threw, replays aside; hung, calls whose timer end() cleared; ends
EventInit == es = [active |-> FALSE, handler |-> FALSE, closing |-> FALSE, kept |-> <<>>,
                   full |-> 0, messages |-> 0, polls |-> <<>>,
                   subscribers |-> {}, timers |-> <<>>, starts |-> 0, joins |-> 0, published |-> 0,
                   live |-> {}, sent |-> <<>>, failed |-> {}, hung |-> <<>>, ends |-> 0]

\* start()
Start ==
  /\ ~es.active /\ es.starts < MaxStarts
  /\ es' = [es EXCEPT !.active = TRUE, !.handler = TRUE, !.starts = @ + 1]

Throw(e, call) == IF call.replay THEN e ELSE [e EXCEPT !.failed = @ \cup ToSet(call.events)]

\* send() up to its await, for the first event of a call
Sends(e, call) ==
  IF e.active THEN [e EXCEPT !.timers = Append(@, call)]
  ELSE Throw(e, call)

\* Mutant of Trim: the newest event makes room.
TrimNewest(events) == IF Len(events) > EventsMax THEN Front(events) ELSE events

\* the bound of eventBuffer: the oldest event makes room
Trim(events) == IF Len(events) > EventsMax THEN Tail(events) ELSE events

\* publishEvent()
Publish ==
  LET i == es.published + 1
      e == [es EXCEPT !.published = i, !.kept = Trim(Append(@, i))] IN
  /\ i <= StreamEvents
  /\ es' = IF es.active /\ es.subscribers # {}
           THEN Sends([e EXCEPT !.live = @ \cup {i}], [events |-> <<i>>, replay |-> FALSE])
           ELSE e

\* addSubscriber()
AddSubscriber(s) ==
  /\ s \notin es.subscribers /\ es.joins < MaxJoins
  /\ LET e == [es EXCEPT !.subscribers = @ \cup {s}, !.joins = @ + 1] IN
     es' = IF es.kept = <<>> THEN e ELSE Sends(e, [events |-> es.kept, replay |-> TRUE])

\* removeSubscriber()
RemoveSubscriber(s) ==
  /\ s \in es.subscribers
  /\ es' = [es EXCEPT !.subscribers = @ \ {s}]

\* clearEventBuffer()
ClearBuffer ==
  /\ es.kept # <<>>
  /\ es' = [es EXCEPT !.kept = <<>>]

\* the handler pushes the first event of a call, whose next one takes its turn
Push(e, call, polled) ==
  LET sent == [e EXCEPT !.full = @ + 1, !.messages = @ + 1,
                        !.sent = Append(@, [event |-> Head(call.events),
                                            replay |-> call.replay, polled |-> polled])]
      rest == Tail(call.events) IN
  IF rest = <<>> THEN sent ELSE Sends(sent, [call EXCEPT !.events = rest])

\* Mutant of HandlerSends: a send() that finds the handler at its limit returns.
HandlerSendsQuietly(e, call) ==
  IF ~e.handler THEN Throw(e, call)
  ELSE IF e.messages >= HandlerLimit THEN e
  ELSE IF e.full >= HandlerBuffer THEN [e EXCEPT !.polls = Append(@, call)]
  ELSE Push(e, call, FALSE)

\* send() of the handler up to handleBackpressure(): it throws, polls for room, or pushes
HandlerSends(e, call) ==
  IF ~e.handler \/ e.messages >= HandlerLimit THEN Throw(e, call)
  ELSE IF e.full >= HandlerBuffer THEN [e EXCEPT !.polls = Append(@, call)]
  ELSE Push(e, call, FALSE)

\* the throttle timer of a call fires
TimerFires ==
  /\ es.timers # <<>>
  /\ es' = HandlerSends([es EXCEPT !.timers = Tail(@)], Head(es.timers))

\* Mutant of Polled: the event that waited longest is pushed again by the one that found room.
PolledFirst(i) ==
  /\ es.full * 10 < HandlerBuffer * 8
  /\ es' = Push([es EXCEPT !.polls = RemoveAt(@, i)], es.polls[1], TRUE)

\* a call that polls finds room, in whatever state the handler is by now; its polls are 10 ms
\* apart, so that any of them may be the first
Polled(i) ==
  /\ es.full * 10 < HandlerBuffer * 8
  /\ es' = Push([es EXCEPT !.polls = RemoveAt(@, i)], es.polls[i], TRUE)

\* receive() takes a message
Receive == es.full > 0 /\ es' = [es EXCEPT !.full = @ - 1]

\* end() up to its await: the handler stops and drops the messages nobody has received
EventEnd ==
  /\ es.active /\ ~es.closing
  /\ es' = [es EXCEPT !.handler = FALSE, !.closing = TRUE, !.full = 0]

\* Mutant of EndEnds: all the timers are cleared.
EndEndsAll ==
  /\ es.closing
  /\ es' = [es EXCEPT !.active = FALSE, !.closing = FALSE, !.ends = @ + 1,
                      !.timers = <<>>, !.hung = @ \o es.timers]

\* end() after its await: throttleTimer is cleared, and the call that waits for it hangs
EndEnds ==
  /\ es.closing
  /\ es' = [es EXCEPT !.active = FALSE, !.closing = FALSE, !.ends = @ + 1,
                      !.timers = IF @ = <<>> THEN @ ELSE Front(@),
                      !.hung = IF es.timers = <<>> THEN @ ELSE Append(@, Last(es.timers))]

EventNext ==
  \/ Start \/ Publish \/ ClearBuffer \/ TimerFires \/ Receive \/ EventEnd \/ EndEnds
  \/ \E i \in DOMAIN es.polls : Polled(i)
  \/ \E s \in Subscribers : AddSubscriber(s) \/ RemoveSubscriber(s)

EventSpec == EventInit /\ [][EventNext]_es

-----------------------------------------------------------------------------
(* Properties.                                                             *)

Fresh == SelectSeq(es.sent, LAMBDA x : ~x.replay)
FreshOf(calls, i) == SelectSeq(calls, LAMBDA c : ~c.replay /\ i \in ToSet(c.events))

\* An event that was published to subscribers is in one place only: it is sent, waits for its
\* timer or for room, was refused, or hangs because of an end(); nothing else happens to it.
LiveIsAccounted ==
  \A i \in es.live :
    Len(SelectSeq(Fresh, LAMBDA x : x.event = i)) + (IF i \in es.failed THEN 1 ELSE 0)
      + Len(FreshOf(es.timers \o es.polls \o es.hung, i)) = 1

\* No more calls hang than streams were ended.
OneHangsPerEnd == Len(es.hung) <= es.ends

\* Events are sent in the order they were published in, once, replays aside; only an event
\* that had to poll for room is overtaken.
FreshInOrder ==
  \A k, l \in 1..Len(Fresh) :
    k < l => Fresh[k].event < Fresh[l].event \/ (Fresh[k].event # Fresh[l].event /\ Fresh[l].polled)

\* The handler takes more messages than its limit only from calls that were under the limit
\* when they began to poll for room.
LimitUnlessPolled ==
  Len(es.sent) > HandlerLimit => \E k \in 1..Len(es.sent) : es.sent[k].polled

\* The buffer holds the newest events.
NewestAreKept ==
  es.kept # <<>> => /\ Last(es.kept) = es.published /\ Len(es.kept) <= EventsMax
                    /\ \A k \in 1..Len(es.kept) - 1 : es.kept[k + 1] = es.kept[k] + 1

-----------------------------------------------------------------------------
(***************************************************************************)
(* BidirectionalStreamServer of packages/protocol-grpc/src/streaming/      *)
(* bidirectional-stream.ts: handlers by the id of their connection, each   *)
(* of which takes its id out of the map when it stops, whosever it is now. *)
(***************************************************************************)

CONSTANTS StreamIds,     \* ids of connections
          MaxHandlers    \* bound: handlers of a behaviour

VARIABLE sv

Streams == 1..MaxHandlers

\* of: the id of a handler; at: none, starting (handleConnection() awaits its start),
\* active, stopping (its streams have stopped, the event is to come) or stopped;
\* conns: the handler of an id, 0 without one; closing: stop() of the server awaits.
\* closes: handlers whose closeConnection() is to end; history: swept, ids that
\* stop() cleared
ServerInit == sv = [of |-> [h \in Streams |-> "none"], at |-> [h \in Streams |-> "none"],
                    conns |-> [i \in StreamIds |-> 0], closing |-> FALSE,
                    closes |-> {}, swept |-> {}]

\* handleConnection() up to its await
Accept(i) ==
  \E h \in Streams :
    /\ sv.at[h] = "none" /\ \A g \in Streams : g < h => sv.at[g] # "none"
    /\ sv' = [sv EXCEPT !.of[h] = i, !.at[h] = "starting"]

\* Mutant of Register: a server that stops takes no more handlers into its map.
RegisterUnlessClosing(h) ==
  /\ sv.at[h] = "starting"
  /\ sv' = [sv EXCEPT !.at[h] = "active", !.conns[sv.of[h]] = IF sv.closing THEN @ ELSE h]

\* handleConnection() after it
Register(h) ==
  /\ sv.at[h] = "starting"
  /\ sv' = [sv EXCEPT !.at[h] = "active", !.conns[sv.of[h]] = h]

\* stop() of a handler by its user, who may call it again
HandlerStops(h) ==
  /\ sv.at[h] \in {"active", "stopped"} /\ h \notin sv.closes
  /\ sv' = [sv EXCEPT !.at[h] = "stopping"]

\* closeConnection() up to its await
CloseConnection(i) ==
  /\ sv.conns[i] # 0 /\ sv.conns[i] \notin sv.closes
  /\ sv' = [sv EXCEPT !.at[sv.conns[i]] = "stopping", !.closes = @ \cup {sv.conns[i]}]

\* and after it: the id goes once more
CloseEnds(h) ==
  /\ h \in sv.closes /\ sv.at[h] = "stopped"
  /\ sv' = [sv EXCEPT !.closes = @ \ {h}, !.conns[sv.of[h]] = 0]

\* Mutant of Stopped: the map is left as it is.
StoppedQuietly(h) ==
  /\ sv.at[h] = "stopping"
  /\ sv' = [sv EXCEPT !.at[h] = "stopped"]

\* the event stream:stopped of a handler
Stopped(h) ==
  /\ sv.at[h] = "stopping"
  /\ sv' = [sv EXCEPT !.at[h] = "stopped", !.conns[sv.of[h]] = 0]

\* stop() of the server up to its await: the handlers of the map stop
Stop ==
  /\ ~sv.closing
  /\ sv' = [sv EXCEPT !.closing = TRUE,
              !.at = [h \in Streams |->
                 IF @[h] = "active" /\ sv.conns[sv.of[h]] = h THEN "stopping" ELSE @[h]]]

\* and after it: whatever is in the map by then is taken out
StopEnds ==
  /\ sv.closing /\ \A h \in Streams : sv.at[h] # "stopping"
  /\ sv' = [sv EXCEPT !.closing = FALSE, !.conns = [i \in StreamIds |-> 0],
              !.swept = @ \cup {i \in StreamIds : sv.conns[i] # 0}]

ServerNext ==
  \/ Stop \/ StopEnds
  \/ \E i \in StreamIds : Accept(i) \/ CloseConnection(i)
  \/ \E h \in Streams : Register(h) \/ CloseEnds(h) \/ HandlerStops(h) \/ Stopped(h)

ServerSpec == ServerInit /\ [][ServerNext]_sv

-----------------------------------------------------------------------------
(* Properties.                                                             *)

\* The map names handlers of its ids that run; a handler that runs is in the map,
\* unless another one had its id, or stop() cleared what had come during its
\* await: such a handler no stop() of the server reaches any more.
ServerKnowsStreams ==
  /\ \A i \in StreamIds : sv.conns[i] # 0 =>
       sv.of[sv.conns[i]] = i /\ sv.at[sv.conns[i]] \in {"active", "stopping"}
  /\ \A h \in Streams : sv.at[h] = "active" /\ sv.conns[sv.of[h]] # h =>
       sv.of[h] \in sv.swept \/ \E g \in Streams \ {h} : sv.of[g] = sv.of[h]
=============================================================================
