------------------------------- MODULE UcpCore -------------------------------
(***************************************************************************)
(* packages/protocol-ucp/src/core: the transport layer with its            *)
(* connections, and the manager that creates servers and clients.          *)
(***************************************************************************)
EXTENDS Integers, Sequences, FiniteSets

(***************************************************************************)
(* WebSocketTransport with the reconnection of BaseTransport, of packages/ *)
(* protocol-ucp/src/core/transport-layer.ts: sockets whose events arrive   *)
(* at any time and all write to the same fields, a timer that is set again *)
(* by whatever fails, and requests that wait for the answer of their id.   *)
(***************************************************************************)

CONSTANTS UcpSockets,      \* bound: sockets of a behaviour
          UcpReconnects,   \* maxReconnectAttempts
          UcpRequests,     \* requests, numbered
          Ids              \* ids of messages

UcpTransportAssumption == UcpSockets \in Nat \ {0} /\ UcpReconnects \in Nat

VARIABLE ut

Socks == 1..UcpSockets
Reqs == 1..UcpRequests

\* made: sockets so far, the last one is this.ws; sock: "leaving" when the peer has begun to
\* close it, "closing" when disconnect() has, both being CLOSING until onclose; by: who awaits connect();
\* timer, beat: the timer of the handle is pending; timers, beats: others that are
\* pending.  History: overlap, a socket was made before another had closed; gone, the
\* caller has disconnected; slipped, something outlived the disconnection.
TransportInit == ut = [status |-> "idle", made |-> 0, sock |-> [s \in Socks |-> "none"],
                       by |-> [s \in Socks |-> "none"], attempts |-> 0,
                       timer |-> FALSE, timers |-> 0, beat |-> FALSE, beats |-> 0,
                       req |-> [r \in Reqs |-> "none"], id |-> [r \in Reqs |-> 0],
                       handler |-> [i \in Ids |-> 0],
                       overlap |-> FALSE, gone |-> FALSE, slipped |-> FALSE]

Live == {s \in Socks : ut.sock[s] \in {"opening", "open"}}

\* Mutant of Again: the bound on the attempts is not looked at.
AgainAlways(u) ==
  [u EXCEPT !.attempts = @ + 1, !.status = "connecting",
            !.timers = IF u.timer THEN @ + 1 ELSE @, !.timer = TRUE,
            !.slipped = @ \/ u.gone]

\* handleReconnect(): a timer that is pending is left to itself
Again(u) ==
  IF u.attempts >= UcpReconnects THEN u
  ELSE [u EXCEPT !.attempts = @ + 1, !.status = "connecting",
                 !.timers = IF u.timer THEN @ + 1 ELSE @, !.timer = TRUE,
                 !.slipped = @ \/ u.gone]

\* connect() up to its await
Socket(u, who) ==
  LET s == u.made + 1 IN
  [u EXCEPT !.status = "connecting", !.made = s, !.sock[s] = "opening", !.by[s] = who,
            !.overlap = @ \/ Live # {} \/ \E k \in Socks : u.sock[k] \in {"failed", "leaving", "closing"}]

\* connect() of the caller
Connect ==
  /\ ut.made < UcpSockets
  /\ ut' = Socket([ut EXCEPT !.gone = FALSE, !.slipped = FALSE], "caller")

\* a reconnect timer fires, the handle's or one that was left to itself
TimerFires ==
  /\ ut.made < UcpSockets
  /\ \/ ut.timer /\ ut' = Socket([ut EXCEPT !.timer = FALSE], "timer")
     \/ ut.timers > 0 /\ ut' = Socket([ut EXCEPT !.timers = @ - 1], "timer")

\* onopen, and what awaited connect(): the heartbeat's handle is overwritten
Open(s) ==
  /\ ut.sock[s] = "opening"
  /\ ut' = [ut EXCEPT !.sock[s] = "open", !.status = "connected",
              !.beats = IF ut.beat THEN @ + 1 ELSE @, !.beat = TRUE,
              !.attempts = IF ut.by[s] = "timer" THEN 0 ELSE @]

\* onerror, and the rejection of connect(); onclose is still to come
Error(s) ==
  /\ s \in Live \/ ut.sock[s] \in {"leaving", "closing"}
  /\ LET u == [ut EXCEPT !.sock[s] = "failed", !.status = "error"] IN
     ut' = IF ut.sock[s] = "opening" /\ ut.by[s] = "timer" THEN Again(u) ELSE u

\* the peer closes the socket, or the connection is lost: nobody is told before onclose
PeerCloses(s) ==
  /\ ut.sock[s] = "open"
  /\ ut' = [ut EXCEPT !.sock[s] = "leaving"]

\* Mutant of Close: the heartbeat goes on.
CloseBeating(s, normal) ==
  /\ ut.sock[s] \in {"leaving", "failed", "closing"}
  /\ ut.sock[s] = "failed" => ~normal
  /\ LET u == [ut EXCEPT !.sock[s] = "closed", !.status = "disconnected"] IN
     ut' = IF normal THEN u ELSE Again(u)

\* onclose, with code 1000 or another
Close(s, normal) ==
  /\ ut.sock[s] \in {"leaving", "failed", "closing"}
  /\ ut.sock[s] = "failed" => ~normal
  /\ LET u == [ut EXCEPT !.sock[s] = "closed", !.status = "disconnected", !.beat = FALSE] IN
     ut' = IF normal THEN u ELSE Again(u)

\* Mutant of Disconnect: the timer is not cleared.
DisconnectLate ==
  /\ ut' = [ut EXCEPT !.beat = FALSE, !.status = "disconnected", !.gone = TRUE,
              !.slipped = ut.timers > 0 \/ \E s \in Live : s # ut.made \/ ut.sock[s] = "opening",
              !.sock = [s \in Socks |-> IF s = ut.made /\ @[s] = "open" THEN "closing" ELSE @[s]]]

\* disconnect(): a socket that is opening, or not the last one, stays
Disconnect ==
  /\ ut' = [ut EXCEPT !.timer = FALSE, !.beat = FALSE, !.status = "disconnected",
              !.gone = TRUE,
              !.slipped = ut.timers > 0 \/ \E s \in Live : s # ut.made \/ ut.sock[s] = "opening",
              !.sock = [s \in Socks |-> IF s = ut.made /\ @[s] = "open" THEN "closing" ELSE @[s]]]

CanSend == ut.made > 0 /\ ut.sock[ut.made] = "open"

\* request() over an open socket
Request(r, i) ==
  /\ ut.req[r] = "none" /\ CanSend
  /\ ut' = [ut EXCEPT !.req[r] = "pending", !.id[r] = i, !.handler[i] = r]

\* Mutant of Answer: the handler stays registered.
AnswerKeeping(i) ==
  /\ ut.handler[i] # 0 /\ \E s \in Socks : ut.sock[s] \in {"open", "closing"}
  /\ ut' = [ut EXCEPT !.req[ut.handler[i]] = "answered"]

\* onmessage with the response to an id, over any socket, also one that disconnect() is closing
Answer(i) ==
  /\ ut.handler[i] # 0 /\ \E s \in Socks : ut.sock[s] \in {"open", "closing"}
  /\ ut' = [ut EXCEPT !.req[ut.handler[i]] = "answered", !.handler[i] = 0]

\* the timer of a request: the handler of its id goes, whosever it is
TimedOut(r) ==
  /\ ut.req[r] = "pending"
  /\ ut' = [ut EXCEPT !.req[r] = "timedOut", !.handler[ut.id[r]] = 0]

TransportNext ==
  \/ Connect \/ TimerFires \/ Disconnect
  \/ \E s \in Socks : \/ Open(s) \/ Error(s) \/ PeerCloses(s)
                      \/ \E normal \in BOOLEAN : Close(s, normal)
  \/ \E r \in Reqs : TimedOut(r) \/ \E i \in Ids : Request(r, i)
  \/ \E i \in Ids : Answer(i)

TransportSpec == TransportInit /\ [][TransportNext]_ut

-----------------------------------------------------------------------------
(* Properties.                                                             *)

\* Attempts are bounded; timers left to themselves took an attempt each.
TransportTypeOK ==
  /\ ut.attempts \in 0..UcpReconnects
  /\ ut.made \in 0..UcpSockets

\* A transport that reports itself connected has a socket that is open or that its peer is
\* closing, and send() and request() go through unless the last socket is being closed so or
\* sockets overlapped: the last one made need not be the one that is open.
ConnectedCanSend ==
  ut.status = "connected" =>
    /\ \E s \in Socks : ut.sock[s] \in {"open", "leaving"}
    /\ ~ut.overlap => CanSend \/ ut.sock[ut.made] = "leaving"

\* A heartbeat is out of its handle's reach only after two sockets overlapped, and
\* without such an overlap no heartbeat runs without a socket.
HeartbeatsHeld ==
  ~ut.overlap =>
    /\ ut.beats = 0
    /\ ut.beat => \E s \in Socks : ut.sock[s] \in {"open", "leaving", "failed"}

\* After disconnect() the transport comes back only by what slipped through it: a
\* socket that was opening or had been replaced, a timer out of the handle's reach,
\* or a close that did not end normally.
StaysDisconnected ==
  ut.gone /\ ~ut.slipped => Live = {} /\ ~ut.timer /\ ut.timers = 0

\* A handler is that of a pending request, and a pending request without one has
\* shared its id with another request.
HandlersExact ==
  /\ \A i \in Ids : LET r == ut.handler[i] IN
       r # 0 => ut.req[r] = "pending" /\ ut.id[r] = i
  /\ \A r \in Reqs : ut.req[r] = "pending" /\ ut.handler[ut.id[r]] # r =>
       \E q \in Reqs \ {r} : ut.id[q] = ut.id[r]

-----------------------------------------------------------------------------
(***************************************************************************)
(* UCPManager of packages/protocol-ucp/src/core/ucp-manager.ts on the      *)
(* lifecycle of its core: the servers it starts and stops by its hooks,    *)
(* the handlers it hands to them, and the clients it creates, under a key  *)
(* made of their target and the time.                                      *)
(***************************************************************************)

CONSTANTS UcpProtocols,   \* the protocols of config.protocols
          UcpEnabled,     \* those that are enabled
          UcpHandlers,    \* services that handlers are registered for
          MaxServers,     \* bound: servers registered
          MaxClients      \* bound: clients created

UcpManagerAssumption == UcpEnabled \subseteq UcpProtocols

VARIABLE um

\* servers: all ever registered: their protocol, state ("down", "starting", "up", "stopping"
\* or "failed") and handlers; of: the Map servers, 0 being none; clients: all ever created:
\* their key, whether the Map has them, whether they are open; state: of the lifecycle; hook:
\* what the hook of the manager waits for.  History: before, the handlers that were registered
\* before a server; late, the client was created while the others were closed;
\* twin, another client took its key
ManagerInit == um = [state |-> "created", hook |-> "none", servers |-> <<>>,
                     of |-> [p \in UcpProtocols |-> 0], handlers |-> {}, clients |-> <<>>]

Mapped(m) == {m.of[p] : p \in UcpProtocols} \ {0}
In(state) == {i \in Mapped(um) : um.servers[i].state = state}

\* registerServer(): it replaces the server of the protocol, and does not get the handlers
\* that are registered already
RegisterServer(p) ==
  /\ Len(um.servers) < MaxServers
  /\ um' = [um EXCEPT !.of[p] = Len(um.servers) + 1,
                      !.servers = Append(@, [proto |-> p, state |-> "down", handlers |-> {},
                                             before |-> um.handlers])]

\* registerHandler(): every server of the Map gets it
RegisterHandler(h) ==
  um' = [um EXCEPT !.handlers = @ \cup {h},
                   !.servers = [i \in DOMAIN @ |->
                      IF i \in Mapped(um)
                      THEN [@[i] EXCEPT !.handlers = @ \cup {h}, !.before = @ \ {h}] ELSE @[i]]]

\* Mutant of UnregisterHandler: only the servers that are up lose it.
UnregisterHandlerOfUp(h) ==
  /\ h \in um.handlers
  /\ um' = [um EXCEPT !.handlers = @ \ {h},
                      !.servers = [i \in DOMAIN @ |->
                         IF i \in In("up")
                         THEN [@[i] EXCEPT !.handlers = @ \ {h}, !.before = @ \ {h}] ELSE @[i]]]

UnregisterHandler(h) ==
  /\ h \in um.handlers
  /\ um' = [um EXCEPT !.handlers = @ \ {h},
                      !.servers = [i \in DOMAIN @ |->
                         IF i \in Mapped(um)
                         THEN [@[i] EXCEPT !.handlers = @ \ {h}, !.before = @ \ {h}] ELSE @[i]]]

\* createClient(): another of the same target in the same millisecond has the same key
CreateClient(sameKey) ==
  LET n == Len(um.clients)
      key == IF sameKey THEN um.clients[n].key ELSE n + 1 IN
  /\ n < MaxClients /\ (sameKey => n > 0)
  /\ um' = [um EXCEPT
       !.clients = Append([i \in DOMAIN @ |-> IF @[i].key = key
                                              THEN [@[i] EXCEPT !.known = FALSE, !.twin = TRUE]
                                              ELSE @[i]],
                          [key |-> key, known |-> TRUE, open |-> TRUE, twin |-> FALSE,
                           late |-> um.hook = "closing"])]

Become(m, is, state) ==
  [m EXCEPT !.servers = [i \in DOMAIN @ |-> IF i \in is THEN [@[i] EXCEPT !.state = state]
                                            ELSE @[i]]]

Pending(m, state) == \E i \in DOMAIN m.servers : m.servers[i].state = state
Moves(m, state) == IF m.state = "error" THEN m ELSE [m EXCEPT !.state = state]

\* The servers have started, the manager has, unless its hook had timed out.
Started(m) ==
  IF m.hook = "start" /\ ~Pending(m, "starting")
  THEN [Moves(m, "started") EXCEPT !.hook = "none"] ELSE m

\* Mutant of Stopped: the clients are not closed.
StoppedForgetting(m) == [m EXCEPT !.hook = "closing"]

\* stopUCPManager() once the servers have stopped: the clients of the Map are closed
Stopped(m) ==
  [m EXCEPT !.hook = "closing",
            !.clients = [i \in DOMAIN @ |-> [@[i] EXCEPT !.open = @ /\ ~m.clients[i].known]]]

\* start(), and startUCPManager() up to its await
Start ==
  LET is == {i \in Mapped(um) : um.servers[i].proto \in UcpEnabled} IN
  /\ um.state \in {"created", "stopped"}
  /\ um' = Started(Become([um EXCEPT !.state = "starting", !.hook = "start"], is, "starting"))

\* Mutant of ServerFails: the servers that start are not waited for, nor is their failure.
ServerFailsQuietly(i) ==
  /\ um.servers[i].state = "starting"
  /\ um' = Started(Become(um, {i}, "failed"))

\* start() of a server resolves or rejects; the first that rejects ends the hook, and the
\* others go on
ServerUp(i) ==
  um.servers[i].state = "starting" /\ um' = Started(Become(um, {i}, "up"))
ServerFails(i) ==
  /\ um.servers[i].state = "starting"
  /\ um' = [Become(um, {i}, "failed") EXCEPT
              !.state = IF um.hook = "start" THEN "error" ELSE @,
              !.hook = IF @ = "start" THEN "none" ELSE @]

\* stop(), and stopUCPManager() up to its first await: the servers of the Map, also those
\* that were never started
Stop ==
  /\ um.state = "started"
  /\ LET m == Become([um EXCEPT !.state = "stopping", !.hook = "stop"], Mapped(um), "stopping") IN
     um' = IF Mapped(um) = {} THEN Stopped(m) ELSE m

ServerDown(i) ==
  /\ um.servers[i].state = "stopping"
  /\ LET m == Become(um, {i}, "down") IN
     um' = IF m.hook = "stop" /\ ~Pending(m, "stopping") THEN Stopped(m) ELSE m
StopFails(i) ==
  /\ um.servers[i].state = "stopping"
  /\ um' = [Become(um, {i}, "failed") EXCEPT
              !.state = IF um.hook = "stop" THEN "error" ELSE @,
              !.hook = IF @ = "stop" THEN "none" ELSE @]

\* the clients are closed: the Map is cleared
Clear ==
  /\ um.hook = "closing"
  /\ um' = [Moves(um, "stopped") EXCEPT
              !.hook = "none", !.clients = [i \in DOMAIN @ |-> [@[i] EXCEPT !.known = FALSE]]]

\* The lifecycle waits for a hook for a time only; no call leaves the error state, while the
\* hook goes on.
HookTimesOut ==
  um.state \in {"starting", "stopping"} /\ um' = [um EXCEPT !.state = "error"]

ManagerNext ==
  \/ \E p \in UcpProtocols : RegisterServer(p)
  \/ \E h \in UcpHandlers : RegisterHandler(h) \/ UnregisterHandler(h)
  \/ \E same \in BOOLEAN : CreateClient(same)
  \/ \E i \in DOMAIN um.servers : ServerUp(i) \/ ServerFails(i) \/ ServerDown(i) \/ StopFails(i)
  \/ Start \/ Stop \/ Clear \/ HookTimesOut

ManagerSpec == ManagerInit /\ [][ManagerNext]_um

-----------------------------------------------------------------------------
(* Properties.                                                             *)

\* A server of the Map has the handlers that are registered, but for those registered before
\* it: registerServer() does not hand them over.
ServersHaveHandlers ==
  \A i \in Mapped(um) :
    /\ um.servers[i].handlers \subseteq um.handlers
    /\ um.handlers \ um.servers[i].handlers \subseteq um.servers[i].before

\* A stopped manager has left no client open, but for those another took the key of, and
\* those created while it closed the others.
StoppedIsClosed ==
  um.state = "stopped" =>
    \A i \in DOMAIN um.clients :
      LET c == um.clients[i] IN c.open => c.known \/ c.twin \/ c.late

\* A manager that is stopped has no server up, but for one that was replaced, and one that
\* is started has none that failed: a failure puts it into the error state, and the servers
\* that are up stay up there.
OnlyErrorStrandsServers ==
  /\ um.state = "stopped" => In("up") \cup In("starting") = {}
  /\ um.state = "started" => \A i \in DOMAIN um.servers : um.servers[i].state # "failed"
=============================================================================
