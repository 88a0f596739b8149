-------------------------- MODULE WebSocketConnections --------------------------
(***************************************************************************)
(* ConnectionManager of packages/protocol-websocket/src/core/              *)
(* connection-manager.ts with the connections WebSocketServer makes        *)
(* (websocket-server.ts) and their authentication (lifecycle-handler.ts).  *)
(* The limits are kept through two indexes, by address and by user.  The   *)
(* user of a connection is set after the connection was added, when the    *)
(* client authenticates, and the index by user is not told.                *)
(***************************************************************************)
EXTENDS Integers, FiniteSets

CONSTANTS Conns,      \* connections
          Addresses,  \* client addresses
          Users,      \* users
          MaxConns,   \* maxConnections
          MaxPerIP,   \* maxConnectionsPerIP
          MaxPerUser  \* maxConnectionsPerUser

VARIABLE wsm

Nobody == "nobody"

ConnectionsAssumption ==
  {MaxConns, MaxPerIP, MaxPerUser} \subseteq Nat /\ Nobody \notin Users \union Addresses

NoConn == [st |-> "new", ip |-> Nobody, user |-> Nobody, idle |-> FALSE]

\* conn: the connections and the sockets below them; managed, byIP, byUser: the
\* three maps; ticking: cleanupInterval; late: history, the connections whose user
\* was set after they had been added
Init == wsm = [conn |-> [c \in Conns |-> NoConn], managed |-> {},
               byIP |-> [a \in Addresses |-> {}], byUser |-> [u \in Users |-> {}],
               ticking |-> TRUE, late |-> {}]

\* close() of connections, of those that are open
Close(m, cs) ==
  [m EXCEPT !.conn = [c \in Conns |->
     IF c \in cs /\ @[c].st = "open" THEN [@[c] EXCEPT !.st = "closing"] ELSE @[c]]]

\* Mutant of Forget: the index by user is left alone.
ForgetConnection(m, cs) == [m EXCEPT !.managed = @ \ cs]

\* the map and the index by user: that of the user a connection has by now
Forget(m, cs) ==
  [m EXCEPT !.managed = @ \ cs,
            !.byUser = [u \in Users |-> @[u] \ {c \in cs \intersect m.managed : m.conn[c].user = u}]]

\* Mutant of Remove: the index by address is left alone.
RemoveFromMap(m, cs) == Close(Forget(m, cs), cs)

\* Mutant of Remove: the sockets are not closed.
RemoveQuietly(m, cs) == [Forget(m, cs) EXCEPT !.byIP = [a \in Addresses |-> @[a] \ cs]]

\* removeConnection()
Remove(m, cs) == Close([Forget(m, cs) EXCEPT !.byIP = [a \in Addresses |-> @[a] \ cs]], cs)

\* the limits of addConnection()
Admits(m, ip, user) ==
  /\ Cardinality(m.managed) < MaxConns
  /\ Cardinality(m.byIP[ip]) < MaxPerIP
  /\ user # Nobody => Cardinality(m.byUser[user]) < MaxPerUser

-----------------------------------------------------------------------------
\* handleConnection() and addConnection(): a connection over a limit is closed;
\* the server's own connections have no user here
Accept(c, ip, user) ==
  LET m == [wsm EXCEPT !.conn[c] = [st |-> "open", ip |-> ip, user |-> user, idle |-> FALSE]] IN
  /\ wsm.conn[c].st = "new" /\ wsm.ticking
  /\ wsm' = IF ~Admits(wsm, ip, user) THEN Close(m, {c})
            ELSE [m EXCEPT !.managed = @ \union {c}, !.byIP[ip] = @ \union {c},
                    !.byUser = [u \in Users |-> IF u = user THEN @[u] \union {c} ELSE @[u]]]

\* handleAuthentication(): the user is set whatever the connection has become
Authenticate(c, u) ==
  /\ wsm.conn[c].st \in {"open", "closing"}
  /\ wsm' = [wsm EXCEPT !.conn[c] = [@ EXCEPT !.user = u, !.idle = FALSE],
                       !.late = @ \union {c}]

\* a message without a token, or a handler that fails: the connection is closed
Refuse(c) == wsm.conn[c].st = "open" /\ wsm' = Close(wsm, {c})

\* idleTimeout passes without activity
GrowIdle(c) ==
  /\ wsm.conn[c].st = "open" /\ ~wsm.conn[c].idle
  /\ wsm' = [wsm EXCEPT !.conn[c].idle = TRUE]

\* a message, ping or pong: updateLastActivity() throws without a user
Activity(c) ==
  /\ wsm.conn[c].st = "open" /\ c \in wsm.managed /\ wsm.conn[c].user # Nobody
  /\ wsm.conn[c].idle
  /\ wsm' = [wsm EXCEPT !.conn[c].idle = FALSE]

Idle == {c \in wsm.managed : wsm.conn[c].idle}

\* Mutant of CleanupIdle: connections without a user are passed over.
CleanupIdleUsers ==
  LET cs == {c \in Idle : wsm.conn[c].user # Nobody} IN
  /\ wsm.ticking /\ cs # {}
  /\ wsm' = Remove(wsm, cs)

\* cleanupIdleConnections()
CleanupIdle ==
  /\ wsm.ticking /\ Idle # {}
  /\ wsm' = Remove(wsm, Idle)

\* the `close' event of a socket, closed by either side
SocketClosed(c) ==
  /\ wsm.conn[c].st \in {"open", "closing"}
  /\ wsm' = [Remove(wsm, {c}) EXCEPT !.conn[c] = [NoConn EXCEPT !.st = "closed"]]

\* shutdown(), behind the close() of the server that accepts connections
Shutdown ==
  /\ wsm.ticking
  /\ wsm' = [Remove(wsm, wsm.managed) EXCEPT
               !.ticking = FALSE, !.managed = {}, !.byIP = [a \in Addresses |-> {}],
               !.byUser = [u \in Users |-> {}]]

Next ==
  \/ \E c \in Conns :
       \/ \E ip \in Addresses, u \in Users \union {Nobody} : Accept(c, ip, u)
       \/ \E u \in Users : Authenticate(c, u)
       \/ Refuse(c) \/ GrowIdle(c) \/ Activity(c) \/ SocketClosed(c)
  \/ CleanupIdle \/ Shutdown

\* The interval of the cleanup fires.
Spec == Init /\ [][Next]_wsm /\ WF_wsm(CleanupIdle)

-----------------------------------------------------------------------------
(* Properties.                                                             *)

\* The maps hold connections, and an index none the other map lacks.
TypeOK ==
  /\ wsm.managed \subseteq Conns /\ wsm.byIP \in [Addresses -> SUBSET wsm.managed]
  /\ wsm.byUser \in [Users -> SUBSET Conns]

\* The index by address is exact, and so neither limit is passed, whoever closes
\* connections and in whichever order.
LimitsHold ==
  /\ Cardinality(wsm.managed) <= MaxConns
  /\ \A a \in Addresses : wsm.byIP[a] = {c \in wsm.managed : wsm.conn[c].ip = a}
                       /\ Cardinality(wsm.byIP[a]) <= MaxPerIP

\* The index by user, and with it the limit, is exact but for the connections
\* that authenticated after they were added.
UserIndexExact ==
  \A u \in Users :
    wsm.byUser[u] \ wsm.late = {c \in wsm.managed \ wsm.late : wsm.conn[c].user = u}

\* An open connection is one of the manager's: those that were refused, removed
\* or shut down are being closed.
OpenIsManaged == \A c \in Conns : wsm.conn[c].st = "open" => c \in wsm.managed

\* A connection that is idle, and one that never authenticates is in the end,
\* leaves the manager or becomes active again.
IdleIsRemoved ==
  \A c \in Conns : c \in wsm.managed /\ wsm.conn[c].idle
                     ~> c \notin wsm.managed \/ ~wsm.conn[c].idle
=============================================================================
