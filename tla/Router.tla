-------------------------------- MODULE Router --------------------------------
(***************************************************************************)
(* Router of packages/protocol-http/src/core/router.ts with normalizePath()*)
(* of utils/url-utils.ts: routes and middlewares of a router and of one    *)
(* that is mounted on it.  A path is the sequence of its segments; the     *)
(* routes are those of one method, which have the others nothing to do     *)
(* with.  match() and handle() change nothing in a router: operators.      *)
(***************************************************************************)
EXTENDS Integers, SequencesExt

CONSTANTS Patterns,      \* paths of routes, of middlewares and of mounts
          Paths,         \* paths of requests
          BasePaths,     \* config.prefix
          RouteMax,      \* bound: routes of a router
          UseMax         \* bound: middlewares of both

\* "" is what follows a last slash, ":" a parameter, "*" the wildcard, and "A" is "a"
\* in capitals; a name that begins like "a" is "ab".
RouterAssumption ==
  /\ Patterns \cup BasePaths \subseteq Seq({"a", "A", "ab", ":", "*"})
  /\ Paths \subseteq Seq({"a", "A", "ab"})
  /\ \A p \in Patterns : Cardinality({k \in DOMAIN p : p[k] = "*"}) <= 1

Routers == {"parent", "child"}
\* how often a middleware calls next(), by what it does
Nexts == [passes |-> 1, stops |-> 0, repeats |-> 2]

\* config: of each router; routes: pattern, originalPath and middlewares of each;
\* uses: the middlewares of each, with the paths a request must begin with.  History:
\* mounted, where the parent was given routes of the child, and with which middlewares
VARIABLE rt

Init ==
  \E p \in BasePaths, default \in BOOLEAN :
    rt = [prefix |-> [parent |-> p, child |-> <<"ab">>], caseSensitive |-> ~default,
          strictSlash |-> default, routes |-> [r \in Routers |-> <<>>],
          uses |-> [r \in Routers |-> <<>>], mounted |-> {}]

Lower(p) == [k \in DOMAIN p |-> IF p[k] = "A" THEN "a" ELSE p[k]]
Cased(p) == IF rt.caseSensitive THEN p ELSE Lower(p)

\* Mutant of NormalizePath: the path of a middleware keeps its case.
NormalizePathOnly(r, p) == rt.prefix[r] \o p

\* normalizePath(): the prefix comes first
NormalizePath(r, p) == Cased(rt.prefix[r] \o p)

\* the string of a path between its slashes
Text(p) == IF p = <<>> THEN <<"">> ELSE p

Fits(segment, s) == segment \in {s, "*"} \/ (segment = ":" /\ s # "")
Star(p) == CHOOSE k \in 1..Len(p) + 1 :
  IF "*" \in ToSet(p) THEN k <= Len(p) /\ p[k] = "*" ELSE k = Len(p) + 1

\* the regular expression of createPattern(): a wildcard takes one segment or more
Matches(pattern, q) ==
  LET p == Text(pattern)
      more == Len(q) - Len(p)
  IN /\ more = 0 \/ (more > 0 /\ "*" \in ToSet(p))
     /\ \A k \in DOMAIN p : Fits(p[k], q[IF k > Star(p) THEN k + more ELSE k])

\* Mutant of Captured: the values begin with the match itself.
CapturedWhole(pattern, q) ==
  LET p == Text(pattern)
      names == SelectSeq(p, LAMBDA s : s = ":")
  IN [i \in DOMAIN names |-> IF i = 1 THEN q ELSE <<q[i - 1]>>]

\* the capture groups, and what match() gives the parameters, in their order
Captured(pattern, q) ==
  LET p == Text(pattern)
      groups == SelectSeq([k \in DOMAIN p |-> k], LAMBDA k : p[k] \in {":", "*"})
      names == SelectSeq(p, LAMBDA s : s = ":")
      At(k) == IF k > Star(p) THEN k + Len(q) - Len(p) ELSE k
      Group(k) == IF p[k] = "*" THEN SubSeq(q, k, k + Len(q) - Len(p)) ELSE <<q[At(k)]>>
  IN [i \in DOMAIN names |-> Group(groups[i])]

\* what match() compares for a request
MatchPath(q, slash) ==
  Text(IF slash /\ ~rt.strictSlash /\ q # <<>> THEN Cased(q) \o <<"">> ELSE Cased(q))

\* match(): the first route that fits
Match(r, path) ==
  SelectInSeq(rt.routes[r], LAMBDA e : Matches(e.pattern, path))

\* String.startsWith() on the path as it was sent
StartsWith(q, p) ==
  /\ Len(p) <= Len(q)
  /\ \A k \in DOMAIN p : q[k] = p[k] \/ (k = Len(p) /\ p[k] = "a" /\ q[k] = "ab")

Applies(u, q) == \A p \in u.below : StartsWith(q, p)

\* the chain of handle()
Chain(r, i, q) ==
  [k \in DOMAIN rt.uses[r] |-> IF Applies(rt.uses[r][k], q) THEN rt.uses[r][k].does ELSE "passes"]
    \o rt.routes[r][i].middleware

\* Mutant of Calls: the middlewares run one after the other, whatever they call.
CallsOfAll(chain) ==
  LET calls[k \in 0..Len(chain)] == IF k = 0 THEN 1 ELSE calls[k - 1] + Nexts[chain[k]]
  IN calls

\* the calls of next() by the first k of a chain, each of which goes to the one that is
\* next, and after all of them to the handler
Calls(chain) ==
  LET calls[k \in 0..Len(chain)] ==
        IF k = 0 THEN 1
        ELSE calls[k - 1] + (IF k <= calls[k - 1] THEN Nexts[chain[k]] ELSE 0)
  IN calls
Handled(chain) == LET n == Calls(chain)[Len(chain)] - Len(chain) IN IF n > 0 THEN n ELSE 0

\* addRoute()
AddRoute(r, s, p, ms) ==
  Append(s, [pattern |-> NormalizePath(r, p), original |-> p, middleware |-> ms])

\* get(), post(), route() and the others
Route(r, p, ms) ==
  /\ Len(rt.routes[r]) < RouteMax
  /\ rt' = [rt EXCEPT !.routes[r] = AddRoute(r, @, p, ms)]

\* use(middleware)
Use(r, does) ==
  /\ Len(rt.uses.parent) + Len(rt.uses.child) < UseMax
  /\ rt' = [rt EXCEPT !.uses[r] = Append(@, [does |-> does, below |-> {}])]

\* use(path, middleware)
UseAt(r, p, does) ==
  /\ Len(rt.uses.parent) + Len(rt.uses.child) < UseMax
  /\ rt' = [rt EXCEPT !.uses[r] =
              Append(@, [does |-> does, below |-> {NormalizePath(r, p)}])]

\* Mutant of Mount: the middlewares of the child stay with it.
MountRoutes(p) ==
  LET path == NormalizePath("parent", p)
  IN /\ Len(rt.routes.parent) + Len(rt.routes.child) <= RouteMax
     /\ rt' = [rt EXCEPT
          !.routes.parent = FoldLeft(LAMBDA s, e : AddRoute("parent", s, path \o e.original, e.middleware),
                                     @, rt.routes.child),
          !.mounted = @ \cup {[path |-> p, original |-> rt.routes.child[k].original,
                               index |-> Len(rt.routes.parent) + k, uses |-> rt.uses.child] :
                              k \in DOMAIN rt.routes.child}]

\* use(path, router): mountRouter() normalizes the path, and so does what it calls
Mount(p) ==
  LET path == NormalizePath("parent", p)
  IN /\ Len(rt.routes.parent) + Len(rt.routes.child) <= RouteMax
     /\ Len(rt.uses.parent) + 2 * Len(rt.uses.child) <= UseMax
     /\ rt' = [rt EXCEPT
          !.routes.parent = FoldLeft(LAMBDA s, e : AddRoute("parent", s, path \o e.original, e.middleware),
                                     @, rt.routes.child),
          !.uses.parent = @ \o [k \in DOMAIN rt.uses.child |->
             [rt.uses.child[k] EXCEPT !.below = @ \cup {NormalizePath("parent", path)}]],
          !.mounted = @ \cup {[path |-> p, original |-> rt.routes.child[k].original,
                               index |-> Len(rt.routes.parent) + k, uses |-> rt.uses.child] :
                              k \in DOMAIN rt.routes.child}]

\* clear(), of the parent
Clear ==
  rt' = [rt EXCEPT !.routes.parent = <<>>, !.uses.parent = <<>>, !.mounted = {}]

Next ==
  \/ \E r \in Routers, p \in Patterns :
       \/ \E ms \in {<<>>, <<"stops">>} : Route(r, p, ms)
       \/ UseAt(r, p, "stops")
  \/ \E r \in Routers, does \in {"stops", "repeats"} : Use(r, does)
  \/ Clear \/ \E p \in Patterns : Mount(p)

Spec == Init /\ [][Next]_rt

-----------------------------------------------------------------------------
(* Properties.                                                             *)

\* A mounted route has its place below the path of the mount, the prefix of the parent
\* before it twice; the prefix of the child is gone.
MountedBelow ==
  \A e \in rt.mounted :
    rt.routes.parent[e.index].pattern =
      Cased(rt.prefix.parent \o rt.prefix.parent \o e.path \o e.original)

\* A request that a mounted route answers went through every middleware that the child
\* had by then: unless its letters are in another case, or a segment of the mount is a
\* parameter or a wildcard, or the child had the middleware at a path, which the
\* request, longer by the mount, does not begin with.
ChildGuards ==
  \A e \in rt.mounted, q \in Paths, slash \in BOOLEAN :
    Match("parent", MatchPath(q, slash)) = e.index =>
      \A k \in DOMAIN e.uses :
        \/ \E j \in DOMAIN rt.uses.parent :
             /\ rt.uses.parent[j].does = e.uses[k].does
             /\ rt.uses.parent[j].below # {} /\ Applies(rt.uses.parent[j], q)
        \/ Cased(q) # q \/ ToSet(e.path) \cap {":", "*"} # {} \/ e.uses[k].below # {}

\* A middleware that does not call next() keeps the handler from being called, which is
\* called once without such a one: unless one that was called calls next() twice, each
\* of which makes up for a call that is missing or has the handler called once more.
StopIsFinal ==
  \A i \in DOMAIN rt.routes.parent, q \in Paths :
    LET chain == Chain("parent", i, q)
        ran == {k \in DOMAIN chain : k <= Calls(chain)[k - 1]}
        twice == {k \in ran : chain[k] = "repeats"}
        stops == {k \in ran : chain[k] = "stops"}
    IN /\ twice = {} => Handled(chain) = (IF stops = {} THEN 1 ELSE 0)
       /\ Handled(chain) <= 1 + Cardinality(twice)

\* A parameter has the segment at its place, in small letters unless the router is case
\* sensitive; after a wildcard it has the value of what comes before it.
ParametersInPlace ==
  \A i \in DOMAIN rt.routes.parent, q \in Paths :
    LET p == Text(rt.routes.parent[i].pattern)
        m == MatchPath(q, FALSE)
        names == SelectSeq([k \in DOMAIN p |-> k], LAMBDA k : p[k] = ":")
    IN Matches(p, m) =>
         \A n \in DOMAIN names :
           (names[n] < Star(p) => Captured(p, m)[n] = <<Cased(q)[names[n]]>>)

-----------------------------------------------------------------------------
(* rateLimit() and its MemoryStore of packages/protocol-http/src/          *)
(* middleware/rate-limit-middleware.ts, for one key.  The record of a      *)
(* window is one shared object; it is looked up, awaited, counted in and   *)
(* stored, and requests that options skip are uncounted when they end.     *)

CONSTANTS Arrivals,     \* requests
          MaxRequests,  \* maxRequests, of a window
          MaxNow        \* bound on the clock; a window is one unit of it long

RateLimiterAssumption == MaxRequests \in Nat \ {0}

VARIABLE rl

\* infos: the records made, store: the one of the key, 0 for none; info: the one a
\* request holds; skips: skipSuccessfulRequests or skipFailedRequests is set; split:
\* history, a set() has replaced the record of a window that was not over
RateInit == \E s \in BOOLEAN :
  rl = [now |-> 0, infos |-> <<>>, store |-> 0, skips |-> s, split |-> FALSE,
        pc |-> [r \in Arrivals |-> "new"], info |-> [r \in Arrivals |-> 0]]

Live(x, i) == i # 0 /\ x.now <= x.infos[i].resetTime

\* store.set()
Stored(x, i) ==
  [x EXCEPT !.store = i, !.split = @ \/ (x.store # i /\ Live(x, x.store))]

\* the request arrives: store.get(), which forgets a record that is over
Get(r) ==
  LET i == IF Live(rl, rl.store) THEN rl.store ELSE 0 IN
  /\ rl.pc[r] = "new"
  /\ rl' = [rl EXCEPT !.pc[r] = "got", !.info[r] = i, !.store = i]

\* Mutant of Count: one request more.
CountOneMore(r) ==
  LET fresh == ~Live(rl, rl.info[r])
      x == IF fresh THEN [rl EXCEPT !.infos = Append(@, [count |-> 0, resetTime |-> rl.now + 1])]
                    ELSE rl
      i == IF fresh THEN Len(x.infos) ELSE rl.info[r] IN
  /\ rl.pc[r] = "got"
  /\ rl' = IF x.infos[i].count > MaxRequests THEN [x EXCEPT !.pc[r] = "refused"]
           ELSE Stored([x EXCEPT !.pc[r] = "running", !.info[r] = i, !.infos[i].count = @ + 1], i)

\* after the await: the limit, the count and store.set()
Count(r) ==
  LET fresh == ~Live(rl, rl.info[r])
      x == IF fresh THEN [rl EXCEPT !.infos = Append(@, [count |-> 0, resetTime |-> rl.now + 1])]
                    ELSE rl
      i == IF fresh THEN Len(x.infos) ELSE rl.info[r] IN
  /\ rl.pc[r] = "got"
  /\ rl' = IF x.infos[i].count >= MaxRequests THEN [x EXCEPT !.pc[r] = "refused"]
           ELSE Stored([x EXCEPT !.pc[r] = "running", !.info[r] = i, !.infos[i].count = @ + 1], i)

\* Mutant of End: every request is uncounted.
EndUncounting(r, skip) ==
  LET i == rl.info[r] IN
  /\ rl.pc[r] = "running" /\ (skip => rl.skips)
  /\ rl' = Stored([rl EXCEPT !.pc[r] = IF skip THEN "skipped" ELSE "ended",
                             !.infos[i].count = IF @ > 0 THEN @ - 1 ELSE @], i)

\* next() settles: the record of a request to skip is uncounted and stored again,
\* whichever window it is by then
End(r, skip) ==
  LET i == rl.info[r]
      x == [rl EXCEPT !.pc[r] = IF skip THEN "skipped" ELSE "ended"] IN
  /\ rl.pc[r] = "running" /\ (skip => rl.skips)
  /\ rl' = IF skip /\ x.infos[i].count > 0
             THEN Stored([x EXCEPT !.infos[i].count = @ - 1], i) ELSE x

\* cleanup()
Cleanup ==
  /\ rl.store # 0 /\ ~Live(rl, rl.store)
  /\ rl' = [rl EXCEPT !.store = 0]

\* time passes
Tick == rl.now < MaxNow /\ rl' = [rl EXCEPT !.now = @ + 1]

RateNext ==
  \/ Cleanup \/ Tick
  \/ \E r \in Arrivals : Get(r) \/ Count(r) \/ \E skip \in BOOLEAN : End(r, skip)

RateSpec == RateInit /\ [][RateNext]_rl

-----------------------------------------------------------------------------
(* Properties.                                                             *)

Counted(i) == {r \in Arrivals : rl.info[r] = i /\ rl.pc[r] \in {"running", "ended"}}

\* The record of the key is one that was made, and a request that counts has one.
RateTypeOK ==
  /\ rl.store \in 0..Len(rl.infos)
  /\ \A r \in Arrivals : rl.pc[r] \in {"running", "ended", "skipped"} => rl.info[r] # 0

\* A record counts the requests that were let through with it and not skipped,
\* however their steps interleave.
CountIsExact ==
  \A i \in 1..Len(rl.infos) : rl.infos[i].count = Cardinality(Counted(i))

\* In a window no more requests than the limit are let through, unless a set()
\* has replaced the record of a window that was not over: that of requests that
\* have looked at an empty store together, or of one skipped after its window.
WindowHolds ==
  ~rl.split =>
    Cardinality({r \in Arrivals : \E i \in 1..Len(rl.infos) :
                                    Live(rl, i) /\ r \in Counted(i)}) <= MaxRequests
=============================================================================
