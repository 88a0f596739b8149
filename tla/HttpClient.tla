------------------------------ MODULE HttpClient ------------------------------
(***************************************************************************)
(* HTTPClient of packages/protocol-http/src/core/http-client.ts: a request *)
(* passes the request interceptors, the cache, the attempts of             *)
(* requestWithRetry() and the response interceptors, with an await at      *)
(* every one of them.  The interceptors are arrays that use() and eject()  *)
(* change while requests iterate over them, and eject() takes the index    *)
(* that use() returned.  Requests are GETs of one resource, whose version  *)
(* the server changes; interceptors do not change them.                    *)
(***************************************************************************)
EXTENDS Integers, Sequences

CONSTANTS Requests,      \* calls of request()
          MaxHooks,      \* bound on the interceptors registered
          HttpAttempts,  \* retry.maxAttempts
          MaxVersion     \* bound on the server's versions

HttpAttemptsAssumption == HttpAttempts \in Nat \ {0}

VARIABLE hc

Chains == {"request", "response"}
NoReq == [pc |-> "new", pos |-> 1, ran |-> <<>>, due |-> <<>>, attempt |-> 0, got |-> 0,
          disturbed |-> FALSE]

\* hooks: the arrays; cache: the version cached, 0 for none, and whether it has
\* expired; of a request: pos and ran, the iteration over the array; due and
\* disturbed: history, the array it began with, and whether eject() changed it
Init == hc = [hooks |-> [ch \in Chains |-> <<>>], made |-> 0, version |-> 1,
              cache |-> 0, expired |-> FALSE, req |-> [r \in Requests |-> NoReq]]

Chain(r) == IF hc.req[r].pc = "before" THEN "request" ELSE "response"

-----------------------------------------------------------------------------
\* interceptors.request.use() and interceptors.response.use()
UseHook(ch) ==
  /\ hc.made < MaxHooks
  /\ hc' = [hc EXCEPT !.made = @ + 1, !.hooks[ch] = Append(@, hc.made + 1)]

\* eject(): whatever is at that index by now goes
Eject(ch, id) ==
  /\ id \in DOMAIN hc.hooks[ch]
  /\ hc' = [hc EXCEPT !.hooks[ch] = SubSeq(@, 1, id - 1) \o SubSeq(@, id + 1, Len(@)),
                      !.req = [r \in Requests |-> [hc.req[r] EXCEPT !.disturbed =
                                 hc.req[r].disturbed \/ (hc.req[r].pc = "before" /\ ch = "request")
                                   \/ (hc.req[r].pc = "after" /\ ch = "response")]]]

\* a request enters the iteration over a chain
Iterate(x, pc) ==
  [x EXCEPT !.pc = pc, !.pos = 1, !.ran = <<>>, !.disturbed = FALSE,
            !.due = hc.hooks[IF pc = "before" THEN "request" ELSE "response"]]

\* and leaves it
Leave(x, pc) == [x EXCEPT !.pc = pc, !.pos = 1, !.ran = <<>>, !.due = <<>>, !.disturbed = FALSE]

Request(r) ==
  /\ hc.req[r].pc = "new"
  /\ hc' = [hc EXCEPT !.req[r] = Iterate(@, "before")]

\* Mutant of Intercept: an interceptor that fails is passed over.
InterceptQuietly(r, ok) ==
  LET x == hc.req[r] IN
  /\ x.pc \in {"before", "after"} /\ x.pos \in DOMAIN hc.hooks[Chain(r)]
  /\ hc' = [hc EXCEPT !.req[r] = [x EXCEPT !.pos = @ + 1,
              !.ran = IF ok THEN Append(@, hc.hooks[Chain(r)][x.pos]) ELSE @]]

\* the interceptor at the iteration's place settles, and the iteration goes on by
\* index in the array as it is then; an interceptor that throws fails the request
Intercept(r, ok) ==
  LET x == hc.req[r] IN
  /\ x.pc \in {"before", "after"} /\ x.pos \in DOMAIN hc.hooks[Chain(r)]
  /\ hc' = [hc EXCEPT !.req[r] =
       IF ok THEN [x EXCEPT !.pos = @ + 1, !.ran = Append(@, hc.hooks[Chain(r)][x.pos])]
       ELSE Leave(x, "failed")]

\* Mutant of Lookup: an entry that has expired is served.
LookupStale(r) ==
  LET x == hc.req[r] IN
  /\ x.pc = "before" /\ x.pos \notin DOMAIN hc.hooks.request
  /\ hc' = IF hc.cache # 0 THEN [hc EXCEPT !.req[r] = [Leave(x, "cached") EXCEPT !.got = hc.cache]]
           ELSE [hc EXCEPT !.req[r] = Leave(x, "running")]

\* getFromCache() behind the request interceptors, and the first attempt: a
\* cached answer does not pass the response interceptors, it has done so before
Lookup(r) ==
  LET x == hc.req[r] IN
  /\ x.pc = "before" /\ x.pos \notin DOMAIN hc.hooks.request
  /\ hc' = IF hc.cache # 0 /\ ~hc.expired
           THEN [hc EXCEPT !.req[r] = [Leave(x, "cached") EXCEPT !.got = hc.cache]]
           ELSE [hc EXCEPT !.req[r] = Leave(x, "running"), !.cache = 0, !.expired = FALSE]

\* Mutant of Respond: the answer is cached before the response interceptors.
RespondCaching(r) ==
  /\ hc.req[r].pc = "running"
  /\ hc' = [hc EXCEPT !.req[r] = Iterate([@ EXCEPT !.got = hc.version], "after"),
                      !.cache = hc.version]

\* an attempt is answered, with a status that is valid
Respond(r) ==
  /\ hc.req[r].pc = "running"
  /\ hc' = [hc EXCEPT !.req[r] = Iterate([@ EXCEPT !.got = hc.version], "after")]

\* Mutant of AttemptFails: the attempts are not counted.
AttemptFailsForever(r, again) ==
  /\ hc.req[r].pc = "running"
  /\ hc' = [hc EXCEPT !.req[r].pc = IF again THEN "delay" ELSE "failed"]

\* it fails: an invalid status, a network error, or the timeout, which destroys
\* the request before it rejects; retryCondition() says whether to go on
AttemptFails(r, again) ==
  LET n == hc.req[r].attempt + 1 IN
  /\ hc.req[r].pc = "running"
  /\ hc' = [hc EXCEPT !.req[r].attempt = n,
                      !.req[r].pc = IF n >= HttpAttempts \/ ~again THEN "failed" ELSE "delay"]

\* the connection is lost behind the headers of the response: neither `end' nor
\* the request's `error' follows, and the response has no listener for its own
ResponseLost(r) ==
  /\ hc.req[r].pc = "running"
  /\ hc' = [hc EXCEPT !.req[r].pc = "lost"]

Retry(r) ==
  /\ hc.req[r].pc = "delay"
  /\ hc' = [hc EXCEPT !.req[r].pc = "running"]

\* setToCache() behind the response interceptors
Answer(r) ==
  LET x == hc.req[r] IN
  /\ x.pc = "after" /\ x.pos \notin DOMAIN hc.hooks.response
  /\ hc' = [hc EXCEPT !.req[r] = Leave(x, "answered"), !.cache = x.got, !.expired = FALSE]

\* the ttl of the cached entry passes
Expire == hc.cache # 0 /\ ~hc.expired /\ hc' = [hc EXCEPT !.expired = TRUE]

ClearCache == hc.cache # 0 /\ hc' = [hc EXCEPT !.cache = 0, !.expired = FALSE]

\* the resource changes on the server
ServerUpdate == hc.version < MaxVersion /\ hc' = [hc EXCEPT !.version = @ + 1]

Step(r) ==
  \/ Lookup(r) \/ Respond(r) \/ Retry(r) \/ Answer(r) \/ ResponseLost(r)
  \/ \E ok \in BOOLEAN : Intercept(r, ok) \/ AttemptFails(r, ok)
Next ==
  \/ \E ch \in Chains : UseHook(ch) \/ \E id \in 1..MaxHooks : Eject(ch, id)
  \/ \E r \in Requests : Request(r) \/ Step(r)
  \/ Expire \/ ClearCache \/ ServerUpdate

\* Interceptors settle, and the network answers or fails.
Spec == Init /\ [][Next]_hc /\ \A r \in Requests : WF_hc(Step(r))

-----------------------------------------------------------------------------
(* Properties.                                                             *)

\* The attempts of a request are bounded.
TypeOK ==
  /\ {hc.cache, hc.version} \subseteq 0..MaxVersion
  /\ \A r \in Requests : hc.req[r].attempt \in 0..HttpAttempts
                      /\ (hc.req[r].pc \in {"running", "delay"} => hc.req[r].attempt < HttpAttempts)

\* The interceptors that were due to request x are the first that it ran.
HasRun(x) == \A i \in DOMAIN x.due : i \in DOMAIN x.ran /\ x.ran[i] = x.due[i]

\* A request that gets through a chain has run every interceptor it found there,
\* in their order and before those registered since, unless one was ejected.
CompleteInterception ==
  \A r \in Requests : LET x == hc.req[r] IN
    x.pc \in {"before", "after"} /\ hc'.req[r].pc \notin {x.pc, "failed"} /\ ~x.disturbed
      => HasRun(x)

\* Only an answer that passed the response interceptors is cached, and only
\* those requests are answered from the cache whose version was answered before.
CachedWasAnswered ==
  /\ hc.cache # 0 => \E r \in Requests : hc.req[r].pc = "answered" /\ hc.req[r].got = hc.cache
  /\ \A r \in Requests : hc.req[r].pc = "cached" =>
       \E s \in Requests : hc.req[s].pc = "answered" /\ hc.req[s].got = hc.req[r].got

\* An entry that has expired is served to nobody.
NeverServesExpired ==
  \A r \in Requests : hc.req[r].pc # "cached" /\ hc'.req[r].pc = "cached" => ~hc.expired

\* A request settles, unless the connection is lost in the middle of a response.
RequestSettles ==
  \A r \in Requests :
    hc.req[r].pc = "before" ~> hc.req[r].pc \in {"answered", "cached", "failed", "lost"}
=============================================================================
