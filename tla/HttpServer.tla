------------------------------ MODULE HttpServer -------------------------------
(***************************************************************************)
(* A request through the middlewares of HTTPServer, of packages/protocol-  *)
(* http/src/core/http-server.ts: any chain of the built-in middlewares and *)
(* of what users write, around a route.  A header or a body that is set    *)
(* after the answer was sent throws, as Node's ServerResponse does.        *)
(***************************************************************************)
EXTENDS Integers, Sequences, FiniteSets

CONSTANTS MiddlewareKinds,       \* kinds of middlewares: built-in ones, and users' that pass on,
                       \* call next() twice, say nothing or throw
          MaxChain     \* bound: middlewares

HttpServerAssumption ==
  MiddlewareKinds \subseteq {"cors", "compression", "rateLimit", "logging", "errorHandler",
                   "plain", "twice", "silent", "throws"}

VARIABLE rq

\* chain: httpMiddleware; index: of executeMiddleware(); stack: the middlewares that
\* await next(), the innermost last; do: what happens next; preflight, encoding: of the
\* request; sent: the answer is sent.  History: routed, calls of the route's handler;
\* mute, somebody returned in silence; late, an attempt to write after the answer
Init == rq = [chain |-> <<>>, index |-> 0, stack |-> <<>>, do |-> "idle", preflight |-> FALSE,
              encoding |-> FALSE, sent |-> FALSE, routed |-> 0, mute |-> FALSE, late |-> FALSE]

\* use() of some middlewares, and a request
Arrive(chain, preflight, encoding) ==
  rq' = [rq EXCEPT !.do = "next", !.chain = chain, !.preflight = preflight,
                   !.encoding = encoding]

Goes(what) == [rq EXCEPT !.do = what]

\* setHeader() before the rest, which throws when the answer is sent
Headers(then) ==
  IF rq.sent THEN [then EXCEPT !.stack = rq.stack, !.do = "throw", !.late = TRUE] ELSE then

\* json()
Json(then) == Headers([then EXCEPT !.sent = TRUE])

Waits(kind) == [rq EXCEPT !.stack = Append(@, kind), !.do = "next", !.index = @ + 1]
Leaves(what) == [rq EXCEPT !.index = @ + 1, !.do = what]

\* Mutant of Enter: a request over the limit is answered and goes on.
EnterAll(kind) ==
  CASE kind = "cors" /\ rq.preflight -> {Headers([Leaves("return") EXCEPT !.sent = TRUE])}
    [] kind = "rateLimit" -> {Json(Waits(kind)), Headers(Waits(kind))}
    [] kind \in {"cors", "logging"} -> {Headers(Waits(kind))}
    [] kind = "silent" -> {[Leaves("return") EXCEPT !.mute = TRUE]}
    [] kind = "throws" -> {Leaves("throw")}
    [] OTHER -> {Waits(kind)}

\* a middleware up to its next(): the outcomes it may have
Enter(kind) ==
  CASE kind = "cors" /\ rq.preflight -> {Headers([Leaves("return") EXCEPT !.sent = TRUE])}
    [] kind = "rateLimit" -> {Json(Leaves("return")), Headers(Waits(kind))}
    [] kind \in {"cors", "logging"} -> {Headers(Waits(kind))}
    [] kind = "silent" -> {[Leaves("return") EXCEPT !.mute = TRUE]}
    [] kind = "throws" -> {Leaves("throw")}
    [] OTHER -> {Waits(kind)}

\* next() of executeMiddleware(): one index for all of its calls
CallNext ==
  /\ rq.do = "next" /\ rq.index < Len(rq.chain)
  /\ rq' \in Enter(rq.chain[rq.index + 1])

\* executeRoute(): no route, or a handler that answers, or does not, or throws
Route ==
  /\ rq.do = "next" /\ rq.index >= Len(rq.chain)
  /\ LET r == [rq EXCEPT !.routed = @ + 1, !.do = "return"] IN
     rq' \in {Goes("throw"), [r EXCEPT !.do = "throw"], [r EXCEPT !.mute = TRUE],
              Json(r), Json([r EXCEPT !.do = "throw"])}

Top == rq.stack[Len(rq.stack)]
Pop == SubSeq(rq.stack, 1, Len(rq.stack) - 1)
Popped(what) == [rq EXCEPT !.stack = Pop, !.do = what]

\* Mutant of Return: the index goes back by one for a second next().
ReturnAgain ==
  /\ rq.do = "return" /\ rq.stack # <<>>
  /\ rq' = IF Top = "twice" THEN [rq EXCEPT !.do = "next", !.index = @ - 1]
           ELSE Popped("return")

\* Mutant of Return: what comes after next() waits until the answer is sent.
ReturnWaiting ==
  /\ rq.do = "return" /\ rq.stack # <<>>
  /\ rq.sent
  /\ rq' = IF Top = "twice" THEN [rq EXCEPT !.stack = Append(Pop, "plain"), !.do = "next"]
           ELSE Popped("return")

\* next() of a middleware returns: the compression sets its headers only now
Return ==
  /\ rq.do = "return" /\ rq.stack # <<>>
  /\ rq' = CASE Top = "compression" /\ rq.encoding ->
                  IF rq.sent THEN [Popped("throw") EXCEPT !.late = TRUE] ELSE Popped("return")
             [] Top = "twice" -> [rq EXCEPT !.stack = Append(Pop, "plain"), !.do = "next"]
             [] OTHER -> Popped("return")

\* Mutant of Throw: the error handler answers, whatever was sent.
ThrowSwallowed ==
  /\ rq.do = "throw" /\ rq.stack # <<>>
  /\ rq' = IF Top = "errorHandler" THEN Popped("return") ELSE Popped("throw")

\* next() of a middleware throws: the error handler answers, if it still can
Throw ==
  /\ rq.do = "throw" /\ rq.stack # <<>>
  /\ rq' = IF Top # "errorHandler" THEN Popped("throw")
           ELSE IF rq.sent THEN [Popped("throw") EXCEPT !.late = TRUE]
           ELSE [Popped("return") EXCEPT !.sent = TRUE]

\* the request handler's own end
End ==
  /\ rq.stack = <<>>
  /\ \/ rq.do = "return" /\ rq' = Goes("ended")
     \/ rq.do = "throw" /\ rq' = [Goes("failed") EXCEPT !.sent = TRUE]

Next ==
  \/ /\ rq.do = "idle"
     /\ \E n \in 0..MaxChain : \E chain \in [1..n -> MiddlewareKinds] :
          \E preflight, encoding \in BOOLEAN : Arrive(chain, preflight, encoding)
  \/ CallNext \/ Route \/ Return \/ Throw \/ End

Fairness == WF_rq(CallNext \/ Route \/ Return \/ Throw \/ End)
Spec == Init /\ [][Next]_rq /\ Fairness

-----------------------------------------------------------------------------
(* Properties.                                                             *)

Twice == Cardinality({k \in 1..Len(rq.chain) : rq.chain[k] = "twice"})

\* A request is answered, or somebody returned in silence; one that fails is answered
\* in any case.
AnsweredOrMute ==
  /\ rq.do = "ended" => rq.sent \/ rq.mute
  /\ rq.do = "failed" => rq.sent

\* The route's handler is called once, and once more for each middleware that calls
\* next() twice: the index is shared, so that the second call passes by the
\* middlewares that come after it.
RoutedOnce == rq.routed <= 1 + Twice

\* Nothing is written after the answer, unless next() was called twice, the error
\* handler answered for a handler that threw after its answer, or the compression of
\* an answer was on: it comes too late for every answer that was given, and turns it
\* into an error.
LateIsExplained ==
  LET used == {rq.chain[k] : k \in 1..Len(rq.chain)} IN
  rq.late => \/ Twice > 0 \/ "errorHandler" \in used
             \/ rq.encoding /\ "compression" \in used

\* Every request comes to an end.
RequestEnds == rq.do = "next" ~> rq.do \in {"ended", "failed"}
=============================================================================
