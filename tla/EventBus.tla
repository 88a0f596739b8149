------------------------------- MODULE EventBus -------------------------------
(***************************************************************************)
(* EventBus of packages/core/src/events/index.ts.                          *)
(*                                                                         *)
(* emit() calls its listeners synchronously, and a listener may register,  *)
(* remove and emit itself, so emissions nest: `stack' has the ones in      *)
(* progress, the innermost last.  An emission iterates over the Set        *)
(* objects it has looked up; a Set iterates in insertion order, visits     *)
(* what is added meanwhile and skips what is deleted.  Registrations are   *)
(* therefore numbered in the order they were made and carry the Set they   *)
(* are in, named by its first registration: a Set survives its map entry.  *)
(***************************************************************************)
EXTENDS Integers, SequencesExt, FiniteSetsExt

CONSTANTS Handlers,  \* listener functions
          MaxReg,    \* bound on registrations
          MaxDepth   \* bound on nested emissions

VARIABLE bus

Events == {"data", "error"}
Kinds == {"on", "once"}
NoEntry == [on |-> 0, once |-> 0]

Init == bus = [
  reg |-> <<>>,                           \* all registrations ever made
  entry |-> [ev \in Events |-> NoEntry],  \* listeners and onceListeners: Sets
  stack |-> <<>>,
  used |-> {},      \* history: once-listeners that an emission without a throw
  nested |-> FALSE] \* has called, and whether emissions ever nested

Members(s) == {i \in DOMAIN bus.reg : bus.reg[i].live /\ bus.reg[i].set = s}
Count(ev) == Cardinality(Members(bus.entry[ev].on) \union Members(bus.entry[ev].once))
Top == Last(bus.stack)
Running(i) == bus.stack # <<>> /\ Top.cur = i
SetTop(f) == [bus.stack EXCEPT ![Len(bus.stack)] = f]

\* code that may call the bus runs: the application, or the listener called last
Free == bus.stack # <<>> => Top.cur # 0

-----------------------------------------------------------------------------
\* on(), once(): a Set takes a handler once
Register(ev, kind, h) ==
  LET s == IF bus.entry[ev][kind] = 0 THEN Len(bus.reg) + 1 ELSE bus.entry[ev][kind] IN
  /\ Free /\ Len(bus.reg) < MaxReg
  /\ ~ \E i \in Members(s) : bus.reg[i].h = h
  /\ bus' = [bus EXCEPT !.entry[ev][kind] = s,
                        !.reg = Append(@, [h |-> h, kind |-> kind, set |-> s, live |-> TRUE])]

\* what removing registrations leaves of them
Removed(gone) == [i \in DOMAIN bus.reg |-> [bus.reg[i] EXCEPT !.live = @ /\ i \notin gone]]

\* Mutant of Off: the listeners are an array, and removal moves the iteration on.
OffShifting(ev, h) ==
  LET gone == {i \in Members(bus.entry[ev].on) : bus.reg[i].h = h} IN
  /\ Free /\ gone # {} /\ bus.stack # <<>>
  /\ bus' = [bus EXCEPT
       !.reg = Removed(gone),
       !.stack = SetTop([Top EXCEPT !.pos = @ + 1])]

\* off() of one handler: an entry goes with the last of its Set
Off(ev, h) ==
  LET gone(kind) == {i \in Members(bus.entry[ev][kind]) : bus.reg[i].h = h}
      all == gone("on") \union gone("once") IN
  /\ Free /\ all # {}
  /\ bus' = [bus EXCEPT
       !.reg = Removed(all),
       !.entry[ev] = [kind \in Kinds |->
          IF Members(@[kind]) \subseteq gone(kind) THEN 0 ELSE @[kind]]]

\* off() of an event, removeAllListeners(): emissions in progress keep the Sets
RemoveAll(evs) ==
  /\ Free
  /\ bus' = [bus EXCEPT !.entry = [ev \in Events |-> IF ev \in evs THEN NoEntry ELSE @[ev]]]

-----------------------------------------------------------------------------
Emission(ev) ==
  [ev |-> ev, sets |-> bus.entry[ev], kind |-> "on", pos |-> 0, cur |-> 0,
   due |-> Members(bus.entry[ev].on) \union Members(bus.entry[ev].once)]

\* emit() and emitAsync() up to the first listener
Emit(ev) ==
  /\ Free /\ Count(ev) > 0 /\ Len(bus.stack) < MaxDepth
  /\ bus' = [bus EXCEPT !.stack = Append(@, Emission(ev)),
                        !.nested = @ \/ bus.stack # <<>>]

\* what the iterators of emission f have yet to visit
OnLeft(f) == {i \in Members(f.sets.on) : f.kind = "on" /\ i > f.pos}
OnceLeft(f) == {i \in Members(f.sets.once) : f.kind = "on" \/ i > f.pos}

Call ==
  /\ bus.stack # <<>> /\ Top.cur = 0
  /\ OnLeft(Top) \union OnceLeft(Top) # {}
  /\ LET i == Min(IF OnLeft(Top) # {} THEN OnLeft(Top) ELSE OnceLeft(Top)) IN
     bus' = [bus EXCEPT
       !.stack = SetTop([Top EXCEPT !.cur = i, !.pos = i, !.kind = bus.reg[i].kind,
                                    !.due = @ \ {i}]),
       !.used = IF bus.reg[i].kind = "once" THEN @ \union {i} ELSE @]

Return ==
  /\ bus.stack # <<>> /\ Top.cur # 0
  /\ bus' = [bus EXCEPT !.stack = SetTop([Top EXCEPT !.cur = 0])]

\* Mutant of Finish: the once-listeners are not removed.
FinishKeepingOnce ==
  /\ bus.stack # <<>> /\ Top.cur = 0
  /\ OnLeft(Top) \union OnceLeft(Top) = {}
  /\ bus' = [bus EXCEPT !.stack = Front(@)]

\* all visited: the entry of the once-listeners goes, whichever Set it has by now
Finish ==
  /\ bus.stack # <<>> /\ Top.cur = 0
  /\ OnLeft(Top) \union OnceLeft(Top) = {}
  /\ bus' = [bus EXCEPT !.stack = Front(@),
                        !.entry[Top.ev].once = IF Top.sets.once = 0 THEN @ ELSE 0]

\* a listener throws: emit() gives up the others and emits ERROR in its place if
\* somebody listens, emitAsync() rejects; once-listeners stay registered.  A
\* rejected asynchronous listener emits ERROR later, as the application could.
Throw(async) ==
  /\ bus.stack # <<>> /\ Top.cur # 0
  /\ bus' = [bus EXCEPT
       !.used = {i \in @ : bus.reg[i].set # Top.sets.once},
       !.stack = Front(@) \o IF async \/ Count("error") = 0 THEN <<>>
                             ELSE <<Emission("error")>>]

Next ==
  \/ \E ev \in Events, h \in Handlers :
       \/ \E kind \in Kinds : Register(ev, kind, h)
       \/ Off(ev, h)
  \/ \E evs \in {{"data"}, Events} : RemoveAll(evs)
  \/ \E ev \in Events : Emit(ev)
  \/ Call \/ Return \/ Finish
  \/ \E async \in BOOLEAN : Throw(async)

Spec == Init /\ [][Next]_bus

-----------------------------------------------------------------------------
(* Properties.                                                             *)

\* The registrations, the map and the emissions in progress have their types.
TypeOK ==
  /\ bus.reg \in Seq([h : Handlers, kind : Kinds, set : 1..Len(bus.reg), live : BOOLEAN])
  /\ bus.entry \in [Events -> [Kinds -> 0..Len(bus.reg)]]
  /\ \A k \in DOMAIN bus.stack : bus.stack[k].cur \in 0..Len(bus.reg)

\* An emission that ends without a throw has called every listener that was
\* registered when it began and that nobody removed, whatever its listeners
\* register, remove and emit while it runs.
EmissionReachesAll ==
  [][Len(bus'.stack) < Len(bus.stack) /\ Top.cur = 0
       => \A i \in Top.due : ~bus.reg[i].live]_bus

\* A once-listener is called a second time only if an emission that called it
\* threw, or if emissions nest.
OnceIsOnce ==
  [][\A i \in bus.used : ~Running(i) /\ Running(i)' => bus.nested]_bus
=============================================================================
