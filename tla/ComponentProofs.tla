---------------------------- MODULE ComponentProofs ----------------------------
(***************************************************************************)
(* The inductive invariants of the components, for all values of their     *)
(* constants, and lemmas about the operators they are built from.          *)
(* SuiteProofs has the theorems that follow for the suite.                 *)
(***************************************************************************)
EXTENDS Components, Integers, SequenceLemmas

-----------------------------------------------------------------------------
(* Sequences.                                                              *)

\* A function on 1..n is a sequence.
LEMMA FunctionIsSeq ==
  ASSUME NEW S, NEW n \in Nat, NEW f \in [1..n -> S]
  PROVE  f \in Seq(S) /\ Len(f) = n
<1>1. f = [i \in 1..n |-> f[i]] /\ \A i \in 1..n : f[i] \in S
  OBVIOUS
<1>2. f \in Seq(S)
  BY <1>1, IsASeq
<1>3. DOMAIN f = 1..Len(f) /\ Len(f) \in Nat /\ DOMAIN f = 1..n
  BY <1>2, LenProperties
<1> QED
  BY <1>2, <1>3

\* A sequence without its last element.
LEMMA FrontOfSeq ==
  ASSUME NEW S, NEW s \in Seq(S), s # <<>>
  PROVE  /\ SubSeq(s, 1, Len(s) - 1) \in Seq(S)
         /\ Len(SubSeq(s, 1, Len(s) - 1)) = Len(s) - 1
         /\ \A i \in 1..Len(s) - 1 : SubSeq(s, 1, Len(s) - 1)[i] = s[i]
         /\ Len(s) \in Nat \ {0}
<1>1. Len(s) \in Nat \ {0}
  BY EmptySeq
<1>2. PICK m \in Int : m = Len(s) - 1
  BY <1>1
<1>3. \A i \in 1..m : s[i] \in S
  BY <1>1, <1>2, ElementOfSeq
<1>4. /\ SubSeq(s, 1, m) \in Seq(S)
      /\ Len(SubSeq(s, 1, m)) = IF 1 <= m THEN m - 1 + 1 ELSE 0
      /\ \A i \in 1..m - 1 + 1 : SubSeq(s, 1, m)[i] = s[1 + i - 1]
  BY <1>3, SubSeqProperties
<1>5. Len(SubSeq(s, 1, m)) = m
  BY <1>1, <1>2, <1>4
<1>6. ASSUME NEW i \in 1..m PROVE SubSeq(s, 1, m)[i] = s[i]
  <2>1. i \in 1..m - 1 + 1 /\ 1 + i - 1 = i
    BY <1>2
  <2> QED
    BY <1>4, <2>1
<1> QED
  BY <1>1, <1>2, <1>4, <1>5, <1>6

\* Sequence y, of l elements, is s without its first element h.
IsTail(S, s, h, y, l) ==
  /\ h \in S /\ h = Head(s) /\ h = s[1] /\ y \in Seq(S) /\ y = Tail(s)
  /\ Len(y) = l /\ Len(s) = l + 1 /\ 1 \in 1..Len(s)
  /\ \A i \in 1..l : y[i] = s[i + 1] /\ s[i + 1] \in S /\ i + 1 \in 1..Len(s) /\ i + 1 > 1

\* What Head and Tail return.
LEMMA TailOfSeq ==
  ASSUME NEW S, NEW s \in Seq(S), s # <<>>
  PROVE  \E h \in S, y \in Seq(S), l \in Nat : IsTail(S, s, h, y, l)
<1>1. PICK n \in Nat : n = Len(s)
  BY LenProperties
<1>2. n > 0 /\ 1 \in 1..n
  BY <1>1
<1>3. PICK l \in Nat : l = n - 1
  BY <1>2
<1>4. /\ Head(s) \in S /\ Head(s) = s[1] /\ Tail(s) \in Seq(S)
      /\ \A i \in 1..Len(Tail(s)) : Tail(s)[i] = s[i + 1]
  BY <1>1, <1>2, HeadTailProperties
<1>5. Len(Tail(s)) = l /\ Len(s) = l + 1
  BY <1>1, <1>2, <1>3, HeadTailProperties
<1>6. \A i \in 1..l : i + 1 \in 1..n /\ i + 1 > 1
  BY <1>2, <1>3
<1>7. \A i \in 1..l : s[i + 1] \in S
  BY <1>1, <1>6, ElementOfSeq
<1>8. IsTail(S, s, Head(s), Tail(s), l)
  BY <1>1, <1>2, <1>4, <1>5, <1>6, <1>7 DEF IsTail
<1> QED
  BY <1>4, <1>8

-----------------------------------------------------------------------------
(* EventBus.                                                               *)

BusReg == [h : Handlers, kind : EB!Kinds, set : Nat, live : BOOLEAN]
BusSets == [EB!Kinds -> Nat]
BusFrame == [ev : EB!Events, sets : BusSets, kind : EB!Kinds, pos : Nat, cur : Nat,
             due : SUBSET Nat]
BusType(b) ==
  b \in [reg : Seq(BusReg), entry : [EB!Events -> BusSets], stack : Seq(BusFrame),
         used : SUBSET Nat, nested : BOOLEAN]

\* A Set is named by its first registration r[s], and has registrations of one kind.
IsSet(r, s, kind) == s = 0 \/ (s \in 1..Len(r) /\ r[s].kind = kind)
SetsNamed(r) ==
  \A i \in 1..Len(r) : r[i].set \in 1..Len(r) /\ r[i].kind = r[r[i].set].kind

\* The map has Sets of the right kind, and a Set of once-listeners is of one event.
MapNamed(r, e) ==
  /\ \A ev \in EB!Events : IsSet(r, e[ev].on, "on") /\ IsSet(r, e[ev].once, "once")
  /\ \A ev, x \in EB!Events : e[ev].once # 0 /\ e[ev].once = e[x].once => ev = x

\* What is due in an emission f and still registered is ahead of its iterators.
Ahead(r, f, i) ==
  \/ r[i].set = f.sets.on /\ f.kind = "on" /\ i > f.pos
  \/ r[i].set = f.sets.once /\ (f.kind = "on" \/ i > f.pos)

EmissionExact(r, e, f) ==
  /\ IsSet(r, f.sets.on, "on") /\ IsSet(r, f.sets.once, "once")
  /\ f.pos <= Len(r)
  /\ \A x \in EB!Events : f.sets.once # 0 /\ e[x].once = f.sets.once => x = f.ev
  /\ \A i \in f.due : i \in 1..Len(r) /\ (r[i].live => Ahead(r, f, i))

\* A once-listener that was called is behind the iterator of the emission, or in a
\* Set that no emission will look up.
Spent(r, e, s, i) ==
  /\ i \in 1..Len(r) /\ r[i].kind = "once"
  /\ IF s # <<>> /\ r[i].set = s[1].sets.once
     THEN s[1].kind = "once" /\ i <= s[1].pos
     ELSE \A x \in EB!Events : e[x].once # r[i].set

Single(b) ==
  ~b.nested => /\ Len(b.stack) <= 1
               /\ \A i \in b.used : Spent(b.reg, b.entry, b.stack, i)

BusInv(b) ==
  /\ BusType(b) /\ SetsNamed(b.reg) /\ MapNamed(b.reg, b.entry)
  /\ \A k \in 1..Len(b.stack) : EmissionExact(b.reg, b.entry, b.stack[k])
  /\ Single(b)

\* Registrations are added and end, and the map is given new Sets or none.
Wider(r, q) ==
  /\ Len(r) <= Len(q)
  /\ \A i \in 1..Len(r) :
       q[i].set = r[i].set /\ q[i].kind = r[i].kind /\ (q[i].live => r[i].live)
NewerMap(r, e, d) ==
  \A x \in EB!Events : d[x].once \in {0, e[x].once} \/ d[x].once > Len(r)

\* A Set keeps its kind.
LEMMA SetKept ==
  ASSUME NEW r \in Seq(BusReg), NEW q \in Seq(BusReg), Wider(r, q), NEW s \in Nat, NEW kind,
         IsSet(r, s, kind)
  PROVE  IsSet(q, s, kind)
<1>1. Len(r) \in Nat /\ Len(q) \in Nat
  BY LenProperties
<1>2. CASE s \in 1..Len(r)
  <2>1. s \in 1..Len(q) /\ r[s].kind = kind
    BY <1>1, <1>2 DEF IsSet, Wider
  <2> QED
    BY <1>2, <2>1 DEF IsSet, Wider
<1> QED
  BY <1>2 DEF IsSet

\* An emission has all that is due ahead of it, whatever is registered and removed.
LEMMA EmissionKept ==
  ASSUME NEW r \in Seq(BusReg), NEW q \in Seq(BusReg), Wider(r, q),
         NEW e, NEW d, NewerMap(r, e, d), NEW f \in BusFrame, EmissionExact(r, e, f)
  PROVE  EmissionExact(q, d, f)
<1>1. Len(r) \in Nat /\ Len(q) \in Nat /\ Len(r) <= Len(q)
  BY LenProperties DEF Wider
<1>2. f.pos \in Nat /\ f.sets.on \in Nat /\ f.sets.once \in Nat
  BY DEF BusFrame, BusSets, EB!Kinds
<1>3. IsSet(q, f.sets.on, "on") /\ IsSet(q, f.sets.once, "once")
  BY <1>2, SetKept DEF EmissionExact
<1>4. f.pos <= Len(q)
  BY <1>1, <1>2 DEF EmissionExact
<1>5. ASSUME NEW x \in EB!Events, f.sets.once # 0, d[x].once = f.sets.once PROVE x = f.ev
  <2>1. f.sets.once \in 1..Len(r)
    BY <1>5 DEF EmissionExact, IsSet
  <2>2. ~(d[x].once > Len(r))
    BY <1>1, <1>5, <2>1
  <2>3. d[x].once = e[x].once
    BY <1>5, <2>2 DEF NewerMap
  <2> QED
    BY <1>5, <2>3 DEF EmissionExact
<1>6. ASSUME NEW i \in f.due PROVE i \in 1..Len(q) /\ (q[i].live => Ahead(q, f, i))
  <2>1. i \in 1..Len(r) /\ (r[i].live => Ahead(r, f, i))
    BY DEF EmissionExact
  <2>2. q[i].set = r[i].set /\ (q[i].live => r[i].live)
    BY <2>1 DEF Wider
  <2>3. Ahead(r, f, i) <=> Ahead(q, f, i)
    BY <2>2 DEF Ahead
  <2> QED
    BY <1>1, <2>1, <2>2, <2>3
<1> QED
  BY <1>3, <1>4, <1>5, <1>6 DEF EmissionExact

\* A once-listener that was called stays out of reach.
LEMMA SpentKept ==
  ASSUME NEW r \in Seq(BusReg), NEW q \in Seq(BusReg), SetsNamed(r), Wider(r, q),
         NEW e, NEW d, NewerMap(r, e, d), NEW s, NEW i, Spent(r, e, s, i)
  PROVE  Spent(q, d, s, i)
<1>1. Len(r) \in Nat /\ Len(q) \in Nat /\ Len(r) <= Len(q)
  BY LenProperties DEF Wider
<1>2. i \in 1..Len(r) /\ r[i].kind = "once"
  BY DEF Spent
<1>3. q[i].set = r[i].set /\ q[i].kind = "once" /\ r[i].set \in 1..Len(r) /\ i \in 1..Len(q)
  BY <1>1, <1>2 DEF Wider, SetsNamed
<1>4. ASSUME \A x \in EB!Events : e[x].once # r[i].set, NEW x \in EB!Events
      PROVE  d[x].once # r[i].set
  <2>1. CASE d[x].once > Len(r)
    BY <1>1, <1>3, <2>1
  <2>2. CASE d[x].once \in {0, e[x].once}
    BY <1>1, <1>3, <1>4, <2>2
  <2> QED
    BY <2>1, <2>2 DEF NewerMap
<1> QED
  BY <1>3, <1>4 DEF Spent

\* A step that leaves the emissions alone.
LEMMA BusMoves ==
  ASSUME NEW b, BusInv(b), NEW c, BusType(c), c.stack = b.stack, c.used = b.used,
         c.nested = b.nested, Wider(b.reg, c.reg), NewerMap(b.reg, b.entry, c.entry),
         SetsNamed(c.reg), MapNamed(c.reg, c.entry)
  PROVE  BusInv(c)
<1>1. /\ b.reg \in Seq(BusReg) /\ c.reg \in Seq(BusReg) /\ b.stack \in Seq(BusFrame)
      /\ SetsNamed(b.reg)
  BY DEF BusInv, BusType
<1>2. ASSUME NEW k \in 1..Len(c.stack) PROVE EmissionExact(c.reg, c.entry, c.stack[k])
  <2>1. b.stack[k] \in BusFrame /\ EmissionExact(b.reg, b.entry, b.stack[k])
    BY <1>1, ElementOfSeq DEF BusInv
  <2>2. EmissionExact(c.reg, c.entry, b.stack[k])
    BY <1>1, <2>1, EmissionKept
  <2> QED
    BY <2>2
<1>3. Single(c)
  <2> SUFFICES ASSUME ~c.nested, NEW i \in c.used
               PROVE  Len(c.stack) <= 1 /\ Spent(c.reg, c.entry, c.stack, i)
    <3>1. ASSUME ~c.nested PROVE Len(c.stack) <= 1
      BY <3>1 DEF BusInv, Single
    <3> QED
      BY <3>1 DEF Single
  <2>1. Len(c.stack) <= 1 /\ Spent(b.reg, b.entry, c.stack, i)
    BY DEF BusInv, Single
  <2> QED
    BY <1>1, <2>1, SpentKept
<1> QED
  BY <1>2, <1>3 DEF BusInv

\* What a Set of the map may be after a step.
LEMMA MapKept ==
  ASSUME NEW r \in Seq(BusReg), NEW q \in Seq(BusReg), Wider(r, q),
         NEW e \in [EB!Events -> BusSets], MapNamed(r, e), NEW d \in [EB!Events -> BusSets],
         \A x \in EB!Events : d[x].on \in {0, e[x].on} /\ d[x].once \in {0, e[x].once}
  PROVE  MapNamed(q, d) /\ NewerMap(r, e, d)
<1>1. ASSUME NEW x \in EB!Events PROVE IsSet(q, d[x].on, "on") /\ IsSet(q, d[x].once, "once")
  <2>1. e[x].on \in Nat /\ e[x].once \in Nat
    BY DEF BusSets, EB!Kinds
  <2>2. IsSet(q, e[x].on, "on") /\ IsSet(q, e[x].once, "once")
    BY <2>1, SetKept DEF MapNamed
  <2>3. IsSet(q, 0, "on") /\ IsSet(q, 0, "once")
    BY DEF IsSet
  <2> QED
    BY <2>2, <2>3
<1>2. ASSUME NEW x \in EB!Events, NEW y \in EB!Events, d[x].once # 0, d[x].once = d[y].once
      PROVE  x = y
  <2>1. e[x].once # 0 /\ e[x].once = e[y].once
    BY <1>2
  <2> QED
    BY <2>1 DEF MapNamed
<1>3. NewerMap(r, e, d)
  BY DEF NewerMap
<1> QED
  BY <1>1, <1>2, <1>3 DEF MapNamed

\* on() and once().
LEMMA BusRegister ==
  ASSUME BusInv(bus), NEW ev \in EB!Events, NEW kind \in EB!Kinds, NEW h \in Handlers,
         EB!Register(ev, kind, h)
  PROVE  BusInv(bus')
<1> DEFINE r == bus.reg
           e == bus.entry
           n == Len(r)
           s == IF e[ev][kind] = 0 THEN n + 1 ELSE e[ev][kind]
           new == [h |-> h, kind |-> kind, set |-> s, live |-> TRUE]
           q == Append(r, new)
           d == [e EXCEPT ![ev][kind] = s]
<1>1. /\ r \in Seq(BusReg) /\ e \in [EB!Events -> BusSets] /\ SetsNamed(r) /\ MapNamed(r, e)
      /\ n \in Nat
  BY LenProperties DEF BusInv, BusType
<1>2. bus' = [bus EXCEPT !.entry[ev][kind] = s, !.reg = q]
  BY DEF EB!Register
<1>3. e[ev] \in BusSets /\ e[ev][kind] \in Nat /\ IsSet(r, e[ev][kind], kind)
  BY <1>1 DEF BusSets, MapNamed, EB!Kinds
<1>4. s \in 1..n + 1 /\ (s # n + 1 => r[s].kind = kind /\ s = e[ev][kind] /\ s # 0)
      /\ (s = n + 1 \/ s \in 1..n)
  BY <1>1, <1>3 DEF IsSet
<1>5. d \in [EB!Events -> BusSets]
  BY <1>1, <1>3, <1>4 DEF BusSets
<1>6. /\ d[ev] = [e[ev] EXCEPT ![kind] = s]
      /\ \A x \in EB!Events \ {ev} : d[x] = e[x]
  BY <1>1
<1> HIDE DEF s
<1>7. new \in BusReg /\ new.kind = kind /\ new.set = s
  BY <1>4 DEF BusReg
<1> HIDE DEF new
<1>8. /\ q \in Seq(BusReg) /\ Len(q) = n + 1
      /\ \A i \in 1..n + 1 : q[i] = IF i = n + 1 THEN new ELSE r[i]
  BY <1>1, <1>7, AppendProperties
<1>9. bus' = [bus EXCEPT !.reg = q, !.entry = d]
  BY <1>1, <1>2 DEF BusInv, BusType
<1> HIDE DEF q, d, n, r, e
<1>10. Wider(r, q)
  BY <1>1, <1>8 DEF Wider, n
<1>11. \A i \in 1..n : q[i] = r[i]
  BY <1>1, <1>8
<1>12. q[n + 1] = new
  BY <1>1, <1>8
<1>13. q[s].kind = kind
  BY <1>1, <1>4, <1>7, <1>11, <1>12
<1>14. SetsNamed(q)
  <2> SUFFICES ASSUME NEW i \in 1..n + 1
               PROVE  q[i].set \in 1..n + 1 /\ q[i].kind = q[q[i].set].kind
    BY <1>8 DEF SetsNamed
  <2>1. CASE i = n + 1
    BY <1>4, <1>7, <1>12, <1>13, <2>1
  <2>2. CASE i # n + 1
    <3>1. i \in 1..n
      BY <1>1, <2>2
    <3>2. r[i].set \in 1..n /\ r[i].kind = r[r[i].set].kind
      BY <1>1, <3>1 DEF SetsNamed, n
    <3> QED
      BY <1>1, <1>11, <3>1, <3>2
  <2> QED
    BY <2>1, <2>2
<1>15. ASSUME NEW x \in EB!Events PROVE IsSet(q, d[x].on, "on") /\ IsSet(q, d[x].once, "once")
  <2>1. e[x].on \in Nat /\ e[x].once \in Nat
    BY <1>1 DEF BusSets, EB!Kinds
  <2>2. IsSet(q, e[x].on, "on") /\ IsSet(q, e[x].once, "once")
    BY <1>1, <1>8, <1>10, <2>1, SetKept DEF MapNamed
  <2>3. IsSet(q, s, kind)
    BY <1>4, <1>8, <1>13 DEF IsSet
  <2>4. CASE x = ev
    BY <1>3, <1>6, <2>2, <2>3, <2>4 DEF BusSets, EB!Kinds
  <2>5. CASE x # ev
    BY <1>6, <2>2, <2>5
  <2> QED
    BY <2>4, <2>5
<1>16. \A x \in EB!Events : \/ d[x].once = e[x].once
                            \/ x = ev /\ kind = "once" /\ d[x].once = s /\ s = n + 1
  <2> SUFFICES ASSUME NEW x \in EB!Events, d[x].once # e[x].once
               PROVE  x = ev /\ kind = "once" /\ d[x].once = s /\ s = n + 1
    OBVIOUS
  <2>1. x = ev
    BY <1>6
  <2>2. kind = "once" /\ d[x].once = s
    BY <1>3, <1>6, <2>1 DEF BusSets, EB!Kinds
  <2> QED
    BY <1>4, <2>1, <2>2
<1>17. \A x \in EB!Events : e[x].once \in 0..n
  BY <1>1 DEF MapNamed, IsSet, n
<1>18. MapNamed(q, d)
  <2>1. ASSUME NEW x \in EB!Events, NEW y \in EB!Events, d[x].once # 0, d[x].once = d[y].once
        PROVE  x = y
    <3>1. CASE d[x].once = e[x].once /\ d[y].once = e[y].once
      BY <1>1, <2>1, <3>1 DEF MapNamed
    <3>2. CASE ~(d[x].once = e[x].once /\ d[y].once = e[y].once)
      <4>1. ASSUME NEW z \in EB!Events PROVE e[z].once # n + 1
        BY <1>1, <1>17
      <4> QED
        BY <1>16, <2>1, <3>2, <4>1
    <3> QED
      BY <3>1, <3>2
  <2> QED
    BY <1>15, <2>1 DEF MapNamed
<1>19. NewerMap(r, e, d)
  <2> SUFFICES ASSUME NEW x \in EB!Events
               PROVE  d[x].once \in {0, e[x].once} \/ d[x].once > n
    BY DEF NewerMap, n
  <2> QED
    BY <1>1, <1>16
<1>20. BusType(bus)
  BY DEF BusInv
<1>21. /\ BusType(bus') /\ bus'.reg = q /\ bus'.entry = d
       /\ bus'.stack = bus.stack /\ bus'.used = bus.used /\ bus'.nested = bus.nested
  BY <1>5, <1>8, <1>9, <1>20 DEF BusType
<1> QED
  BY <1>10, <1>14, <1>18, <1>19, <1>21, BusMoves DEF r, e

\* off() of a handler.
LEMMA BusOff ==
  ASSUME BusInv(bus), NEW ev \in EB!Events, NEW h \in Handlers, EB!Off(ev, h)
  PROVE  BusInv(bus')
<1> DEFINE r == bus.reg
           e == bus.entry
           n == Len(r)
           gone(kind) == {i \in EB!Members(bus.entry[ev][kind]) : bus.reg[i].h = h}
           off == gone("on") \union gone("once")
           q == EB!Removed(off)
           left == [kind \in EB!Kinds |->
                      IF EB!Members(e[ev][kind]) \subseteq gone(kind) THEN 0 ELSE e[ev][kind]]
           d == [e EXCEPT ![ev] = left]
<1>1. /\ r \in Seq(BusReg) /\ e \in [EB!Events -> BusSets] /\ SetsNamed(r) /\ MapNamed(r, e)
      /\ n \in Nat /\ DOMAIN r = 1..n
  BY LenProperties DEF BusInv, BusType
<1>2. bus' = [bus EXCEPT !.reg = q, !.entry[ev] = left]
  BY DEF EB!Off
<1>3. e[ev] \in [EB!Kinds -> Nat]
  BY <1>1 DEF BusSets
<1>4. left \in BusSets /\ left.on \in {0, e[ev].on} /\ left.once \in {0, e[ev].once}
  BY <1>3 DEF BusSets, EB!Kinds
<1>5. d \in [EB!Events -> BusSets]
  BY <1>1, <1>4
<1>6. bus' = [bus EXCEPT !.reg = q, !.entry = d]
  BY <1>1, <1>2 DEF BusInv, BusType
<1>7. \A x \in EB!Events : d[x].on \in {0, e[x].on} /\ d[x].once \in {0, e[x].once}
  BY <1>1, <1>4
<1> HIDE DEF off, left, gone, d, r, e
<1>8. ASSUME NEW i \in 1..n
      PROVE  /\ q[i] \in BusReg /\ q[i].set = r[i].set /\ q[i].kind = r[i].kind
             /\ (q[i].live => r[i].live)
  <2>1. r[i] \in BusReg
    BY <1>1, ElementOfSeq DEF n
  <2>2. PICK b \in BOOLEAN : b = (r[i].live /\ i \notin off)
    OBVIOUS
  <2>3. q[i] = [r[i] EXCEPT !.live = b]
    BY <1>1, <2>2 DEF EB!Removed, r, n
  <2> HIDE DEF q
  <2> QED
    BY <2>1, <2>2, <2>3 DEF BusReg
<1>9. q \in Seq(BusReg) /\ Len(q) = n
  <2>1. q \in [1..n -> BusReg]
    <3>1. DOMAIN q = 1..n /\ q = [i \in 1..n |-> q[i]]
      BY <1>1 DEF EB!Removed, r
    <3> QED
      BY <1>8, <3>1
  <2> HIDE DEF q, n
  <2> QED
    BY <1>1, <2>1, FunctionIsSeq
<1> HIDE DEF q
<1>10. Wider(r, q)
  BY <1>1, <1>8, <1>9 DEF Wider, n
<1>11. SetsNamed(q)
  <2> SUFFICES ASSUME NEW i \in 1..n PROVE q[i].set \in 1..n /\ q[i].kind = q[q[i].set].kind
    BY <1>9 DEF SetsNamed
  <2>1. r[i].set \in 1..n /\ r[i].kind = r[r[i].set].kind
    BY <1>1 DEF SetsNamed, n
  <2> QED
    BY <1>8, <2>1
<1>12. MapNamed(q, d) /\ NewerMap(r, e, d)
  BY <1>1, <1>5, <1>7, <1>9, <1>10, MapKept
<1>13. BusType(bus)
  BY DEF BusInv
<1>14. /\ BusType(bus') /\ bus'.reg = q /\ bus'.entry = d
       /\ bus'.stack = bus.stack /\ bus'.used = bus.used /\ bus'.nested = bus.nested
  BY <1>5, <1>6, <1>9, <1>13 DEF BusType
<1> QED
  BY <1>10, <1>11, <1>12, <1>14, BusMoves DEF r, e

\* Another map over the same registrations.
LEMMA BusForgets ==
  ASSUME BusInv(bus), NEW d \in [EB!Events -> BusSets],
         \A x \in EB!Events : /\ d[x].on \in {0, bus.entry[x].on}
                              /\ d[x].once \in {0, bus.entry[x].once}
  PROVE  BusInv([bus EXCEPT !.entry = d])
<1>1. /\ bus.reg \in Seq(BusReg) /\ bus.entry \in [EB!Events -> BusSets] /\ SetsNamed(bus.reg)
      /\ MapNamed(bus.reg, bus.entry) /\ BusType(bus)
  BY DEF BusInv, BusType
<1>2. PICK c : c = [bus EXCEPT !.entry = d]
  OBVIOUS
<1>3. c = [bus EXCEPT !.reg = bus.reg, !.entry = d]
  BY <1>1, <1>2 DEF BusType
<1>4. Wider(bus.reg, bus.reg)
  BY <1>1, LenProperties DEF Wider
<1>5. MapNamed(bus.reg, d) /\ NewerMap(bus.reg, bus.entry, d)
  BY <1>1, <1>4, MapKept
<1>6. /\ BusType(c) /\ c.reg = bus.reg /\ c.entry = d
      /\ c.stack = bus.stack /\ c.used = bus.used /\ c.nested = bus.nested
  BY <1>1, <1>3 DEF BusType
<1> QED
  BY <1>1, <1>2, <1>4, <1>5, <1>6, BusMoves

\* off() of an event and removeAllListeners().
LEMMA BusRemoveAll ==
  ASSUME BusInv(bus), NEW evs, EB!RemoveAll(evs)
  PROVE  BusInv(bus')
<1> DEFINE d == [x \in EB!Events |-> IF x \in evs THEN EB!NoEntry ELSE bus.entry[x]]
<1>1. bus.entry \in [EB!Events -> BusSets]
  BY DEF BusInv, BusType
<1>2. bus' = [bus EXCEPT !.entry = d]
  BY DEF EB!RemoveAll
<1>3. EB!NoEntry \in BusSets /\ EB!NoEntry.on = 0 /\ EB!NoEntry.once = 0
  BY DEF EB!NoEntry, BusSets, EB!Kinds
<1>4. d \in [EB!Events -> BusSets]
  BY <1>1, <1>3
<1>5. \A x \in EB!Events : /\ d[x].on \in {0, bus.entry[x].on}
                           /\ d[x].once \in {0, bus.entry[x].once}
  BY <1>3
<1> HIDE DEF d
<1> QED
  BY <1>2, <1>4, <1>5, BusForgets

\* The registrations in a Set.
LEMMA InSet ==
  ASSUME BusType(bus), NEW s, NEW i
  PROVE  i \in EB!Members(s)
           <=> i \in 1..Len(bus.reg) /\ bus.reg[i].live /\ bus.reg[i].set = s
<1>1. bus.reg \in Seq(BusReg)
  BY DEF BusType
<1>2. DOMAIN bus.reg = 1..Len(bus.reg)
  BY <1>1, LenProperties
<1> QED
  BY <1>2 DEF EB!Members

\* A new emission has ahead of it what is registered for its event.
LEMMA EmissionNew ==
  ASSUME BusInv(bus), NEW ev \in EB!Events
  PROVE  /\ EB!Emission(ev) \in BusFrame /\ EB!Emission(ev).sets = bus.entry[ev]
         /\ EB!Emission(ev).cur = 0
         /\ EmissionExact(bus.reg, bus.entry, EB!Emission(ev))
<1> DEFINE f == EB!Emission(ev)
           r == bus.reg
           e == bus.entry
           due == EB!Members(e[ev].on) \union EB!Members(e[ev].once)
<1>1. /\ BusType(bus) /\ r \in Seq(BusReg) /\ e \in [EB!Events -> BusSets] /\ MapNamed(r, e)
      /\ Len(r) \in Nat
  BY LenProperties DEF BusInv, BusType
<1>2. f = [ev |-> ev, sets |-> e[ev], kind |-> "on", pos |-> 0, cur |-> 0, due |-> due]
  BY DEF EB!Emission
<1>3. \A i \in due : /\ i \in 1..Len(r)
                     /\ r[i].set = e[ev].on \/ r[i].set = e[ev].once
  BY <1>1, InSet
<1>4. due \in SUBSET Nat
  BY <1>1, <1>3
<1> HIDE DEF f, due, r, e
<1>5. f \in BusFrame
  BY <1>1, <1>2, <1>4 DEF BusFrame, EB!Kinds
<1>6. f.ev = ev /\ f.sets = e[ev] /\ f.kind = "on" /\ f.pos = 0 /\ f.cur = 0 /\ f.due = due
  BY <1>2
<1>7. \A i \in due : i \in 1..Len(r) /\ Ahead(r, f, i)
  BY <1>3, <1>6 DEF Ahead
<1>8. EmissionExact(r, e, f)
  BY <1>1, <1>6, <1>7 DEF EmissionExact, MapNamed
<1> QED
  BY <1>5, <1>6, <1>8 DEF f, r, e

\* emit().
LEMMA BusEmit ==
  ASSUME BusInv(bus), NEW ev \in EB!Events, EB!Emit(ev)
  PROVE  BusInv(bus')
<1> DEFINE s == bus.stack
           f == EB!Emission(ev)
           q == Append(s, f)
<1>1. s \in Seq(BusFrame) /\ Len(s) \in Nat /\ bus.used \in SUBSET Nat /\ bus.nested \in BOOLEAN
  BY LenProperties DEF BusInv, BusType
<1>2. PICK n \in BOOLEAN : n = (bus.nested \/ bus.stack # <<>>)
  OBVIOUS
<1>3. bus' = [bus EXCEPT !.stack = q, !.nested = n]
  BY <1>2 DEF EB!Emit
<1>4. /\ f \in BusFrame /\ f.sets = bus.entry[ev] /\ f.cur = 0
      /\ EmissionExact(bus.reg, bus.entry, f)
  BY EmissionNew
<1> HIDE DEF f
<1>5. /\ q \in Seq(BusFrame) /\ Len(q) = Len(s) + 1 /\ q # <<>>
      /\ \A k \in 1..Len(s) + 1 : q[k] = IF k = Len(s) + 1 THEN f ELSE s[k]
  BY <1>1, <1>4, AppendProperties
<1> HIDE DEF q
<1>7. ASSUME NEW k \in 1..Len(q) PROVE EmissionExact(bus.reg, bus.entry, q[k])
  <2>1. CASE k = Len(s) + 1
    BY <1>1, <1>4, <1>5, <2>1
  <2>2. CASE k # Len(s) + 1
    <3>1. k \in 1..Len(s) /\ q[k] = s[k]
      BY <1>1, <1>5, <2>2
    <3> QED
      BY <3>1 DEF BusInv
  <2> QED
    BY <2>1, <2>2
<1>8. ASSUME ~n PROVE Len(q) <= 1 /\ \A i \in bus.used : Spent(bus.reg, bus.entry, q, i)
  <2>1. ~bus.nested /\ s = <<>>
    BY <1>2, <1>8
  <2>2. Len(q) = 1 /\ q[1] = f
    BY <1>5, <2>1
  <2>3. ASSUME NEW i \in bus.used PROVE Spent(bus.reg, bus.entry, q, i)
    <3>1. Spent(bus.reg, bus.entry, <<>>, i)
      BY <2>1 DEF BusInv, Single
    <3>2. /\ i \in 1..Len(bus.reg) /\ bus.reg[i].kind = "once"
          /\ \A x \in EB!Events : bus.entry[x].once # bus.reg[i].set
      BY <3>1 DEF Spent
    <3>3. bus.reg[i].set # q[1].sets.once
      BY <1>4, <2>2, <3>2
    <3> QED
      BY <3>2, <3>3 DEF Spent
  <2> QED
    BY <2>2, <2>3
<1>9. /\ \A k \in 1..Len(q) : EmissionExact(bus.reg, bus.entry, q[k])
      /\ ~n => Len(q) <= 1 /\ \A i \in bus.used : Spent(bus.reg, bus.entry, q, i)
  BY <1>7, <1>8
<1>10. /\ BusType(bus') /\ bus'.reg = bus.reg /\ bus'.entry = bus.entry /\ bus'.stack = q
       /\ bus'.used = bus.used /\ bus'.nested = n
  BY <1>3, <1>5 DEF BusInv, BusType
<1>11. Single(bus')
  BY <1>9, <1>10 DEF Single
<1> QED
  BY <1>9, <1>10, <1>11 DEF BusInv

\* The emission in progress.
LEMMA BusTop ==
  ASSUME BusInv(bus), bus.stack # <<>>
  PROVE  /\ bus.stack \in Seq(BusFrame) /\ Len(bus.stack) \in Nat \ {0}
         /\ EB!Top = bus.stack[Len(bus.stack)] /\ EB!Top \in BusFrame
         /\ EmissionExact(bus.reg, bus.entry, EB!Top)
<1>1. bus.stack \in Seq(BusFrame)
  BY DEF BusInv, BusType
<1>2. Len(bus.stack) \in Nat \ {0}
  BY <1>1, LenProperties, EmptySeq
<1>3. EB!Top = bus.stack[Len(bus.stack)]
  BY DEF EB!Top, EB!Last
<1>4. Len(bus.stack) \in 1..Len(bus.stack)
  BY <1>2
<1>5. bus.stack[Len(bus.stack)] \in BusFrame
  BY <1>1, <1>4, ElementOfSeq
<1>6. EmissionExact(bus.reg, bus.entry, bus.stack[Len(bus.stack)])
  BY <1>4 DEF BusInv
<1> QED
  BY <1>1, <1>2, <1>3, <1>5, <1>6

\* The emission in progress is replaced by f.
LEMMA BusSetTop ==
  ASSUME BusInv(bus), bus.stack # <<>>, NEW f \in BusFrame,
         EmissionExact(bus.reg, bus.entry, f)
  PROVE  /\ EB!SetTop(f) \in Seq(BusFrame) /\ Len(EB!SetTop(f)) = Len(bus.stack)
         /\ EB!SetTop(f)[Len(bus.stack)] = f /\ EB!SetTop(f) # <<>>
         /\ \A k \in 1..Len(bus.stack) :
              EmissionExact(bus.reg, bus.entry, EB!SetTop(f)[k])
<1> DEFINE s == bus.stack
           q == EB!SetTop(f)
<1>1. s \in Seq(BusFrame) /\ Len(s) \in Nat \ {0} /\ Len(s) \in 1..Len(s)
  BY BusTop
<1>2. q = [s EXCEPT ![Len(s)] = f]
  BY DEF EB!SetTop
<1> HIDE DEF q
<1>3. /\ q \in Seq(BusFrame) /\ Len(q) = Len(s)
      /\ \A j \in 1..Len(s) : q[j] = IF j = Len(s) THEN f ELSE s[j]
  BY <1>1, <1>2, ExceptSeq
<1>4. q # <<>>
  BY <1>1, <1>3, EmptySeq
<1>5. ASSUME NEW k \in 1..Len(s) PROVE EmissionExact(bus.reg, bus.entry, q[k])
  <2>1. EmissionExact(bus.reg, bus.entry, s[k])
    BY DEF BusInv
  <2> QED
    BY <1>3, <2>1
<1> QED
  BY <1>1, <1>3, <1>4, <1>5 DEF q

\* A Set is of one kind, so that what it holds is.
LEMMA KindOfSet ==
  ASSUME NEW r \in Seq(BusReg), SetsNamed(r), NEW i \in 1..Len(r), NEW kind,
         IsSet(r, r[i].set, kind)
  PROVE  r[i].kind = kind
<1>1. Len(r) \in Nat
  BY LenProperties
<1>2. r[i].set \in 1..Len(r) /\ r[i].kind = r[r[i].set].kind
  BY DEF SetsNamed
<1>3. r[i].set # 0
  BY <1>1, <1>2
<1> QED
  BY <1>2, <1>3 DEF IsSet

\* What the iterators have yet to visit.
LEMMA InOnLeft ==
  ASSUME BusType(bus), NEW f, NEW i
  PROVE  /\ i \in EB!OnLeft(f) <=> /\ i \in 1..Len(bus.reg) /\ bus.reg[i].live
                                   /\ bus.reg[i].set = f.sets.on /\ f.kind = "on" /\ i > f.pos
         /\ i \in EB!OnceLeft(f) <=> /\ i \in 1..Len(bus.reg) /\ bus.reg[i].live
                                     /\ bus.reg[i].set = f.sets.once
                                     /\ (f.kind = "on" \/ i > f.pos)
<1>1. i \in EB!OnLeft(f) <=> i \in EB!Members(f.sets.on) /\ f.kind = "on" /\ i > f.pos
  BY DEF EB!OnLeft
<1>2. i \in EB!OnceLeft(f) <=> i \in EB!Members(f.sets.once) /\ (f.kind = "on" \/ i > f.pos)
  BY DEF EB!OnceLeft
<1> QED
  BY <1>1, <1>2, InSet

\* The next listener is of the emission's Sets, and the first of them.
LEMMA NextListener ==
  ASSUME BusInv(bus), bus.stack # <<>>, EB!OnLeft(EB!Top) \union EB!OnceLeft(EB!Top) # {},
         NEW i, i = EB!Min(IF EB!OnLeft(EB!Top) # {} THEN EB!OnLeft(EB!Top)
                           ELSE EB!OnceLeft(EB!Top))
  PROVE  /\ i \in 1..Len(bus.reg) /\ bus.reg[i].live
         /\ \/ /\ bus.reg[i].kind = "on" /\ i \in EB!OnLeft(EB!Top)
               /\ \A j \in EB!OnLeft(EB!Top) : i <= j
            \/ /\ bus.reg[i].kind = "once" /\ EB!OnLeft(EB!Top) = {}
               /\ i \in EB!OnceLeft(EB!Top)
               /\ \A j \in EB!OnceLeft(EB!Top) : i <= j
<1> DEFINE t == EB!Top
           r == bus.reg
           left == IF EB!OnLeft(t) # {} THEN EB!OnLeft(t) ELSE EB!OnceLeft(t)
<1>1. /\ BusType(bus) /\ r \in Seq(BusReg) /\ SetsNamed(r) /\ Len(r) \in Nat
      /\ EmissionExact(r, bus.entry, t)
  BY BusTop, LenProperties DEF BusInv, BusType
<1>2. /\ \A j \in EB!OnLeft(t) : j \in 1..Len(r) /\ r[j].live /\ r[j].set = t.sets.on
      /\ \A j \in EB!OnceLeft(t) : j \in 1..Len(r) /\ r[j].live /\ r[j].set = t.sets.once
  BY <1>1, InOnLeft
<1>3. left \in SUBSET Nat /\ left # {}
  BY <1>1, <1>2
<1>4. i = Min(left)
  BY DEF EB!Min, Min
<1>5. i \in left /\ \A j \in left : i <= j
  BY <1>3, <1>4, LeastElement
<1>6. CASE EB!OnLeft(t) # {}
  <2>1. i \in EB!OnLeft(t) /\ \A j \in EB!OnLeft(t) : i <= j
    BY <1>5, <1>6
  <2>2. i \in 1..Len(r) /\ IsSet(r, r[i].set, "on") /\ r[i].live
    BY <1>1, <1>2, <2>1 DEF EmissionExact
  <2>3. r[i].kind = "on"
    BY <1>1, <2>2, KindOfSet
  <2> QED
    BY <2>1, <2>2, <2>3
<1>7. CASE EB!OnLeft(t) = {}
  <2>1. i \in EB!OnceLeft(t) /\ \A j \in EB!OnceLeft(t) : i <= j
    BY <1>5, <1>7
  <2>2. i \in 1..Len(r) /\ IsSet(r, r[i].set, "once") /\ r[i].live
    BY <1>1, <1>2, <2>1 DEF EmissionExact
  <2>3. r[i].kind = "once"
    BY <1>1, <2>2, KindOfSet
  <2> QED
    BY <1>7, <2>1, <2>2, <2>3
<1> QED
  BY <1>6, <1>7

\* Emissions that do not nest are one at a time.
LEMMA OneEmission ==
  ASSUME BusInv(bus), ~bus.nested
  PROVE  /\ bus.stack # <<>> => Len(bus.stack) = 1
         /\ \A i \in bus.used : Spent(bus.reg, bus.entry, bus.stack, i)
<1>1. Single(bus)
  BY DEF BusInv
<1>2. Len(bus.stack) <= 1
  BY <1>1, Zenon DEF Single
<1>3. \A i \in bus.used : Spent(bus.reg, bus.entry, bus.stack, i)
  BY <1>1, Zenon DEF Single
<1>4. ASSUME bus.stack # <<>> PROVE Len(bus.stack) = 1
  <2>1. PICK n \in Nat \ {0} : n = Len(bus.stack)
    BY <1>4, BusTop
  <2>2. n <= 1
    BY <1>2, <2>1
  <2>3. n = 1
    BY <2>2
  <2> QED
    BY <2>1, <2>3
<1> QED
  BY <1>3, <1>4

\* The emission calls the next listener.
LEMMA BusCall ==
  ASSUME BusInv(bus), EB!Call
  PROVE  BusInv(bus')
<1> DEFINE t == EB!Top
           r == bus.reg
           e == bus.entry
           s == bus.stack
           i == EB!Min(IF EB!OnLeft(t) # {} THEN EB!OnLeft(t) ELSE EB!OnceLeft(t))
           f == [t EXCEPT !.cur = i, !.pos = i, !.kind = r[i].kind, !.due = @ \ {i}]
           q == EB!SetTop(f)
           u == IF r[i].kind = "once" THEN bus.used \union {i} ELSE bus.used
<1>1. s # <<>> /\ EB!OnLeft(t) \union EB!OnceLeft(t) # {}
  BY DEF EB!Call
<1>2. bus' = [bus EXCEPT !.stack = q, !.used = u]
  BY DEF EB!Call
<1>3. /\ BusType(bus) /\ r \in Seq(BusReg) /\ Len(r) \in Nat /\ SetsNamed(r)
      /\ t \in BusFrame /\ EmissionExact(r, e, t) /\ t = s[Len(s)] /\ Len(s) \in Nat \ {0}
  BY <1>1, BusTop, LenProperties DEF BusInv, BusType
<1>4. /\ i \in 1..Len(r) /\ r[i].live
      /\ \/ /\ r[i].kind = "on" /\ i \in EB!OnLeft(t) /\ \A j \in EB!OnLeft(t) : i <= j
         \/ /\ r[i].kind = "once" /\ EB!OnLeft(t) = {} /\ i \in EB!OnceLeft(t)
            /\ \A j \in EB!OnceLeft(t) : i <= j
  BY <1>1, NextListener
<1> HIDE DEF i
<1>5. i \in Nat /\ r[i].kind \in EB!Kinds
  <2>1. r[i] \in BusReg
    BY <1>3, <1>4, ElementOfSeq
  <2> QED
    BY <1>3, <1>4, <2>1 DEF BusReg
<1>6. f \in BusFrame
  BY <1>3, <1>5 DEF BusFrame
<1>7. /\ f.sets = t.sets /\ f.ev = t.ev /\ f.kind = r[i].kind /\ f.pos = i
      /\ f.due = t.due \ {i}
  BY <1>3 DEF BusFrame
<1> HIDE DEF f, t
<1>8. ASSUME NEW j \in f.due PROVE j \in 1..Len(r) /\ (r[j].live => Ahead(r, f, j))
  <2>1. j \in 1..Len(r) /\ (r[j].live => Ahead(r, t, j)) /\ j # i
    BY <1>3, <1>7 DEF EmissionExact
  <2>2. ASSUME r[j].live PROVE Ahead(r, f, j)
    <3>1. Ahead(r, t, j)
      BY <2>1, <2>2
    <3>2. CASE r[j].set = t.sets.on /\ t.kind = "on" /\ j > t.pos
      <4>1. j \in EB!OnLeft(t)
        BY <1>3, <2>1, <2>2, <3>2, InOnLeft
      <4>2. r[i].kind = "on" /\ i <= j
        BY <1>4, <4>1
      <4>3. j > i
        BY <1>5, <2>1, <4>2
      <4> QED
        BY <1>7, <3>2, <4>2, <4>3 DEF Ahead
    <3>3. CASE r[j].set = t.sets.once /\ (t.kind = "on" \/ j > t.pos)
      <4>1. j \in EB!OnceLeft(t)
        BY <1>3, <2>1, <2>2, <3>3, InOnLeft
      <4>2. r[i].kind = "on" \/ i <= j
        BY <1>4, <4>1
      <4>3. r[i].kind = "on" \/ j > i
        BY <1>5, <2>1, <4>2
      <4> QED
        BY <1>7, <3>3, <4>3 DEF Ahead
    <3> QED
      BY <3>1, <3>2, <3>3 DEF Ahead
  <2> QED
    BY <2>1, <2>2
<1>9. EmissionExact(r, e, f)
  BY <1>3, <1>4, <1>5, <1>7, <1>8 DEF EmissionExact
<1>10. /\ q \in Seq(BusFrame) /\ Len(q) = Len(s) /\ q[Len(s)] = f /\ q # <<>>
       /\ \A k \in 1..Len(s) : EmissionExact(r, e, q[k])
  BY <1>1, <1>6, <1>9, BusSetTop
<1>11. u \in SUBSET Nat
  BY <1>3, <1>5 DEF BusType
<1>12. \A j \in u : j \in bus.used \/ (j = i /\ r[i].kind = "once")
  OBVIOUS
<1> HIDE DEF q, u
<1>13. ASSUME ~bus.nested PROVE Len(q) <= 1 /\ \A j \in u : Spent(r, e, q, j)
  <2>1. Len(s) = 1 /\ \A j \in bus.used : Spent(r, e, s, j)
    BY <1>1, <1>13, OneEmission
  <2>2. s[1] = t /\ q[1] = f
    BY <1>3, <1>10, <2>1
  <2>3. ASSUME NEW j \in bus.used PROVE Spent(r, e, q, j)
    <3>1. /\ j \in 1..Len(r) /\ r[j].kind = "once"
          /\ IF r[j].set = t.sets.once THEN t.kind = "once" /\ j <= t.pos
             ELSE \A x \in EB!Events : e[x].once # r[j].set
      BY <1>1, <2>1, <2>2 DEF Spent
    <3>2. CASE r[j].set = t.sets.once
      <4>1. t.kind = "once" /\ j <= t.pos
        BY <3>1, <3>2
      <4>2. i \notin EB!OnLeft(t)
        BY <1>3, <4>1, InOnLeft
      <4>3. r[i].kind = "once" /\ i \in EB!OnceLeft(t)
        BY <1>4, <4>2
      <4>4. i > t.pos
        BY <1>3, <4>1, <4>3, InOnLeft
      <4>5. t.pos \in Nat /\ j \in Nat
        BY <1>3, <3>1 DEF BusFrame
      <4>6. j <= i
        BY <1>5, <4>1, <4>4, <4>5
      <4> QED
        BY <1>7, <1>10, <2>2, <3>1, <3>2, <4>3, <4>6 DEF Spent
    <3>3. CASE r[j].set # t.sets.once
      BY <1>7, <1>10, <2>2, <3>1, <3>3 DEF Spent
    <3> QED
      BY <3>2, <3>3
  <2>4. ASSUME r[i].kind = "once" PROVE Spent(r, e, q, i)
    <3>1. i \in EB!OnceLeft(t)
      BY <1>4, <2>4
    <3>2. r[i].set = t.sets.once
      BY <1>3, <3>1, InOnLeft
    <3> QED
      BY <1>4, <1>5, <1>7, <1>10, <2>2, <2>4, <3>2 DEF Spent
  <2> QED
    BY <1>10, <1>12, <2>1, <2>3, <2>4
<1>14. /\ BusType(bus') /\ bus'.reg = r /\ bus'.entry = e /\ bus'.stack = q
       /\ bus'.used = u /\ bus'.nested = bus.nested
  BY <1>2, <1>3, <1>10, <1>11 DEF BusType
<1>15. Single(bus')
  BY <1>13, <1>14 DEF Single
<1> QED
  BY <1>10, <1>14, <1>15 DEF BusInv

\* A listener returns.
LEMMA BusReturn ==
  ASSUME BusInv(bus), EB!Return
  PROVE  BusInv(bus')
<1> DEFINE t == EB!Top
           r == bus.reg
           e == bus.entry
           s == bus.stack
           f == [t EXCEPT !.cur = 0]
           q == EB!SetTop(f)
<1>1. s # <<>> /\ bus' = [bus EXCEPT !.stack = q]
  BY DEF EB!Return
<1>2. /\ BusType(bus) /\ t \in BusFrame /\ EmissionExact(r, e, t) /\ t = s[Len(s)]
      /\ Len(s) \in Nat \ {0}
  BY <1>1, BusTop DEF BusInv
<1>3. /\ f \in BusFrame /\ f.sets = t.sets /\ f.ev = t.ev /\ f.kind = t.kind
      /\ f.pos = t.pos /\ f.due = t.due
  BY <1>2 DEF BusFrame
<1> HIDE DEF f, t
<1>4. EmissionExact(r, e, f)
  BY <1>2, <1>3 DEF EmissionExact, Ahead
<1>5. /\ q \in Seq(BusFrame) /\ Len(q) = Len(s) /\ q[Len(s)] = f /\ q # <<>>
      /\ \A k \in 1..Len(s) : EmissionExact(r, e, q[k])
  BY <1>1, <1>3, <1>4, BusSetTop
<1> HIDE DEF q
<1>6. ASSUME ~bus.nested PROVE Len(q) <= 1 /\ \A j \in bus.used : Spent(r, e, q, j)
  <2>1. Len(s) = 1 /\ \A j \in bus.used : Spent(r, e, s, j)
    BY <1>1, <1>6, OneEmission
  <2>2. s[1] = t /\ q[1] = f
    BY <1>2, <1>5, <2>1
  <2>3. ASSUME NEW j \in bus.used PROVE Spent(r, e, q, j)
    <3>1. Spent(r, e, s, j)
      BY <2>1
    <3> QED
      BY <1>1, <1>3, <1>5, <2>2, <3>1 DEF Spent
  <2> QED
    BY <1>5, <2>1, <2>3
<1>7. /\ BusType(bus') /\ bus'.reg = r /\ bus'.entry = e /\ bus'.stack = q
      /\ bus'.used = bus.used /\ bus'.nested = bus.nested
  BY <1>1, <1>2, <1>5 DEF BusType
<1>8. Single(bus')
  BY <1>6, <1>7 DEF Single
<1> QED
  BY <1>5, <1>7, <1>8 DEF BusInv

\* The emissions below the one in progress.
LEMMA BusFront ==
  ASSUME BusInv(bus), bus.stack # <<>>
  PROVE  /\ EB!Front(bus.stack) \in Seq(BusFrame)
         /\ Len(EB!Front(bus.stack)) = Len(bus.stack) - 1
         /\ \A k \in 1..Len(bus.stack) - 1 :
              /\ EB!Front(bus.stack)[k] = bus.stack[k]
              /\ EmissionExact(bus.reg, bus.entry, EB!Front(bus.stack)[k])
         /\ Len(bus.stack) = 1 => EB!Front(bus.stack) = <<>>
<1> DEFINE s == bus.stack
<1>1. s \in Seq(BusFrame) /\ Len(s) \in Nat \ {0}
  BY BusTop
<1>2. EB!Front(s) = SubSeq(s, 1, Len(s) - 1)
  BY DEF EB!Front
<1>3. /\ EB!Front(s) \in Seq(BusFrame) /\ Len(EB!Front(s)) = Len(s) - 1
      /\ \A k \in 1..Len(s) - 1 : EB!Front(s)[k] = s[k]
  BY <1>1, <1>2, FrontOfSeq
<1>4. ASSUME NEW k \in 1..Len(s) - 1 PROVE EmissionExact(bus.reg, bus.entry, EB!Front(s)[k])
  <2>1. k \in 1..Len(s)
    BY <1>1
  <2>2. EmissionExact(bus.reg, bus.entry, s[k])
    BY <2>1 DEF BusInv
  <2> QED
    BY <1>3, <2>2
<1>5. Len(s) = 1 => EB!Front(s) = <<>>
  BY <1>3, EmptySeq
<1> QED
  BY <1>3, <1>4, <1>5

\* An emission that ends without a throw: the once-listeners go.
LEMMA BusFinish ==
  ASSUME BusInv(bus), EB!Finish
  PROVE  BusInv(bus')
<1> DEFINE t == EB!Top
           r == bus.reg
           e == bus.entry
           s == bus.stack
           o == IF t.sets.once = 0 THEN e[t.ev].once ELSE 0
           d == [e EXCEPT ![t.ev].once = o]
           q == EB!Front(s)
<1>1. s # <<>> /\ bus' = [bus EXCEPT !.stack = q, !.entry[t.ev].once = o]
  BY DEF EB!Finish
<1>2. /\ BusType(bus) /\ t \in BusFrame /\ EmissionExact(r, e, t) /\ t = s[Len(s)]
      /\ Len(s) \in Nat \ {0} /\ r \in Seq(BusReg) /\ e \in [EB!Events -> BusSets]
      /\ SetsNamed(r) /\ Len(r) \in Nat
  BY <1>1, BusTop, LenProperties DEF BusInv, BusType
<1>3. t.ev \in EB!Events /\ t.sets.once \in Nat
  BY <1>2 DEF BusFrame, BusSets, EB!Kinds
<1>4. e[t.ev] \in BusSets /\ o \in {0, e[t.ev].once} /\ o \in Nat
  BY <1>2, <1>3 DEF BusSets, EB!Kinds
<1>5. t.sets.once # 0 => o = 0
  OBVIOUS
<1> HIDE DEF o
<1>6. [e[t.ev] EXCEPT !.once = o] \in BusSets
  BY <1>4 DEF BusSets
<1>7. d \in [EB!Events -> BusSets]
  BY <1>2, <1>3, <1>6
<1>8. /\ d[t.ev].on = e[t.ev].on /\ d[t.ev].once = o
      /\ \A x \in EB!Events \ {t.ev} : d[x] = e[x]
  BY <1>2, <1>3, <1>4 DEF BusSets, EB!Kinds
<1>9. bus' = [bus EXCEPT !.stack = q, !.entry = d]
  BY <1>1, <1>2 DEF BusType
<1> HIDE DEF t, d, r, e
<1>10. \A x \in EB!Events : d[x].on \in {0, e[x].on} /\ d[x].once \in {0, e[x].once}
  BY <1>4, <1>8
<1>11. Wider(r, r)
  BY <1>2 DEF Wider
<1>12. MapNamed(r, d) /\ NewerMap(r, e, d)
  <2>1. MapNamed(r, e)
    BY DEF BusInv, r, e
  <2> QED
    BY <1>2, <1>7, <1>10, <1>11, <2>1, MapKept
<1>13. /\ q \in Seq(BusFrame) /\ Len(q) = Len(s) - 1 /\ (Len(s) = 1 => q = <<>>)
       /\ \A k \in 1..Len(s) - 1 : q[k] = s[k]
  BY <1>1, BusFront
<1> HIDE DEF q
<1>14. ASSUME NEW k \in 1..Len(s) - 1 PROVE EmissionExact(r, d, q[k])
  <2>1. k \in 1..Len(s)
    BY <1>2
  <2>2. EmissionExact(r, e, s[k])
    BY <2>1 DEF BusInv, r, e
  <2>3. s[k] \in BusFrame
    BY <1>2, <2>1, ElementOfSeq DEF BusType
  <2>4. EmissionExact(r, d, s[k])
    BY <1>2, <1>11, <1>12, <2>2, <2>3, EmissionKept
  <2> QED
    BY <1>13, <2>4
<1>15. ASSUME ~bus.nested PROVE Len(q) <= 1 /\ \A i \in bus.used : Spent(r, d, q, i)
  <2>2. Len(s) = 1 /\ \A i \in bus.used : Spent(r, e, s, i)
    BY <1>1, <1>15, OneEmission DEF r, e
  <2>3. s[1] = t /\ q = <<>> /\ Len(q) = 0
    BY <1>2, <1>13, <2>2
  <2>4. ASSUME NEW i \in bus.used PROVE Spent(r, d, q, i)
    <3>1. /\ i \in 1..Len(r) /\ r[i].kind = "once"
          /\ IF r[i].set = t.sets.once THEN t.kind = "once" /\ i <= t.pos
             ELSE \A x \in EB!Events : e[x].once # r[i].set
      BY <1>1, <2>2, <2>3 DEF Spent
    <3>2. r[i].set \in 1..Len(r) /\ r[i].set # 0
      BY <1>2, <3>1 DEF SetsNamed
    <3>3. ASSUME NEW x \in EB!Events, d[x].once = r[i].set PROVE FALSE
      <4>1. e[x].once = r[i].set
        BY <1>10, <3>2, <3>3
      <4>2. r[i].set = t.sets.once
        BY <3>1, <4>1
      <4>3. x = t.ev
        BY <1>2, <3>2, <4>1, <4>2 DEF EmissionExact
      <4> QED
        BY <1>5, <1>8, <3>2, <3>3, <4>2, <4>3
    <3> QED
      BY <2>3, <3>1, <3>3 DEF Spent
  <2> QED
    BY <2>3, <2>4
<1>16. /\ BusType(bus') /\ bus'.reg = r /\ bus'.entry = d /\ bus'.stack = q
       /\ bus'.used = bus.used /\ bus'.nested = bus.nested
  BY <1>2, <1>7, <1>9, <1>13 DEF BusType, r
<1>17. Single(bus')
  BY <1>15, <1>16 DEF Single
<1> QED
  BY <1>2, <1>12, <1>13, <1>14, <1>16, <1>17 DEF BusInv

\* A listener throws.
LEMMA BusThrow ==
  ASSUME BusInv(bus), NEW async \in BOOLEAN, EB!Throw(async)
  PROVE  BusInv(bus')
<1> DEFINE t == EB!Top
           r == bus.reg
           e == bus.entry
           s == bus.stack
           f == EB!Emission("error")
           u == {i \in bus.used : r[i].set # t.sets.once}
           q == EB!Front(s) \o (IF async \/ EB!Count("error") = 0 THEN <<>> ELSE <<f>>)
<1>1. s # <<>> /\ bus' = [bus EXCEPT !.used = u, !.stack = q]
  BY DEF EB!Throw
<1>2. /\ BusType(bus) /\ t = s[Len(s)] /\ Len(s) \in Nat \ {0} /\ r \in Seq(BusReg)
      /\ SetsNamed(r) /\ Len(r) \in Nat
  BY <1>1, BusTop, LenProperties DEF BusInv, BusType
<1>3. "error" \in EB!Events
  BY DEF EB!Events
<1>4. f \in BusFrame /\ f.sets = e["error"] /\ EmissionExact(r, e, f)
  BY <1>3, EmissionNew
<1>5. /\ EB!Front(s) \in Seq(BusFrame) /\ Len(EB!Front(s)) = Len(s) - 1
      /\ \A k \in 1..Len(s) - 1 : EmissionExact(r, e, EB!Front(s)[k])
      /\ (Len(s) = 1 => EB!Front(s) = <<>>)
  BY <1>1, BusFront
<1> HIDE DEF f, t
<1>6. q = EB!Front(s) \/ q = Append(EB!Front(s), f)
  <2>1. EB!Front(s) \o <<>> = EB!Front(s)
    BY <1>5, ConcatEmptySeq
  <2>2. EB!Front(s) \o <<f>> = Append(EB!Front(s), f)
    BY <1>4, <1>5, AppendIsConcat
  <2> QED
    BY <2>1, <2>2
<1> HIDE DEF q
<1>7. /\ q \in Seq(BusFrame) /\ Len(q) \in Nat
      /\ \A k \in 1..Len(q) : EmissionExact(r, e, q[k])
      /\ (Len(s) = 1 => q = <<>> \/ (Len(q) = 1 /\ q # <<>> /\ q[1] = f))
  <2>1. CASE q = EB!Front(s)
    BY <1>2, <1>5, <2>1
  <2>2. CASE q = Append(EB!Front(s), f)
    <3>1. /\ q \in Seq(BusFrame) /\ Len(q) = Len(s) /\ q # <<>>
          /\ \A k \in 1..Len(s) : q[k] = IF k = Len(s) THEN f ELSE EB!Front(s)[k]
      <4>1. Len(EB!Front(s)) + 1 = Len(s)
        BY <1>2, <1>5
      <4> QED
        BY <1>2, <1>4, <1>5, <2>2, <4>1, AppendProperties
    <3>2. ASSUME NEW k \in 1..Len(q) PROVE EmissionExact(r, e, q[k])
      <4>1. CASE k = Len(s)
        BY <1>2, <1>4, <3>1, <4>1
      <4>2. CASE k # Len(s)
        <5>1. k \in 1..Len(s) - 1 /\ k \in 1..Len(s) /\ q[k] = EB!Front(s)[k]
          BY <1>2, <3>1, <4>2
        <5> QED
          BY <1>5, <5>1
      <4> QED
        BY <4>1, <4>2
    <3>3. Len(s) = 1 => q[1] = f
      BY <3>1
    <3> QED
      BY <1>2, <3>1, <3>2, <3>3
  <2> QED
    BY <1>6, <2>1, <2>2
<1>8. u \in SUBSET Nat
  BY <1>2 DEF BusType
<1>9. ASSUME ~bus.nested PROVE Len(q) <= 1 /\ \A i \in u : Spent(r, e, q, i)
  <2>2. Len(s) = 1 /\ \A i \in bus.used : Spent(r, e, s, i)
    BY <1>1, <1>9, OneEmission
  <2>3. s[1] = t
    BY <1>2, <2>2
  <2>4. ASSUME NEW i \in u PROVE Spent(r, e, q, i)
    <3>1. i \in bus.used /\ r[i].set # t.sets.once
      OBVIOUS
    <3>2. Spent(r, e, s, i)
      BY <2>2, <3>1
    <3>3. /\ i \in 1..Len(r) /\ r[i].kind = "once"
          /\ \A x \in EB!Events : e[x].once # r[i].set
      BY <1>1, <2>3, <3>1, <3>2 DEF Spent
    <3>4. r[i].set # f.sets.once
      BY <1>3, <1>4, <3>3
    <3>5. q = <<>> \/ q[1] = f
      BY <1>7, <2>2
    <3> QED
      BY <3>3, <3>4, <3>5 DEF Spent
  <2>5. Len(q) <= 1
    BY <1>7, <2>2, EmptySeq
  <2> QED
    BY <2>4, <2>5
<1> HIDE DEF u
<1>10. /\ BusType(bus') /\ bus'.reg = r /\ bus'.entry = e /\ bus'.stack = q
       /\ bus'.used = u /\ bus'.nested = bus.nested
  BY <1>1, <1>2, <1>7, <1>8 DEF BusType
<1>11. Single(bus')
  BY <1>9, <1>10 DEF Single
<1> QED
  BY <1>7, <1>10, <1>11 DEF BusInv

\* The bus starts empty.
LEMMA BusStarts ==
  ASSUME EB!Init
  PROVE  BusInv(bus)
<1>1. /\ bus.reg = <<>> /\ bus.entry = [ev \in EB!Events |-> EB!NoEntry] /\ bus.stack = <<>>
      /\ bus.used = {} /\ bus.nested = FALSE
  BY DEF EB!Init
<1>2. EB!NoEntry \in BusSets /\ EB!NoEntry.on = 0 /\ EB!NoEntry.once = 0
  BY DEF EB!NoEntry, BusSets, EB!Kinds
<1>3. <<>> \in Seq(BusReg) /\ <<>> \in Seq(BusFrame) /\ Len(<<>>) = 0
  OBVIOUS
<1>4. bus.entry \in [EB!Events -> BusSets]
  BY <1>1, <1>2
<1>5. BusType(bus)
  BY <1>3, <1>4 DEF BusType, EB!Init
<1>6. SetsNamed(bus.reg)
  BY <1>1, <1>3 DEF SetsNamed
<1>7. \A ev \in EB!Events : bus.entry[ev].on = 0 /\ bus.entry[ev].once = 0
  BY <1>1, <1>2
<1>8. MapNamed(bus.reg, bus.entry)
  BY <1>7 DEF MapNamed, IsSet
<1>9. Single(bus)
  BY <1>1, <1>3 DEF Single
<1> QED
  BY <1>1, <1>3, <1>5, <1>6, <1>8, <1>9 DEF BusInv

\* Every step of the bus keeps the invariant.
LEMMA BusInvariant ==
  ASSUME BusInv(bus), [EB!Next]_bus
  PROVE  BusInv(bus')
<1>1. ASSUME NEW ev \in EB!Events, NEW h \in Handlers, NEW kind \in EB!Kinds,
             EB!Register(ev, kind, h)
      PROVE  BusInv(bus')
  BY <1>1, BusRegister
<1>2. ASSUME NEW ev \in EB!Events, NEW h \in Handlers, EB!Off(ev, h) PROVE BusInv(bus')
  BY <1>2, BusOff
<1>3. ASSUME NEW evs, EB!RemoveAll(evs) PROVE BusInv(bus')
  BY <1>3, BusRemoveAll
<1>4. ASSUME NEW ev \in EB!Events, EB!Emit(ev) PROVE BusInv(bus')
  BY <1>4, BusEmit
<1>5. ASSUME NEW async \in BOOLEAN, EB!Throw(async) PROVE BusInv(bus')
  BY <1>5, BusThrow
<1> QED
  BY <1>1, <1>2, <1>3, <1>4, <1>5, BusCall, BusReturn, BusFinish DEF EB!Next

\* An emission ends without a throw when its iterators have nothing left.
LEMMA NothingIsLeft ==
  ASSUME BusInv(bus), bus.stack # <<>>, EB!OnLeft(EB!Top) \union EB!OnceLeft(EB!Top) = {},
         NEW i \in EB!Top.due
  PROVE  ~bus.reg[i].live
<1>1. BusType(bus) /\ EmissionExact(bus.reg, bus.entry, EB!Top)
  BY BusTop DEF BusInv
<1>2. i \in 1..Len(bus.reg) /\ (bus.reg[i].live => Ahead(bus.reg, EB!Top, i))
  BY <1>1 DEF EmissionExact
<1>3. i \notin EB!OnLeft(EB!Top) /\ i \notin EB!OnceLeft(EB!Top)
  OBVIOUS
<1> QED
  BY <1>1, <1>2, <1>3, InOnLeft DEF Ahead

\* The stack of emissions only grows, keeps its height, or loses one.
LEMMA BusHeight ==
  ASSUME BusInv(bus), [EB!Next]_bus, Len(bus'.stack) < Len(bus.stack)
  PROVE  /\ bus.stack # <<>>
         /\ EB!Finish \/ EB!Top.cur # 0
<1>1. bus.stack \in Seq(BusFrame) /\ Len(bus.stack) \in Nat /\ BusType(bus)
  BY LenProperties DEF BusInv, BusType
<1>2. bus'.stack # bus.stack
  BY <1>1
<1>3. ASSUME NEW ev, NEW kind, NEW h, EB!Register(ev, kind, h) PROVE bus'.stack = bus.stack
  BY <1>1, <1>3 DEF EB!Register, BusType
<1>4. ASSUME NEW ev, NEW h, EB!Off(ev, h) PROVE bus'.stack = bus.stack
  BY <1>1, <1>4 DEF EB!Off, BusType
<1>5. ASSUME NEW evs, EB!RemoveAll(evs) PROVE bus'.stack = bus.stack
  BY <1>1, <1>5 DEF EB!RemoveAll, BusType
<1>6. ASSUME NEW ev \in EB!Events, EB!Emit(ev) PROVE FALSE
  <2>1. bus'.stack = Append(bus.stack, EB!Emission(ev)) /\ EB!Emission(ev) \in BusFrame
    BY <1>1, <1>6, EmissionNew DEF EB!Emit, BusType
  <2>2. Len(bus'.stack) = Len(bus.stack) + 1
    BY <1>1, <2>1, AppendProperties
  <2> QED
    BY <1>1, <2>2
<1>7. ASSUME NEW f, bus'.stack = EB!SetTop(f), bus.stack # <<>> PROVE FALSE
  <2>1. DOMAIN EB!SetTop(f) = DOMAIN bus.stack
    BY DEF EB!SetTop
  <2>2. Len(EB!SetTop(f)) = Len(bus.stack)
    <3>1. EB!SetTop(f) = [k \in 1..Len(bus.stack) |-> EB!SetTop(f)[k]]
      BY <1>1, <2>1, LenProperties DEF EB!SetTop
    <3> QED
      BY <1>1, <3>1
  <2> QED
    BY <1>1, <1>7, <2>2
<1>8. ASSUME EB!Call PROVE FALSE
  <2>1. PICK f : bus'.stack = EB!SetTop(f) /\ bus.stack # <<>>
    BY <1>1, <1>8 DEF EB!Call, BusType
  <2> QED
    BY <1>7, <2>1
<1>9. ASSUME EB!Return PROVE FALSE
  <2>1. PICK f : bus'.stack = EB!SetTop(f) /\ bus.stack # <<>>
    BY <1>1, <1>9 DEF EB!Return, BusType
  <2> QED
    BY <1>7, <2>1
<1>10. EB!Finish \/ \E async \in BOOLEAN : EB!Throw(async)
  BY <1>2, <1>3, <1>4, <1>5, <1>6, <1>8, <1>9, Zenon DEF EB!Next
<1> QED
  BY <1>10 DEF EB!Finish, EB!Throw

\* An emission that ends without a throw has called all that stayed registered.
LEMMA BusReachesAll ==
  ASSUME BusInv(bus), [EB!Next]_bus
  PROVE  Len(bus'.stack) < Len(bus.stack) /\ EB!Top.cur = 0
           => \A i \in EB!Top.due : ~bus.reg[i].live
<1> SUFFICES ASSUME Len(bus'.stack) < Len(bus.stack), EB!Top.cur = 0, NEW i \in EB!Top.due
             PROVE  ~bus.reg[i].live
  OBVIOUS
<1>1. bus.stack # <<>> /\ EB!Finish
  BY BusHeight
<1>2. EB!OnLeft(EB!Top) \union EB!OnceLeft(EB!Top) = {}
  BY <1>1 DEF EB!Finish
<1> QED
  BY <1>1, <1>2, NothingIsLeft

\* A once-listener that was called is not called again.
LEMMA BusOnce ==
  ASSUME BusInv(bus), [EB!Next]_bus, NEW i \in bus.used, ~EB!Running(i), EB!Running(i)'
  PROVE  bus.nested
<1> SUFFICES ASSUME ~bus.nested
             PROVE  FALSE
  OBVIOUS
<1> DEFINE s == bus.stack
           r == bus.reg
<1>1. /\ s \in Seq(BusFrame) /\ r \in Seq(BusReg) /\ BusType(bus) /\ Len(r) \in Nat
      /\ BusType(bus') /\ bus'.stack \in Seq(BusFrame) /\ bus'.stack # <<>>
  <2>1. BusType(bus)
    BY DEF BusInv
  <2>2. BusType(bus')
    BY BusInvariant DEF BusInv
  <2> QED
    BY <2>1, <2>2, LenProperties DEF BusType, EB!Running
<1>2. /\ (s # <<>> => Len(s) = 1)
      /\ Spent(r, bus.entry, s, i)
  BY OneEmission
<1>3. i \in 1..Len(r) /\ i # 0 /\ r[i].kind = "once"
  BY <1>1, <1>2 DEF Spent
<1>4. EB!Top' = bus'.stack[Len(bus'.stack)]
  BY DEF EB!Top, EB!Last
<1>5. bus'.stack[Len(bus'.stack)].cur = i
  BY <1>4 DEF EB!Running
<1>6. bus'.stack # s
  <2>1. EB!Top = s[Len(s)]
    BY DEF EB!Top, EB!Last
  <2> QED
    BY <1>1, <1>5, <2>1 DEF EB!Running
<1>7. ASSUME NEW f \in BusFrame, Len(bus'.stack) \in Nat, bus'.stack[Len(bus'.stack)] = f
      PROVE  f.cur = i
  BY <1>5, <1>7
<1>8. ASSUME NEW ev, NEW kind, NEW h, EB!Register(ev, kind, h) PROVE bus'.stack = s
  BY <1>1, <1>8 DEF EB!Register, BusType
<1>9. ASSUME NEW ev, NEW h, EB!Off(ev, h) PROVE bus'.stack = s
  BY <1>1, <1>9 DEF EB!Off, BusType
<1>10. ASSUME NEW evs, EB!RemoveAll(evs) PROVE bus'.stack = s
  BY <1>1, <1>10 DEF EB!RemoveAll, BusType
<1>11. ASSUME NEW ev \in EB!Events, NEW q \in Seq(BusFrame),
              bus'.stack = Append(q, EB!Emission(ev))
       PROVE  FALSE
  <2>1. EB!Emission(ev) \in BusFrame /\ EB!Emission(ev).cur = 0
    BY EmissionNew
  <2>2. bus'.stack[Len(bus'.stack)] = EB!Emission(ev)
    BY <1>11, <2>1, AppendProperties, LenProperties
  <2> QED
    BY <1>3, <1>5, <2>1, <2>2
<1>12. ASSUME NEW ev \in EB!Events, EB!Emit(ev) PROVE FALSE
  <2>1. bus'.stack = Append(s, EB!Emission(ev))
    BY <1>1, <1>12 DEF EB!Emit, BusType
  <2> QED
    BY <1>1, <1>11, <2>1
<1>13. ASSUME NEW f, s # <<>>, bus'.stack = EB!SetTop(f) PROVE f.cur = i
  <2>1. Len(s) = 1 /\ Len(bus'.stack) \in Nat \ {0}
    BY <1>1, <1>2, <1>13, EmptySeq, LenProperties
  <2>2. PICK n : n = Len(bus'.stack)
    OBVIOUS
  <2>3. PICK q : q = bus'.stack
    OBVIOUS
  <2>4. q = [s EXCEPT ![1] = f]
    BY <1>13, <2>1, <2>3 DEF EB!SetTop
  <2>5. DOMAIN s = 1..1 /\ DOMAIN q = 1..n /\ n \in Nat \ {0}
    BY <1>1, <2>1, <2>2, <2>3, LenProperties
  <2>6. DOMAIN q = DOMAIN s
    BY <2>4
  <2>7. 1 \in DOMAIN s
    BY <2>5
  <2>8. q[1] = f
    BY <2>4, <2>7
  <2>9. n \in DOMAIN q
    BY <2>5
  <2>10. n \in 1..1
    BY <2>5, <2>6, <2>9, Zenon
  <2>11. q[n] = f
    BY <2>8, <2>10
  <2> QED
    BY <1>5, <2>2, <2>3, <2>11
<1>14. ASSUME EB!Return PROVE FALSE
  <2>1. s # <<>> /\ bus'.stack = EB!SetTop([EB!Top EXCEPT !.cur = 0])
    BY <1>1, <1>14 DEF EB!Return, BusType
  <2>2. EB!Top \in BusFrame
    BY <2>1, BusTop
  <2>3. [EB!Top EXCEPT !.cur = 0].cur = 0
    BY <2>2 DEF BusFrame
  <2>4. [EB!Top EXCEPT !.cur = 0].cur = i
    BY <1>13, <2>1
  <2> QED
    BY <1>3, <2>3, <2>4
<1>15. ASSUME EB!Call PROVE FALSE
  <2> DEFINE t == EB!Top
             j == EB!Min(IF EB!OnLeft(t) # {} THEN EB!OnLeft(t) ELSE EB!OnceLeft(t))
             f == [t EXCEPT !.cur = j, !.pos = j, !.kind = r[j].kind, !.due = @ \ {j}]
  <2>1. s # <<>> /\ EB!OnLeft(t) \union EB!OnceLeft(t) # {}
    BY <1>15 DEF EB!Call
  <2>2. bus'.stack = EB!SetTop(f)
    BY <1>1, <1>15 DEF EB!Call, BusType
  <2>3. t \in BusFrame /\ t = s[1]
    BY <1>2, <2>1, BusTop
  <2>4. \/ r[j].kind = "on"
        \/ r[j].kind = "once" /\ j \in EB!OnceLeft(t)
    BY <2>1, NextListener
  <2>5. f.cur = i
    BY <1>13, <2>1, <2>2
  <2> HIDE DEF j
  <2>6. f.cur = j
    BY <2>3 DEF BusFrame
  <2> HIDE DEF f, t
  <2>7. i \in EB!OnceLeft(t)
    BY <1>3, <2>4, <2>5, <2>6
  <2>8. r[i].set = t.sets.once /\ (t.kind = "on" \/ i > t.pos)
    BY <1>1, <2>7, InOnLeft
  <2>9. t.kind = "once" /\ i <= t.pos
    BY <1>2, <2>1, <2>3, <2>8 DEF Spent
  <2>10. i \in Nat /\ t.pos \in Nat
    BY <1>3, <2>3 DEF BusFrame
  <2> QED
    BY <2>8, <2>9, <2>10
<1>16. ASSUME EB!Finish PROVE FALSE
  <2>1. s # <<>> /\ bus'.stack = EB!Front(s)
    BY <1>1, <1>16 DEF EB!Finish, BusType
  <2> QED
    BY <1>1, <1>2, <2>1, BusFront
<1>17. ASSUME NEW async \in BOOLEAN, EB!Throw(async) PROVE FALSE
  <2>1. /\ s # <<>>
        /\ \/ bus'.stack = EB!Front(s) \o <<>>
           \/ bus'.stack = EB!Front(s) \o <<EB!Emission("error")>>
    BY <1>1, <1>17 DEF EB!Throw, BusType
  <2>2. EB!Front(s) \in Seq(BusFrame) /\ EB!Front(s) = <<>>
    BY <1>2, <2>1, BusFront
  <2>3. "error" \in EB!Events
    BY DEF EB!Events
  <2>4. EB!Emission("error") \in BusFrame
    BY <2>3, EmissionNew
  <2>5. EB!Front(s) \o <<>> = EB!Front(s)
    BY <2>2, ConcatEmptySeq
  <2>6. EB!Front(s) \o <<EB!Emission("error")>> = Append(EB!Front(s), EB!Emission("error"))
    BY <2>2, <2>4, AppendIsConcat
  <2> QED
    BY <1>1, <1>11, <2>1, <2>2, <2>3, <2>5, <2>6
<1>18. [EB!Next]_bus /\ bus' # bus
  BY <1>6
<1> QED
  BY <1>6, <1>8, <1>9, <1>10, <1>12, <1>14, <1>15, <1>16, <1>17, <1>18, Zenon DEF EB!Next

-----------------------------------------------------------------------------
(* AsyncQueue.                                                             *)

JobStates == {"new", "queued", "running", "settled", "left"}

\* The fields of a queue q have their types.
QueueType(q) ==
  q \in [queue : Seq(1..Jobs), running : 0..QConc, added : 0..Jobs,
         st : [1..Jobs -> JobStates], awaits : [1..Jobs -> 0..Jobs]]

Slots(q) == {j \in 1..Jobs : q.st[j] \in {"running", "settled"}}

\* The jobs that wait are those added last, in that order, and slots are counted.
QueueExact(q) ==
  /\ Len(q.queue) <= q.added
  /\ \A i \in 1..Len(q.queue) : q.queue[i] = q.added - Len(q.queue) + i
  /\ \A j \in 1..Jobs : q.st[j] = "new" <=> q.added < j
  /\ \A j \in 1..Jobs :
       q.st[j] = "queued" <=> q.added - Len(q.queue) < j /\ j <= q.added
  /\ q.running = Cardinality(Slots(q))

\* No slot is free while a job waits.
QueueFull(q) == q.queue # <<>> => q.running = QConc

QueueInv == QueueType(aq) /\ QueueExact(aq) /\ QueueFull(aq)

\* The slots are finitely many.
LEMMA SlotsFinite ==
  ASSUME Jobs \in Nat, NEW q
  PROVE  IsFiniteSet(Slots(q)) /\ Cardinality(Slots(q)) \in Nat
<1>1. IsFiniteSet(1..Jobs)
  BY FS_Interval
<1>2. Slots(q) \in SUBSET (1..Jobs)
  BY DEF Slots
<1>3. IsFiniteSet(Slots(q))
  BY <1>1, <1>2, FS_Subset
<1> QED
  BY <1>3, FS_CardinalityType

\* process() takes the first job that waits into a slot, which keeps the queue
\* exact.
LEMMA ProcessTakes ==
  ASSUME Jobs \in Nat, QConc \in Nat \ {0}, NEW q, QueueType(q), QueueExact(q),
         q.running < QConc, q.queue # <<>>
  PROVE  /\ QueueType(AQ!Process(q)) /\ QueueExact(AQ!Process(q))
         /\ AQ!Process(q).running = q.running + 1
         /\ AQ!Process(q).queue = Tail(q.queue)
<1>1. PICK s \in Seq(1..Jobs), u \in 0..QConc, a \in 0..Jobs,
           t \in [1..Jobs -> JobStates], w \in [1..Jobs -> 0..Jobs] :
        q = [queue |-> s, running |-> u, added |-> a, st |-> t, awaits |-> w]
  BY DEF QueueType
<1> DEFINE n == Len(s)
           h == s[1]
           st == [t EXCEPT ![h] = "running"]
           r == [queue |-> Tail(s), running |-> u + 1, added |-> a, st |-> st, awaits |-> w]
<1>2. /\ n <= a
      /\ \A i \in 1..n : s[i] = a - n + i
      /\ \A j \in 1..Jobs : t[j] = "new" <=> a < j
      /\ \A j \in 1..Jobs : t[j] = "queued" <=> a - n < j /\ j <= a
      /\ u = Cardinality(Slots(q))
      /\ s # <<>> /\ u < QConc
  BY <1>1 DEF QueueExact
<1>3. /\ Head(s) = h /\ Tail(s) \in Seq(1..Jobs) /\ Len(Tail(s)) = n - 1
      /\ \A i \in 1..n - 1 : Tail(s)[i] = s[i + 1]
  BY <1>2, HeadTailProperties
<1>4. n \in Nat \ {0}
  BY <1>2, EmptySeq, LenProperties
<1>5. 1 \in 1..n /\ h \in 1..Jobs
  BY <1>4
<1>6. AQ!Process(q) = r
  <2>1. AQ!Process(q) = [q EXCEPT !.running = u + 1, !.queue = Tail(s), !.st[h] = "running"]
    BY <1>1, <1>2, <1>3 DEF AQ!Process
  <2> HIDE DEF h
  <2> QED
    BY <1>1, <2>1
<1> HIDE DEF n
<1>7. h = a - n + 1
  BY <1>2, <1>5
<1> HIDE DEF h
<1>8. st \in [1..Jobs -> JobStates] /\ \A j \in 1..Jobs : st[j] = IF j = h THEN "running" ELSE t[j]
  BY <1>5 DEF JobStates
<1> HIDE DEF st
<1>9. QueueType(r)
  <2>1. u + 1 \in 0..QConc
    BY <1>2
  <2>2. Tail(s) \in Seq(1..Jobs) /\ st \in [1..Jobs -> JobStates]
    BY <1>3, <1>8
  <2>3. PICK y \in Seq(1..Jobs), z \in 0..QConc, x \in [1..Jobs -> JobStates] :
          r = [queue |-> y, running |-> z, added |-> a, st |-> x, awaits |-> w]
    BY <2>1, <2>2
  <2> HIDE DEF r
  <2> QED
    BY <2>3 DEF QueueType
<1>10. t[h] = "queued"
  <2>1. a - n < h /\ h <= a
    BY <1>4, <1>7
  <2>2. \A j \in 1..Jobs : a - n < j /\ j <= a => t[j] = "queued"
    BY <1>2
  <2> QED
    BY <1>5, <2>1, <2>2
<1>11. Slots(r) = Slots(q) \union {h} /\ h \notin Slots(q)
  BY <1>1, <1>5, <1>8, <1>10 DEF Slots
<1>12. Cardinality(Slots(r)) = u + 1
  BY <1>2, <1>11, SlotsFinite, FS_AddElement
<1>13. \A i \in 1..n - 1 : Tail(s)[i] = a - (n - 1) + i
  <2> TAKE i \in 1..n - 1
  <2>1. i + 1 \in 1..n /\ Tail(s)[i] = s[i + 1]
    BY <1>3, <1>4
  <2>2. s[i + 1] = a - n + (i + 1)
    BY <1>2, <2>1
  <2>3. a - n + (i + 1) = a - (n - 1) + i
    BY <1>4
  <2> QED
    BY <2>1, <2>2, <2>3
<1>14. ASSUME NEW j \in 1..Jobs
       PROVE  /\ st[j] = "new" <=> a < j
              /\ st[j] = "queued" <=> a - (n - 1) < j /\ j <= a
  <2>1. CASE j = h
    BY <1>2, <1>4, <1>7, <1>8, <2>1
  <2>2. CASE j # h
    <3>1. st[j] = t[j] /\ (a - (n - 1) < j <=> a - n < j)
      BY <1>2, <1>4, <1>7, <1>8, <2>2
    <3> QED
      BY <1>2, <3>1
  <2> QED
    BY <2>1, <2>2
<1>15. QueueExact(r)
  <2>1. n - 1 <= a
    BY <1>2, <1>4
  <2> QED
    BY <1>3, <1>12, <1>13, <1>14, <2>1 DEF QueueExact
<1>16. r.running = q.running + 1 /\ r.queue = Tail(q.queue)
  BY <1>1
<1> HIDE DEF r
<1> QED
  BY <1>6, <1>9, <1>15, <1>16

\* process() leaves no slot free while a job waits, if at most one was free or at
\* most one job waited.
LEMMA ProcessKeeps ==
  ASSUME Jobs \in Nat, QConc \in Nat \ {0}, NEW q, QueueType(q), QueueExact(q),
         q.running >= QConc - 1 \/ Len(q.queue) <= 1
  PROVE  /\ QueueType(AQ!Process(q)) /\ QueueExact(AQ!Process(q))
         /\ QueueFull(AQ!Process(q))
<1>1. CASE q.running >= QConc \/ q.queue = <<>>
  <2>1. AQ!Process(q) = q
    BY <1>1 DEF AQ!Process
  <2>2. q.running = QConc \/ q.queue = <<>>
    BY <1>1 DEF QueueType
  <2> QED
    BY <2>1, <2>2 DEF QueueFull
<1>2. CASE ~(q.running >= QConc \/ q.queue = <<>>)
  <2>0. q.running \in Nat /\ q.queue \in Seq(1..Jobs)
    BY DEF QueueType
  <2>1. q.running < QConc /\ q.queue # <<>>
    BY <1>2, <2>0
  <2> DEFINE r == AQ!Process(q)
  <2>2. /\ QueueType(r) /\ QueueExact(r)
        /\ r.running = q.running + 1 /\ r.queue = Tail(q.queue)
    BY <2>1, ProcessTakes
  <2> HIDE DEF r
  <2>3. Tail(q.queue) \in Seq(1..Jobs) /\ Len(Tail(q.queue)) = Len(q.queue) - 1
        /\ Len(q.queue) \in Nat
    BY <2>0, <2>1, HeadTailProperties, LenProperties
  <2>4. r.running = QConc \/ Len(q.queue) <= 1
    BY <2>0, <2>1, <2>2
  <2>5. Len(q.queue) <= 1 => Tail(q.queue) = <<>>
    BY <2>0, <2>1, <2>3, EmptySeq
  <2>6. QueueFull(r)
    BY <2>2, <2>4, <2>5 DEF QueueFull
  <2> QED
    BY <2>2, <2>6 DEF r
<1> QED
  BY <1>1, <1>2

\* What process() makes of a queue with a free slot is the next queue.
LEMMA ProcessNext ==
  ASSUME Jobs \in Nat, QConc \in Nat \ {0}, NEW q, QueueType(q), QueueExact(q),
         q.running >= QConc - 1 \/ Len(q.queue) <= 1, aq' = AQ!Process(q)
  PROVE  QueueInv'
<1>1. QueueType(aq') /\ QueueExact(aq') /\ QueueFull(aq')
  BY ProcessKeeps
<1>2. QueueType(aq)' /\ QueueExact(aq)' /\ QueueFull(aq)'
  BY <1>1 DEF QueueType, QueueExact, QueueFull, Slots
<1> QED
  BY <1>2 DEF QueueInv

\* add() queues the next number, and starts it if a slot is free.
LEMMA QueueAdds ==
  ASSUME Jobs \in Nat, QConc \in Nat \ {0}, QueueInv, NEW by \in 0..Jobs, AQ!Add(by)
  PROVE  QueueInv'
<1>1. PICK s \in Seq(1..Jobs), u \in 0..QConc, a \in 0..Jobs,
           t \in [1..Jobs -> JobStates], z \in [1..Jobs -> 0..Jobs] :
        aq = [queue |-> s, running |-> u, added |-> a, st |-> t, awaits |-> z]
  BY DEF QueueInv, QueueType
<1> DEFINE n == Len(s)
           m == a + 1
           st == [t EXCEPT ![m] = "queued"]
           w == [k \in 1..Jobs |-> IF k = by THEN m ELSE z[k]]
           q == [queue |-> Append(s, m), running |-> u, added |-> m, st |-> st, awaits |-> w]
<1>2. /\ n <= a
      /\ \A i \in 1..n : s[i] = a - n + i
      /\ \A j \in 1..Jobs : t[j] = "new" <=> a < j
      /\ \A j \in 1..Jobs : t[j] = "queued" <=> a - n < j /\ j <= a
      /\ u = Cardinality(Slots(aq))
      /\ s # <<>> => u = QConc
  BY <1>1 DEF QueueInv, QueueExact, QueueFull
<1>3. /\ m <= Jobs
      /\ aq' = AQ!Process([aq EXCEPT !.added = m, !.queue = Append(s, m), !.st[m] = "queued",
                                     !.awaits = w])
  BY <1>1 DEF AQ!Add
<1>4. m \in 1..Jobs /\ a \in Nat
  BY <1>3
<1>5. aq' = AQ!Process(q)
  <2> HIDE DEF m, w
  <2>1. PICK x : x = [aq EXCEPT !.added = m, !.queue = Append(s, m), !.st[m] = "queued",
                                !.awaits = w]
    OBVIOUS
  <2>2. x = q
    BY <1>1, <2>1
  <2> QED
    BY <1>3, <2>1, <2>2
<1>6. w \in [1..Jobs -> 0..Jobs]
  BY <1>4
<1> HIDE DEF w
<1>7. /\ Append(s, m) \in Seq(1..Jobs) /\ n \in Nat /\ Len(Append(s, m)) = n + 1
      /\ \A k \in 1..n + 1 : Append(s, m)[k] = IF k = n + 1 THEN m ELSE s[k]
  <2>1. PICK y \in 1..Jobs : y = m
    BY <1>4
  <2> HIDE DEF m, q
  <2>2. n \in Nat
    BY LenProperties
  <2>3. /\ Append(s, y) \in Seq(1..Jobs) /\ Len(Append(s, y)) = n + 1
        /\ \A k \in 1..n + 1 : Append(s, y)[k] = IF k = n + 1 THEN y ELSE s[k]
    BY AppendProperties
  <2> QED
    BY <2>1, <2>2, <2>3
<1>8. n = 0 \/ u = QConc
  BY <1>2, EmptySeq
<1> HIDE DEF n
<1>9. st \in [1..Jobs -> JobStates] /\ \A j \in 1..Jobs : st[j] = IF j = m THEN "queued" ELSE t[j]
  BY <1>4 DEF JobStates
<1> HIDE DEF st
<1>10. QueueType(q)
  BY <1>4, <1>6, <1>7, <1>9 DEF QueueType
<1>11. t[m] = "new"
  BY <1>2, <1>4
<1>12. Slots(q) = Slots(aq)
  BY <1>1, <1>4, <1>9, <1>11 DEF Slots
<1>13. \A i \in 1..n + 1 : Append(s, m)[i] = m - (n + 1) + i
  <2> TAKE i \in 1..n + 1
  <2>1. i = n + 1 \/ (i \in 1..n /\ s[i] = a - n + i)
    BY <1>2, <1>7
  <2>2. Append(s, m)[i] = IF i = n + 1 THEN m ELSE s[i]
    BY <1>7
  <2> QED
    BY <1>4, <1>7, <2>1, <2>2
<1>14. ASSUME NEW j \in 1..Jobs
       PROVE  /\ st[j] = "new" <=> m < j
              /\ st[j] = "queued" <=> m - (n + 1) < j /\ j <= m
  <2>1. CASE j = m
    BY <1>4, <1>7, <1>9, <2>1
  <2>2. CASE j # m
    <3>1. st[j] = t[j] /\ (m < j <=> a < j) /\ (j <= m <=> j <= a) /\ m - (n + 1) = a - n
      BY <1>4, <1>7, <1>9, <2>2
    <3> QED
      BY <1>2, <3>1
  <2> QED
    BY <2>1, <2>2
<1>15. QueueExact(q)
  <2>1. n + 1 <= m
    BY <1>2, <1>4, <1>7
  <2> QED
    BY <1>2, <1>7, <1>12, <1>13, <1>14, <2>1 DEF QueueExact
<1>16. q.running >= QConc - 1 \/ Len(q.queue) <= 1
  BY <1>7, <1>8
<1> HIDE DEF q
<1> QED
  BY <1>5, <1>10, <1>15, <1>16, ProcessNext

\* A job that settles keeps its slot.
LEMMA QueueSettles ==
  ASSUME Jobs \in Nat, QConc \in Nat \ {0}, QueueInv, NEW j \in 1..Jobs, AQ!Settle(j)
  PROVE  QueueInv'
<1>1. PICK s \in Seq(1..Jobs), u \in 0..QConc, a \in 0..Jobs,
           t \in [1..Jobs -> JobStates], z \in [1..Jobs -> 0..Jobs] :
        aq = [queue |-> s, running |-> u, added |-> a, st |-> t, awaits |-> z]
  BY DEF QueueInv, QueueType
<1> DEFINE st == [t EXCEPT ![j] = "settled"]
<1>2. /\ aq' = [queue |-> s, running |-> u, added |-> a, st |-> st, awaits |-> z]
      /\ t[j] = "running"
  BY <1>1 DEF AQ!Settle
<1>3. st \in [1..Jobs -> JobStates] /\ \A k \in 1..Jobs : st[k] = IF k = j THEN "settled" ELSE t[k]
  BY DEF JobStates
<1> HIDE DEF st
<1>4. QueueType(aq)'
  BY <1>2, <1>3 DEF QueueType
<1>5. Slots(aq)' = Slots(aq)
  BY <1>1, <1>2, <1>3 DEF Slots
<1>6. QueueExact(aq)' /\ QueueFull(aq)'
  BY <1>1, <1>2, <1>3, <1>5 DEF QueueInv, QueueExact, QueueFull
<1> QED
  BY <1>4, <1>6 DEF QueueInv

\* A job that leaves gives its slot to the first that waits.
LEMMA QueueReleases ==
  ASSUME Jobs \in Nat, QConc \in Nat \ {0}, QueueInv, NEW j \in 1..Jobs, AQ!Release(j)
  PROVE  QueueInv'
<1>1. PICK s \in Seq(1..Jobs), u \in 0..QConc, a \in 0..Jobs,
           t \in [1..Jobs -> JobStates], z \in [1..Jobs -> 0..Jobs] :
        aq = [queue |-> s, running |-> u, added |-> a, st |-> t, awaits |-> z]
  BY DEF QueueInv, QueueType
<1> DEFINE st == [t EXCEPT ![j] = "left"]
           q == [queue |-> s, running |-> u - 1, added |-> a, st |-> st, awaits |-> z]
<1>2. aq' = AQ!Process([aq EXCEPT !.running = @ - 1, !.st[j] = "left"]) /\ t[j] = "settled"
  BY <1>1 DEF AQ!Release
<1>3. aq' = AQ!Process(q)
  <2>1. PICK x : x = [aq EXCEPT !.running = @ - 1, !.st[j] = "left"]
    OBVIOUS
  <2>2. x = q
    BY <1>1, <2>1
  <2> QED
    BY <1>2, <2>1, <2>2
<1>4. st \in [1..Jobs -> JobStates] /\ \A k \in 1..Jobs : st[k] = IF k = j THEN "left" ELSE t[k]
  BY DEF JobStates
<1> HIDE DEF st
<1>5. Slots(q) = Slots(aq) \ {j} /\ j \in Slots(aq)
  BY <1>1, <1>2, <1>4 DEF Slots
<1>6. Cardinality(Slots(aq)) = u
  BY <1>1 DEF QueueInv, QueueExact
<1>7. Cardinality(Slots(q)) = u - 1
  BY <1>5, <1>6, SlotsFinite, FS_RemoveElement
<1>8. Cardinality(Slots(q)) \in Nat
  BY SlotsFinite
<1>9. QueueType(q)
  BY <1>4, <1>7, <1>8 DEF QueueType
<1>10. QueueExact(q)
  BY <1>1, <1>2, <1>4, <1>7 DEF QueueInv, QueueExact
<1>11. q.running >= QConc - 1 \/ Len(q.queue) <= 1
  <2>1. s = <<>> \/ u = QConc
    BY <1>1 DEF QueueInv, QueueFull
  <2>2. s = <<>> => Len(s) <= 1
    BY EmptySeq
  <2> QED
    BY <2>1, <2>2
<1> HIDE DEF q
<1> QED
  BY <1>3, <1>9, <1>10, <1>11, ProcessNext

\* A new queue is empty, and every step keeps the invariant.
LEMMA QueueInvariant ==
  ASSUME Jobs \in Nat, QConc \in Nat \ {0}
  PROVE  /\ AQ!Init => QueueInv
         /\ QueueInv /\ (AQ!Next \/ UNCHANGED aq) => QueueInv'
<1>1. ASSUME AQ!Init PROVE QueueInv
  <2> DEFINE f == [j \in 1..Jobs |-> "new"]
             g == [j \in 1..Jobs |-> 0]
  <2>1. aq = [queue |-> <<>>, running |-> 0, added |-> 0, st |-> f, awaits |-> g]
    BY <1>1 DEF AQ!Init
  <2>2. /\ f \in [1..Jobs -> JobStates] /\ g \in [1..Jobs -> 0..Jobs]
        /\ \A j \in 1..Jobs : f[j] = "new"
    BY DEF JobStates
  <2> HIDE DEF f, g
  <2>3. aq.queue = <<>> /\ aq.running = 0 /\ aq.added = 0 /\ aq.st = f /\ aq.awaits = g
    BY <2>1
  <2>4. <<>> \in Seq(1..Jobs) /\ Len(<<>>) = 0
    OBVIOUS
  <2>5. QueueType(aq)
    BY <2>1, <2>2, <2>3, <2>4 DEF QueueType
  <2>6. Slots(aq) = {}
    BY <2>2, <2>3 DEF Slots
  <2>7. Cardinality(Slots(aq)) = 0
    BY <2>6, FS_EmptySet
  <2>8. QueueExact(aq)
    BY <2>2, <2>3, <2>4, <2>7 DEF QueueExact
  <2> QED
    BY <2>3, <2>5, <2>8 DEF QueueInv, QueueFull
<1>2. ASSUME QueueInv, AQ!Next PROVE QueueInv'
  BY <1>2, QueueAdds, QueueSettles, QueueReleases DEF AQ!Next
<1>3. ASSUME QueueInv, UNCHANGED aq PROVE QueueInv'
  BY <1>3 DEF QueueInv, QueueType, QueueExact, QueueFull, Slots
<1> QED
  BY <1>1, <1>2, <1>3

\* The invariant implies what the suite checks of the queue.
LEMMA QueueInvGives ==
  ASSUME Jobs \in Nat, QConc \in Nat \ {0}, QueueInv
  PROVE  AQ!WorkConserving /\ AQ!StartedInOrder
<1>1. AQ!Holders = Slots(aq)
  BY DEF AQ!Holders, Slots
<1>2. aq.running = Cardinality(Slots(aq)) /\ (aq.queue # <<>> => aq.running = QConc)
  BY DEF QueueInv, QueueExact, QueueFull
<1>3. AQ!WorkConserving
  <2>1. AQ!Cardinality(AQ!Holders) = Cardinality(AQ!Holders)
    BY DEF AQ!Cardinality, AQ!IsFiniteSet, Cardinality, IsFiniteSet
  <2> QED
    BY <1>1, <1>2, <2>1 DEF AQ!WorkConserving
<1>4. AQ!StartedInOrder
  <2> SUFFICES ASSUME NEW j \in 1..aq.added, NEW k \in 1..aq.added,
                      j < k, aq.st[j] = "queued"
               PROVE  aq.st[k] = "queued"
    BY DEF AQ!StartedInOrder
  <2>1. aq.added \in 0..Jobs /\ Len(aq.queue) \in Nat
    BY LenProperties DEF QueueInv, QueueType
  <2>2. j \in 1..Jobs /\ k \in 1..Jobs
    BY <2>1
  <2> QED
    BY <2>1, <2>2 DEF QueueInv, QueueExact
<1> QED
  BY <1>3, <1>4

-----------------------------------------------------------------------------
(* promiseAll().                                                           *)

TaskStates == {"new", "running", "ok", "failed"}

PromiseType ==
  pa \in [pc : {"loop", "race", "all", "end"}, i : 1..TaskCount + 1,
          executing : Seq(1..TaskCount), winner : 0..TaskCount, inOrder : BOOLEAN,
          st : [1..TaskCount -> TaskStates], outcome : {"pending", "ok", "failed"}]

\* The first task that is still in the list, which has those started last.
Oldest == pa.i - Len(pa.executing)

ListExact ==
  /\ Oldest >= 1 /\ Len(pa.executing) <= PConc
  /\ \A k \in 1..Len(pa.executing) : pa.executing[k] = Oldest - 1 + k
  /\ \A t \in 1..TaskCount : pa.st[t] = "new" <=> pa.i <= t

\* What the list has at each of the awaits.
ListBounded ==
  /\ pa.pc = "loop" => /\ Len(pa.executing) < PConc /\ pa.i <= TaskCount
                       /\ Oldest = 1 \/ Len(pa.executing) = PConc - 1
  /\ pa.pc = "race" => Len(pa.executing) = PConc
  /\ pa.pc = "all" => Len(pa.executing) = PConc - 1 /\ pa.i = TaskCount + 1
  /\ pa.outcome # "pending" <=> pa.pc = "end"
  /\ pa.outcome = "ok" => /\ Len(pa.executing) = PConc - 1 /\ pa.i = TaskCount + 1
                          /\ \A t \in Oldest..TaskCount : pa.st[t] = "ok"

Ended(t) == pa.st[t] \in {"ok", "failed"}

\* A race that nobody has won has no settled task in the list.
RaceExact ==
  pa.pc = "race" /\ pa.winner = 0 => \A t \in Oldest..pa.i - 1 : ~Ended(t)

\* While tasks settle in their order, those that were removed from the list have
\* succeeded, and the oldest in the list wins the race.
OrderKept ==
  pa.inOrder =>
    /\ \A t \in 1..TaskCount : t < Oldest => pa.st[t] = "ok"
    /\ \A t, u \in 1..TaskCount : t < u /\ Ended(u) => Ended(t)
    /\ pa.pc = "race" /\ pa.winner # 0 => pa.winner = Oldest

PromiseInv == PromiseType /\ ListExact /\ ListBounded /\ RaceExact /\ OrderKept

\* The elements of the list are an interval.
LEMMA ListElements ==
  ASSUME TaskCount \in Nat, PromiseType, ListExact
  PROVE  /\ Oldest \in Int /\ Len(pa.executing) \in Nat
         /\ PA!Of(pa.executing) = Oldest..pa.i - 1
<1> DEFINE s == pa.executing
<1>1. s \in Seq(1..TaskCount) /\ pa.i \in 1..TaskCount + 1
  BY DEF PromiseType
<1>2. DOMAIN s = 1..Len(s) /\ Len(s) \in Nat
  BY <1>1, LenProperties
<1>3. Oldest = pa.i - Len(s) /\ Oldest \in Int
  BY <1>1, <1>2 DEF Oldest
<1>4. \A k \in 1..Len(s) : s[k] = Oldest - 1 + k
  BY DEF ListExact
<1>5. PA!Of(s) = {s[k] : k \in 1..Len(s)}
  BY <1>2 DEF PA!Of
<1> HIDE DEF s
<1>6. ASSUME NEW t \in Oldest..pa.i - 1 PROVE \E k \in 1..Len(s) : s[k] = t
  <2>1. PICK k \in 1..Len(s) : k = t - Oldest + 1
    BY <1>1, <1>2, <1>3
  <2>2. s[k] = Oldest - 1 + k /\ Oldest - 1 + k = t
    BY <1>3, <1>4, <2>1
  <2> QED
    BY <2>2
<1>7. ASSUME NEW k \in 1..Len(s) PROVE s[k] \in Oldest..pa.i - 1
  <2>1. PICK n \in Nat : n = Len(s)
    BY <1>2
  <2>2. s[k] = Oldest - 1 + k /\ k \in 1..n /\ Oldest = pa.i - n
    BY <1>3, <1>4, <2>1
  <2> QED
    BY <1>1, <2>2
<1>8. PA!Of(s) = Oldest..pa.i - 1
  <2> DEFINE I == Oldest..pa.i - 1
  <2>1. \A t \in I : \E k \in 1..Len(s) : s[k] = t
    BY <1>6
  <2>2. \A k \in 1..Len(s) : s[k] \in I
    BY <1>7
  <2> HIDE DEF I
  <2>3. PA!Of(s) = I
    BY <1>5, <2>1, <2>2
  <2> QED
    BY <2>3 DEF I
<1> QED
  BY <1>2, <1>3, <1>8 DEF s

\* The tasks that settled.
LEMMA SettledTasks ==
  ASSUME NEW t \in 1..TaskCount
  PROVE  t \in PA!Settled <=> Ended(t)
BY DEF PA!Settled, PA!With, Ended

\* The first call of promiseAll() has an empty list.
LEMMA PromiseInit ==
  ASSUME TaskCount \in Nat, PConc \in 1..TaskCount - 1, PA!Init
  PROVE  PromiseInv
<1> DEFINE f == [t \in 1..TaskCount |-> "new"]
<1>1. /\ pa.pc = "loop" /\ pa.i = 1 /\ pa.executing = <<>> /\ pa.winner = 0
      /\ pa.inOrder /\ pa.st = f /\ pa.outcome = "pending"
  BY DEF PA!Init
<1>2. PromiseType
  BY DEF PA!Init, PromiseType, TaskStates
<1>3. Len(pa.executing) = 0 /\ Oldest = 1
  BY <1>1 DEF Oldest
<1>4. \A t \in 1..TaskCount : pa.st[t] = "new"
  BY <1>1
<1>5. ListExact
  BY <1>1, <1>3, <1>4 DEF ListExact
<1>6. ListBounded
  BY <1>1, <1>3 DEF ListBounded
<1>7. RaceExact /\ OrderKept
  BY <1>1, <1>3, <1>4 DEF RaceExact, OrderKept, Ended
<1> QED
  BY <1>2, <1>5, <1>6, <1>7 DEF PromiseInv

\* The loop starts a task, and enters the race when the list is full.
LEMMA PromiseStarts ==
  ASSUME TaskCount \in Nat, PConc \in 1..TaskCount - 1, PromiseInv, PA!Start
  PROVE  PromiseInv'
<1> DEFINE s == pa.executing
           n == Len(s)
           i == pa.i
           ex == Append(s, i)
           over == PA!Of(ex) \intersect PA!Settled
           W == IF Len(ex) < PConc \/ over = {} THEN 0
                ELSE ex[PA!Min({k \in DOMAIN ex : ex[k] \in over})]
<1>1. /\ s \in Seq(1..TaskCount) /\ i \in 1..TaskCount + 1 /\ pa.winner \in 0..TaskCount
      /\ pa.st \in [1..TaskCount -> TaskStates] /\ n \in Nat
  BY LenProperties DEF PromiseInv, PromiseType
<1>2. /\ pa.pc = "loop" /\ n < PConc /\ i <= TaskCount /\ Oldest = i - n /\ Oldest >= 1
      /\ pa.outcome = "pending" /\ (Oldest = 1 \/ n = PConc - 1)
  BY DEF PA!Start, PromiseInv, ListBounded, ListExact, Oldest, PromiseType
<1>3. pa' = [pa EXCEPT !.st[i] = "running", !.executing = ex, !.i = i + 1,
                       !.pc = IF Len(ex) < PConc THEN "loop" ELSE "race", !.winner = W]
  BY DEF PA!Start
<1>4. i \in 1..TaskCount /\ i + 1 \in 1..TaskCount + 1
  BY <1>1, <1>2
<1> HIDE DEF s, i
<1>5. /\ ex \in Seq(1..TaskCount) /\ Len(ex) = n + 1
      /\ \A k \in 1..n + 1 : ex[k] = IF k = n + 1 THEN i ELSE s[k]
  BY <1>1, <1>4, AppendProperties
<1>6. DOMAIN ex = 1..n + 1
  BY <1>1, <1>5, LenProperties
<1>7. \A k \in 1..n : s[k] = i - n - 1 + k
  BY <1>2 DEF PromiseInv, ListExact, s
<1> HIDE DEF n, ex
<1>8. \A k \in 1..n + 1 : ex[k] = i - n - 1 + k
  <2> TAKE k \in 1..n + 1
  <2>1. CASE k = n + 1
    <3>1. ex[k] = i
      BY <1>5, <2>1
    <3>2. n \in Nat /\ i \in Nat
      BY <1>1, <1>4
    <3>3. i = i - n - 1 + (n + 1)
      BY <3>2
    <3> QED
      BY <2>1, <3>1, <3>3
  <2>2. CASE k # n + 1
    <3>1. k \in 1..n
      BY <1>1, <2>2
    <3> QED
      BY <1>5, <1>7, <2>2, <3>1
  <2> QED
    BY <2>1, <2>2
<1>9. \A t \in PA!Of(ex) : t \in i - n..i /\ t \in 1..TaskCount
  <2>1. PA!Of(ex) = {ex[k] : k \in 1..n + 1}
    BY <1>6 DEF PA!Of
  <2>2. ASSUME NEW k \in 1..n + 1
        PROVE  ex[k] \in i - n..i /\ ex[k] \in 1..TaskCount
    <3>1. ex[k] = i - n - 1 + k /\ i - n >= 1
      BY <1>2, <1>8
    <3> QED
      BY <1>1, <1>4, <3>1
  <2> QED
    BY <2>1, <2>2
<1>10. /\ W \in 0..TaskCount /\ (W = 0 /\ Len(ex) = PConc => over = {})
       /\ W # 0 => \E m \in 1..n + 1 : /\ W = ex[m] /\ ex[m] \in over
                                       /\ \A k \in 1..n + 1 : ex[k] \in over => m <= k
  <2>1. CASE Len(ex) < PConc \/ over = {}
    <3>1. W = 0 /\ (Len(ex) = PConc => over = {})
      BY <1>1, <1>5, <2>1
    <3> QED
      BY <3>1
  <2>2. CASE ~(Len(ex) < PConc \/ over = {})
    <3> DEFINE K == {k \in 1..n + 1 : ex[k] \in over}
    <3>1. K # {} /\ K \in SUBSET Nat
      BY <1>1, <1>6, <2>2 DEF PA!Of
    <3>2. Min(K) \in K /\ \A k \in K : Min(K) <= k
      BY <3>1, LeastElement
    <3>3. PA!Min(K) = Min(K)
      BY DEF PA!Min, Min
    <3>4. PICK m : m = Min(K)
      OBVIOUS
    <3>5. W = ex[m]
      BY <1>6, <2>2, <3>3, <3>4
    <3>6. m \in 1..n + 1 /\ ex[m] \in over /\ \A k \in 1..n + 1 : ex[k] \in over => m <= k
      BY <3>2, <3>4
    <3>7. ex[m] \in 1..TaskCount
      BY <1>9, <3>6
    <3> HIDE DEF W, over, K
    <3> QED
      BY <3>5, <3>6, <3>7
  <2> QED
    BY <2>1, <2>2
<1>11. over = {t \in PA!Of(ex) : Ended(t)}
  BY <1>9, SettledTasks
<1> HIDE DEF W, over
<1>12. /\ pa'.pc = IF n + 1 < PConc THEN "loop" ELSE "race"
       /\ pa'.i = i + 1 /\ pa'.executing = ex /\ pa'.winner = W
       /\ pa'.inOrder = pa.inOrder /\ pa'.outcome = pa.outcome
       /\ \A t \in 1..TaskCount : pa'.st[t] = IF t = i THEN "running" ELSE pa.st[t]
  BY <1>1, <1>3, <1>4, <1>5 DEF PromiseInv, PromiseType
<1>13. PromiseType'
  <2> DEFINE p == IF Len(ex) < PConc THEN "loop" ELSE "race"
             st == [pa.st EXCEPT ![i] = "running"]
  <2>1. p \in {"loop", "race", "all", "end"} /\ st \in [1..TaskCount -> TaskStates]
    BY <1>1, <1>4 DEF TaskStates
  <2>2. pa' = [pa EXCEPT !.st = st, !.executing = ex, !.i = i + 1, !.pc = p, !.winner = W]
    BY <1>3
  <2> HIDE DEF p, st
  <2> QED
    BY <1>4, <1>5, <1>10, <2>1, <2>2 DEF PromiseInv, PromiseType
<1>14. Oldest' = Oldest /\ Oldest = i - n /\ Len(pa'.executing) = n + 1
  <2>0. Oldest' = pa'.i - Len(pa'.executing)
    BY DEF Oldest
  <2>a. pa'.i = i + 1 /\ pa'.executing = ex
    BY <1>12
  <2>b. i \in Int /\ Len(ex) \in Int
    BY <1>1, <1>4, <1>5
  <2>c. Oldest = i - n
    BY <1>2
  <2>d. Oldest' = pa'.i - Len(ex)
    BY <2>0, <2>a
  <2>1. Oldest = i - n /\ Oldest' = i + 1 - Len(ex)
    BY <2>a, <2>b, <2>c, <2>d
  <2>2. Len(pa'.executing) = n + 1
    BY <1>5, <1>12
  <2>3. Oldest' = i + 1 - (n + 1)
    BY <1>5, <2>1
  <2>4. i + 1 - (n + 1) = i - n
    BY <1>1, <1>4
  <2> QED
    BY <2>1, <2>2, <2>3, <2>4
<1>15. pa.st[i] = "new" /\ ~Ended(i)
  BY <1>4 DEF PromiseInv, ListExact, Ended, i
<1>16. \A t \in 1..TaskCount : Ended(t)' <=> Ended(t)
  BY <1>12, <1>15 DEF Ended
<1>17. ListExact'
  <2>1. \A t \in 1..TaskCount : pa'.st[t] = "new" <=> i + 1 <= t
    <3> TAKE t \in 1..TaskCount
    <3>1. pa.st[t] = "new" <=> i <= t
      BY DEF PromiseInv, ListExact, i
    <3> QED
      BY <1>4, <1>12, <3>1
  <2>2. \A k \in 1..n + 1 : ex[k] = Oldest - 1 + k
    BY <1>1, <1>8, <1>14
  <2>3. n + 1 <= PConc
    BY <1>1, <1>2
  <2> QED
    BY <1>2, <1>12, <1>14, <2>1, <2>2, <2>3 DEF ListExact
<1>18. ListBounded'
  <2>1. n + 1 < PConc => i + 1 <= TaskCount /\ Oldest = 1
    BY <1>1, <1>2
  <2>2. ~(n + 1 < PConc) => n + 1 = PConc
    BY <1>1, <1>2
  <2> QED
    BY <1>2, <1>12, <1>14, <2>1, <2>2 DEF ListBounded
<1>19. RaceExact'
  <2> SUFFICES ASSUME pa'.pc = "race", pa'.winner = 0, NEW t \in Oldest'..pa'.i - 1
               PROVE  ~Ended(t)'
    BY DEF RaceExact
  <2>1. t \in i - n..i /\ t \in 1..TaskCount
    BY <1>1, <1>2, <1>4, <1>12, <1>14
  <2>2. Len(ex) = PConc
    BY <1>1, <1>2, <1>5, <1>12
  <2>3. over = {}
    BY <1>10, <1>12, <2>2
  <2>4. t \in PA!Of(ex)
    <3>1. PICK k \in 1..n + 1 : k = t - (i - n) + 1
      BY <1>1, <1>4, <2>1
    <3>2. ex[k] = t
      <4>1. n \in Nat /\ i \in Int /\ t \in Int
        BY <1>1, <1>4, <2>1
      <4>2. i - n - 1 + k = t
        BY <3>1, <4>1
      <4>3. ex[k] = i - n - 1 + k
        BY <1>8
      <4> QED
        BY <4>2, <4>3
    <3> QED
      BY <1>6, <3>2 DEF PA!Of
  <2> QED
    BY <1>11, <1>16, <2>1, <2>3, <2>4
<1>20. OrderKept'
  <2> SUFFICES ASSUME pa.inOrder PROVE OrderKept'
    BY <1>12 DEF OrderKept
  <2>1. ASSUME NEW t \in 1..TaskCount, t < Oldest PROVE pa'.st[t] = "ok"
    <3>1. pa.st[t] = "ok" /\ t # i
      BY <1>1, <1>2, <1>4, <1>14, <2>1 DEF PromiseInv, OrderKept
    <3> QED
      BY <1>12, <3>1
  <2>2. ASSUME NEW t \in 1..TaskCount, NEW u \in 1..TaskCount, t < u, Ended(u)'
        PROVE  Ended(t)'
    BY <1>16, <2>2 DEF PromiseInv, OrderKept
  <2>3. ASSUME W # 0 PROVE W = Oldest
    <3>1. PICK m \in 1..n + 1 : /\ W = ex[m] /\ ex[m] \in over
                                /\ \A k \in 1..n + 1 : ex[k] \in over => m <= k
      BY <1>10, <2>3
    <3>2. Ended(ex[m]) /\ ex[m] \in 1..TaskCount /\ ex[m] \in i - n..i
      BY <1>9, <1>11, <3>1
    <3>3. i - n \in 1..TaskCount
      BY <1>1, <1>2, <1>4
    <3>4. Ended(i - n)
      <4>1. ex[m] = i - n \/ i - n < ex[m]
        BY <3>2, <3>3
      <4> QED
        BY <3>2, <3>3, <4>1 DEF PromiseInv, OrderKept
    <3>5. 1 \in 1..n + 1 /\ ex[1] = i - n
      <4>1. n \in Nat /\ i \in Int
        BY <1>1, <1>4
      <4>2. 1 \in 1..n + 1 /\ i - n - 1 + 1 = i - n
        BY <4>1
      <4>3. ex[1] = i - n - 1 + 1
        BY <1>8, <4>2
      <4> QED
        BY <4>2, <4>3
    <3>6. ex[1] \in over
      <4>1. ex[1] \in PA!Of(ex)
        BY <1>6, <3>5 DEF PA!Of
      <4> QED
        BY <1>11, <3>4, <3>5, <4>1
    <3>7. m = 1
      BY <1>1, <3>1, <3>5, <3>6
    <3> QED
      BY <1>14, <3>1, <3>5, <3>7
  <2> QED
    BY <1>12, <1>14, <2>1, <2>2, <2>3 DEF OrderKept
<1> QED
  BY <1>13, <1>17, <1>18, <1>19, <1>20 DEF PromiseInv

\* A task settles.
LEMMA PromiseSettles ==
  ASSUME TaskCount \in Nat, PConc \in 1..TaskCount - 1, PromiseInv,
         NEW t \in 1..TaskCount, NEW ok \in BOOLEAN, PA!Settle(t, ok)
  PROVE  PromiseInv'
<1> DEFINE how == IF ok THEN "ok" ELSE "failed"
           W == IF pa.pc = "race" /\ pa.winner = 0 /\ t \in PA!Of(pa.executing)
                THEN t ELSE pa.winner
           least == t = PA!Min(PA!With("running"))
<1>1. /\ pa.st[t] = "running" /\ pa.pc # "loop"
      /\ pa' = [pa EXCEPT !.st[t] = how, !.winner = W, !.inOrder = pa.inOrder /\ least]
  BY DEF PA!Settle
<1>2. /\ pa.pc \in {"loop", "race", "all", "end"} /\ pa.i \in 1..TaskCount + 1
      /\ pa.executing \in Seq(1..TaskCount) /\ pa.winner \in 0..TaskCount
      /\ pa.st \in [1..TaskCount -> TaskStates] /\ how \in {"ok", "failed"}
  BY DEF PromiseInv, PromiseType
<1>3. least => \A u \in 1..TaskCount : pa.st[u] = "running" => t <= u
  <2> SUFFICES ASSUME least, NEW u \in 1..TaskCount, pa.st[u] = "running" PROVE t <= u
    OBVIOUS
  <2> DEFINE R == PA!With("running")
  <2>1. R \in SUBSET Nat /\ t \in R /\ u \in R
    BY <1>1 DEF PA!With
  <2> HIDE DEF R
  <2>2. \A x \in R : Min(R) <= x
    BY <2>1, LeastElement
  <2>3. PA!Min(R) = Min(R)
    BY DEF PA!Min, Min
  <2> QED
    BY <2>1, <2>2, <2>3 DEF R
<1>4. W \in 0..TaskCount
  BY <1>2
<1> HIDE DEF how, W, least
<1>5. /\ pa'.pc = pa.pc /\ pa'.i = pa.i /\ pa'.executing = pa.executing /\ pa'.winner = W
      /\ pa'.outcome = pa.outcome
      /\ \A u \in 1..TaskCount : pa'.st[u] = IF u = t THEN how ELSE pa.st[u]
  BY <1>1, <1>2 DEF PromiseInv, PromiseType
<1>6. pa'.inOrder => pa.inOrder /\ least
  BY <1>1 DEF PromiseInv, PromiseType
<1>7. PromiseType'
  <2> DEFINE st == [pa.st EXCEPT ![t] = how]
  <2>1. st \in [1..TaskCount -> TaskStates]
    BY <1>2 DEF TaskStates
  <2>2. PICK b \in BOOLEAN : b <=> pa.inOrder /\ least
    OBVIOUS
  <2>3. pa' = [pa EXCEPT !.st = st, !.winner = W, !.inOrder = pa.inOrder /\ least]
    BY <1>1
  <2> HIDE DEF st
  <2> QED
    BY <1>4, <2>1, <2>3 DEF PromiseInv, PromiseType
<1>8. Oldest' = Oldest
  BY <1>5 DEF Oldest
<1>9. \A u \in 1..TaskCount : Ended(u)' <=> Ended(u) \/ u = t
  BY <1>2, <1>5 DEF Ended
<1>10. /\ Oldest \in Int /\ Len(pa.executing) \in Nat
       /\ PA!Of(pa.executing) = Oldest..pa.i - 1
  BY ListElements DEF PromiseInv
<1>11. t < pa.i
  BY <1>1, <1>2 DEF PromiseInv, ListExact
<1>12. ListExact'
  BY <1>1, <1>2, <1>5, <1>8 DEF PromiseInv, ListExact
<1>13. ListBounded'
  BY <1>1, <1>5, <1>8 DEF PromiseInv, ListBounded
<1>14. RaceExact'
  <2> SUFFICES ASSUME pa.pc = "race", W = 0, NEW u \in Oldest..pa.i - 1
               PROVE  ~Ended(u)'
    BY <1>5, <1>8 DEF RaceExact
  <2>1. pa.winner = 0 /\ t \notin PA!Of(pa.executing)
    BY DEF W
  <2>2. ~Ended(u) /\ u # t
    BY <1>10, <2>1 DEF PromiseInv, RaceExact
  <2>3. u \in 1..TaskCount
    BY <1>2, <1>10 DEF PromiseInv, ListExact
  <2> QED
    BY <1>9, <2>2, <2>3
<1>15. OrderKept'
  <2> SUFFICES ASSUME pa.inOrder, least PROVE OrderKept'
    BY <1>6 DEF OrderKept
  <2>1. ASSUME NEW u \in 1..TaskCount, u < Oldest PROVE pa'.st[u] = "ok"
    BY <1>1, <1>5, <2>1 DEF PromiseInv, OrderKept
  <2>2. ASSUME NEW u \in 1..TaskCount, NEW v \in 1..TaskCount, u < v, Ended(v)'
        PROVE  Ended(u)'
    <3>1. CASE Ended(v)
      BY <1>9, <2>2, <3>1 DEF PromiseInv, OrderKept
    <3>2. CASE v = t
      <4>1. pa.st[u] # "running"
        BY <1>3, <2>2, <3>2
      <4>2. pa.st[u] # "new"
        BY <1>2, <1>11, <2>2, <3>2 DEF PromiseInv, ListExact
      <4>3. Ended(u)
        BY <1>2, <4>1, <4>2 DEF Ended, TaskStates
      <4> QED
        BY <1>9, <4>3
    <3> QED
      BY <1>9, <2>2, <3>1, <3>2
  <2>3. ASSUME pa.pc = "race", W # 0 PROVE W = Oldest
    <3>1. CASE pa.winner # 0
      BY <2>3, <3>1 DEF W, PromiseInv, OrderKept
    <3>2. CASE pa.winner = 0
      <4>1. t \in PA!Of(pa.executing) /\ W = t
        BY <2>3, <3>2 DEF W
      <4>2. Oldest \in Oldest..pa.i - 1 /\ Oldest \in 1..TaskCount
        BY <1>2, <1>10, <4>1 DEF PromiseInv, ListExact
      <4>3. ~Ended(Oldest)
        BY <2>3, <3>2, <4>2 DEF PromiseInv, RaceExact
      <4>4. pa.st[Oldest] # "new"
        BY <1>2, <1>10, <4>2 DEF PromiseInv, ListExact
      <4>5. pa.st[Oldest] = "running"
        BY <1>2, <4>2, <4>3, <4>4 DEF Ended, TaskStates
      <4> QED
        BY <1>3, <1>10, <4>1, <4>2, <4>5
    <3> QED
      BY <3>1, <3>2
  <2> QED
    BY <1>5, <1>8, <2>1, <2>2, <2>3 DEF OrderKept
<1> QED
  BY <1>7, <1>12, <1>13, <1>14, <1>15 DEF PromiseInv

\* When the race is won the oldest task leaves the list.
LEMMA PromiseGoesOn ==
  ASSUME TaskCount \in Nat, PConc \in 1..TaskCount - 1, PromiseInv, PA!RaceWon
  PROVE  PromiseInv'
<1> DEFINE s == pa.executing
           n == Len(s)
<1>1. /\ pa.pc = "race" /\ pa.winner # 0 /\ pa.st[pa.winner] = "ok"
      /\ pa' = [pa EXCEPT !.executing = Tail(s), !.pc = PA!After]
  BY DEF PA!RaceWon, PA!Won
<1>2. /\ s \in Seq(1..TaskCount) /\ pa.i \in 1..TaskCount + 1 /\ n \in Nat
      /\ pa.st \in [1..TaskCount -> TaskStates] /\ n = PConc /\ Oldest = pa.i - n
      /\ Oldest >= 1 /\ pa.outcome = "pending"
  BY <1>1, LenProperties DEF PromiseInv, PromiseType, ListBounded, ListExact, Oldest
<1>3. s # <<>>
  BY <1>2, EmptySeq
<1> HIDE DEF s
<1>4. /\ Tail(s) \in Seq(1..TaskCount) /\ Len(Tail(s)) = n - 1
      /\ \A k \in 1..n - 1 : Tail(s)[k] = s[k + 1]
  BY <1>2, <1>3, HeadTailProperties
<1>5. PA!After \in {"all", "loop"} /\ (PA!After = "all" <=> pa.i = TaskCount + 1)
  BY <1>2 DEF PA!After
<1>6. /\ pa'.pc = PA!After /\ pa'.i = pa.i /\ pa'.executing = Tail(s)
      /\ pa'.winner = pa.winner /\ pa'.inOrder = pa.inOrder /\ pa'.st = pa.st
      /\ pa'.outcome = pa.outcome
  BY <1>1 DEF PromiseInv, PromiseType
<1>7. PromiseType'
  BY <1>1, <1>4, <1>5 DEF PromiseInv, PromiseType
<1>8. \A k \in 1..n : s[k] = Oldest - 1 + k
  BY DEF PromiseInv, ListExact, s
<1> HIDE DEF n
<1>9. Oldest' = Oldest + 1
  <2>1. Oldest' = pa.i - Len(Tail(s))
    BY <1>6 DEF Oldest
  <2>2. Oldest' = pa.i - (n - 1)
    BY <1>4, <2>1
  <2>3. n \in Int /\ pa.i \in Int
    BY <1>2
  <2>4. pa.i - (n - 1) = pa.i - n + 1
    BY <2>3
  <2>5. Oldest = pa.i - n
    BY <1>2
  <2> QED
    BY <2>2, <2>4, <2>5
<1>10. \A k \in 1..n - 1 : Tail(s)[k] = Oldest' - 1 + k
  <2> TAKE k \in 1..n - 1
  <2>1. k + 1 \in 1..n /\ k \in Int
    BY <1>2
  <2>2. Tail(s)[k] = Oldest - 1 + (k + 1)
    BY <1>4, <1>8, <2>1
  <2>3. Oldest \in Int
    BY <1>2
  <2>4. Oldest - 1 + (k + 1) = Oldest + 1 - 1 + k
    BY <2>1, <2>3
  <2>5. PICK o \in Int : o = Oldest
    BY <2>3
  <2>6. PICK p \in Int : p = Oldest'
    BY <1>9, <2>3
  <2>7. p = o + 1
    BY <1>9, <2>5, <2>6
  <2>8. Tail(s)[k] = o - 1 + (k + 1)
    BY <2>2, <2>5
  <2>9. o - 1 + (k + 1) = p - 1 + k
    BY <2>1, <2>7
  <2> QED
    BY <2>6, <2>8, <2>9
<1>11. ListExact'
  <2>1. Oldest' >= 1 /\ n - 1 <= PConc
    BY <1>2, <1>9
  <2>2. \A t \in 1..TaskCount : pa.st[t] = "new" <=> pa.i <= t
    BY DEF PromiseInv, ListExact
  <2> QED
    BY <1>4, <1>6, <1>10, <2>1, <2>2 DEF ListExact
<1>12. ListBounded'
  <2>0. PA!After = "loop" => pa.i <= TaskCount
    <3>1. PA!After = "loop" => pa.i # TaskCount + 1
      BY <1>5
    <3>2. pa.i \in 1..TaskCount + 1
      BY <1>2
    <3> QED
      BY <3>1, <3>2
  <2>1. n - 1 < PConc /\ n - 1 = PConc - 1 /\ (PA!After = "loop" => pa.i <= TaskCount)
    BY <1>2, <2>0
  <2> QED
    BY <1>2, <1>4, <1>5, <1>6, <2>1 DEF ListBounded
<1>13. RaceExact'
  BY <1>5, <1>6 DEF RaceExact
<1>14. OrderKept'
  <2> SUFFICES ASSUME pa.inOrder PROVE OrderKept'
    BY <1>6 DEF OrderKept
  <2>1. pa.st[Oldest] = "ok"
    BY <1>1 DEF PromiseInv, OrderKept
  <2>2. ASSUME NEW t \in 1..TaskCount, t < Oldest + 1 PROVE pa.st[t] = "ok"
    <3>1. t = Oldest \/ t < Oldest
      BY <1>2, <2>2
    <3> QED
      BY <2>1, <3>1 DEF PromiseInv, OrderKept
  <2> QED
    BY <1>5, <1>6, <1>9, <2>2 DEF PromiseInv, OrderKept, Ended
<1> QED
  BY <1>7, <1>11, <1>12, <1>13, <1>14 DEF PromiseInv

\* The call ends, with the first failure it notices or when all that is in the
\* list has succeeded.
LEMMA PromiseEnds ==
  ASSUME TaskCount \in Nat, PConc \in 1..TaskCount - 1, PromiseInv,
         PA!Lost \/ PA!Resolve
  PROVE  PromiseInv'
<1>1. PICK how \in {"ok", "failed"} :
        /\ pa' = [pa EXCEPT !.pc = "end", !.outcome = how]
        /\ how = "ok" => pa.pc = "all" /\ \A t \in PA!Of(pa.executing) : pa.st[t] = "ok"
  BY DEF PA!Lost, PA!Resolve
<1>2. /\ pa'.pc = "end" /\ pa'.i = pa.i /\ pa'.executing = pa.executing
      /\ pa'.winner = pa.winner /\ pa'.inOrder = pa.inOrder /\ pa'.st = pa.st
      /\ pa'.outcome = how
  BY <1>1 DEF PromiseInv, PromiseType
<1>3. PromiseType'
  BY <1>1 DEF PromiseInv, PromiseType
<1>4. Oldest' = Oldest /\ PA!Of(pa.executing) = Oldest..pa.i - 1 /\ Oldest \in Int
  BY <1>2, ListElements DEF PromiseInv, Oldest
<1>5. ListExact'
  BY <1>2, <1>4 DEF PromiseInv, ListExact
<1>6. ListBounded'
  <2>1. how = "ok" => /\ Len(pa.executing) = PConc - 1 /\ pa.i = TaskCount + 1
                      /\ \A t \in Oldest..TaskCount : pa.st[t] = "ok"
    BY <1>1, <1>4 DEF PromiseInv, ListBounded
  <2> QED
    BY <1>2, <1>4, <2>1 DEF ListBounded
<1>7. RaceExact' /\ OrderKept'
  BY <1>2, <1>4 DEF PromiseInv, RaceExact, OrderKept, Ended
<1> QED
  BY <1>3, <1>5, <1>6, <1>7 DEF PromiseInv

\* Every step keeps the invariant.
LEMMA PromiseInvariant ==
  ASSUME TaskCount \in Nat, PConc \in 1..TaskCount - 1
  PROVE  /\ PA!Init => PromiseInv
         /\ PromiseInv /\ (PA!Next \/ UNCHANGED pa) => PromiseInv'
<1>1. ASSUME PromiseInv, PA!Next PROVE PromiseInv'
  BY <1>1, PromiseStarts, PromiseSettles, PromiseGoesOn, PromiseEnds DEF PA!Next
<1>2. ASSUME PromiseInv, UNCHANGED pa PROVE PromiseInv'
  BY <1>2 DEF PromiseInv, PromiseType, ListExact, ListBounded, RaceExact, OrderKept,
              Ended, Oldest
<1> QED
  BY <1>1, <1>2, PromiseInit

\* The invariant implies what the suite checks of promiseAll().
LEMMA PromiseInvGives ==
  ASSUME TaskCount \in Nat, PConc \in 1..TaskCount - 1, PromiseInv
  PROVE  PA!LimitInOrder /\ PA!CompleteInOrder /\ PA!LastAreAwaited
<1>1. /\ pa.i \in 1..TaskCount + 1 /\ pa.st \in [1..TaskCount -> TaskStates]
      /\ Len(pa.executing) \in Nat /\ Len(pa.executing) <= PConc
      /\ Oldest = pa.i - Len(pa.executing) /\ Oldest >= 1
  BY LenProperties DEF PromiseInv, PromiseType, ListExact, Oldest
<1>2. PA!LimitInOrder
  <2> SUFFICES ASSUME pa.inOrder PROVE PA!Cardinality(PA!With("running")) <= PConc
    BY DEF PA!LimitInOrder
  <2> DEFINE I == Oldest..pa.i - 1
             R == PA!With("running")
  <2>1. PA!Cardinality(R) = Cardinality(R)
    BY DEF PA!Cardinality, PA!IsFiniteSet, Cardinality, IsFiniteSet
  <2>2. R \in SUBSET I
    <3> SUFFICES ASSUME NEW t \in 1..TaskCount, pa.st[t] = "running" PROVE t \in I
      BY DEF PA!With
    <3>1. pa.st[t] # "new" /\ ~(t < Oldest)
      BY DEF PromiseInv, OrderKept
    <3>2. ~(pa.i <= t)
      BY <3>1 DEF PromiseInv, ListExact
    <3> QED
      <4>1. pa.i \in Int /\ Oldest \in Int /\ t \in Int
        BY <1>1
      <4> QED
        BY <3>1, <3>2, <4>1
  <2> HIDE DEF R
  <2>3. IsFiniteSet(I) /\ Cardinality(I) <= PConc /\ Cardinality(I) \in Nat
    <3>0. Oldest \in Int /\ pa.i - 1 \in Int
      BY <1>1
    <3>1. IsFiniteSet(I) /\ Cardinality(I) = IF Oldest > pa.i - 1 THEN 0 ELSE pa.i - 1 - Oldest + 1
      BY <3>0, FS_Interval
    <3> QED
      BY <1>1, <3>1
  <2> HIDE DEF I
  <2>4. Cardinality(R) <= Cardinality(I) /\ Cardinality(R) \in Nat
    BY <2>2, <2>3, FS_Subset, FS_CardinalityType
  <2> QED
    BY <2>1, <2>3, <2>4 DEF R
<1>3. PA!CompleteInOrder
  <2> SUFFICES ASSUME pa.outcome = "ok", pa.inOrder, NEW t \in 1..TaskCount
               PROVE  pa.st[t] = "ok"
    BY DEF PA!CompleteInOrder, PA!With
  <2>1. t < Oldest \/ t \in Oldest..TaskCount
    BY <1>1
  <2> QED
    BY <2>1 DEF PromiseInv, OrderKept, ListBounded
<1>4. PA!LastAreAwaited
  <2> SUFFICES ASSUME pa.outcome = "ok", NEW t \in TaskCount - PConc + 2..TaskCount
               PROVE  pa.st[t] = "ok"
    BY DEF PA!LastAreAwaited
  <2>1. Oldest = TaskCount - PConc + 2
    BY <1>1 DEF PromiseInv, ListBounded
  <2> QED
    BY <2>1 DEF PromiseInv, ListBounded
<1> QED
  BY <1>2, <1>3, <1>4

-----------------------------------------------------------------------------
(* batchProcess() and its Semaphore.                                       *)

BatchStates == {"new", "waiting", "granted", "running", "ok", "failed"}
Outcomes == {"pending", "ok", "failed"}

\* The fields of a process r have their types.
ProcessType(r) ==
  r \in [conc : 1..MaxPermits, permits : Nat, wait : Seq(1..Batches), processed : Nat,
         st : [1..Batches -> BatchStates], outcome : Outcomes]

\* The batches whose state in t is one of Q.
InStates(t, Q) == {b \in 1..Batches : t[b] \in Q}
UsesPermit == {"granted", "running"}

\* The batches that wait, each once.
WaitExact(w, t) ==
  /\ \A i \in 1..Len(w) : t[w[i]] = "waiting"
  /\ \A i, j \in 1..Len(w) : i # j => w[i] # w[j]

\* Of c permits, p are free, the others are used as t says, and w waits.
PermitsExact(c, p, w, t) ==
  c > 1 => /\ p + Cardinality(InStates(t, UsesPermit)) = c
           /\ w # <<>> => p = 0
           /\ WaitExact(w, t)

\* The loop has come to the first batch that is not ok.
LoopExact(c, t) ==
  c = 1 => \A b, d \in 1..Batches : b < d /\ t[b] # "ok" => t[d] = "new"

\* What the caller is told, and what was reported.
OutcomeExact(o, n, t) ==
  /\ n = Cardinality(InStates(t, {"ok"}))
  /\ o = "ok" => \A b \in 1..Batches : t[b] = "ok"
  /\ o = "failed" => \E b \in 1..Batches : t[b] = "failed"

ProcessExact(r) ==
  /\ ProcessType(r) /\ PermitsExact(r.conc, r.permits, r.wait, r.st)
  /\ LoopExact(r.conc, r.st) /\ OutcomeExact(r.outcome, r.processed, r.st)

\* How the number of batches whose state is one of Q changes from t to u, in which the
\* state of batch b is v.
Recounted(t, b, v, u, Q) ==
  \E m, n \in Nat :
    /\ m = Cardinality(InStates(t, Q)) /\ n = Cardinality(InStates(u, Q))
    /\ t[b] \notin Q /\ v \in Q => n = m + 1
    /\ t[b] \in Q /\ v \notin Q => n + 1 = m
    /\ (t[b] \in Q <=> v \in Q) => n = m

\* Batch b changes its state to v.
LEMMA StateMoves ==
  ASSUME Batches \in Nat, NEW t \in [1..Batches -> BatchStates], NEW b \in 1..Batches, NEW v,
         NEW Q, NEW u, u = [t EXCEPT ![b] = v]
  PROVE  Recounted(t, b, v, u, Q)
<1> DEFINE A == InStates(t, Q)
           B == InStates(u, Q)
<1>1. IsFiniteSet(1..Batches)
  BY FS_Interval
<1>2. A \in SUBSET (1..Batches) /\ B \in SUBSET (1..Batches)
  BY DEF InStates
<1>3. /\ IsFiniteSet(A) /\ Cardinality(A) \in Nat
      /\ IsFiniteSet(B) /\ Cardinality(B) \in Nat
  BY <1>1, <1>2, FS_Subset, FS_CardinalityType
<1>4. \A c \in 1..Batches : u[c] = IF c = b THEN v ELSE t[c]
  OBVIOUS
<1>5. PICK m \in Nat, n \in Nat : m = Cardinality(A) /\ n = Cardinality(B)
  BY <1>3
<1>6. ASSUME t[b] \notin Q, v \in Q PROVE n = m + 1
  <2>1. B = A \cup {b} /\ b \notin A
    BY <1>4, <1>6 DEF InStates
  <2> QED
    BY <1>3, <1>5, <2>1, FS_AddElement
<1>7. ASSUME t[b] \in Q, v \notin Q PROVE n + 1 = m
  <2>1. B = A \ {b} /\ b \in A
    BY <1>4, <1>7 DEF InStates
  <2>2. n = m - 1
    BY <1>3, <1>5, <2>1, FS_RemoveElement
  <2> QED
    BY <2>2
<1>8. ASSUME t[b] \in Q <=> v \in Q PROVE n = m
  <2>1. B = A
    BY <1>4, <1>8 DEF InStates
  <2> QED
    BY <1>5, <2>1
<1> QED
  BY <1>5, <1>6, <1>7, <1>8 DEF Recounted

\* The states of the batches are one field of the process.
LEMMA StatesReplaced ==
  ASSUME NEW c, NEW p, NEW w, NEW n, NEW t, NEW o, NEW u
  PROVE  [[conc |-> c, permits |-> p, wait |-> w, processed |-> n, st |-> t, outcome |-> o]
            EXCEPT !.st = u]
         = [conc |-> c, permits |-> p, wait |-> w, processed |-> n, st |-> u, outcome |-> o]
OBVIOUS

\* The process v is r with a permit returned.
Freed(r, v) ==
  /\ ProcessType(v) /\ v.conc = r.conc /\ v.processed = r.processed /\ v.outcome = r.outcome
  /\ PermitsExact(v.conc, v.permits, v.wait, v.st)
  /\ \A b \in 1..Batches :
       v.st[b] = r.st[b] \/ (r.st[b] = "waiting" /\ v.st[b] = "granted" /\ r.conc > 1)

\* release() gives the permit that a batch has returned to one that waits.
LEMMA ReleaseFrees ==
  ASSUME Batches \in Nat, NEW r, ProcessType(r),
         r.conc > 1 => /\ r.permits + Cardinality(InStates(r.st, UsesPermit)) + 1 = r.conc
                       /\ r.wait # <<>> => r.permits = 0
                       /\ WaitExact(r.wait, r.st)
  PROVE  Freed(r, BA!Release(r))
<1>1. PICK c \in 1..MaxPermits, p \in Nat, w \in Seq(1..Batches), n \in Nat,
           t \in [1..Batches -> BatchStates], o \in Outcomes :
        r = [conc |-> c, permits |-> p, wait |-> w, processed |-> n, st |-> t, outcome |-> o]
  BY DEF ProcessType
<1>2. c \in Int
  OBVIOUS
<1>3. CASE c = 1
  <2>1. BA!Release(r) = r
    BY <1>1, <1>3 DEF BA!Release
  <2>2. PermitsExact(c, p, w, t)
    BY <1>3 DEF PermitsExact
  <2> QED
    BY <1>1, <2>1, <2>2 DEF Freed
<1>4. CASE c > 1 /\ w = <<>>
  <2>1. PICK q \in Nat : q = p + 1
    OBVIOUS
  <2>2. PICK v : v = [conc |-> c, permits |-> q, wait |-> w, processed |-> n, st |-> t, outcome |-> o]
    OBVIOUS
  <2>3. BA!Release(r) = v
    BY <1>1, <1>4, <2>1, <2>2 DEF BA!Release
  <2>4. PICK x \in Nat : x = Cardinality(InStates(t, UsesPermit))
    <3>1. IsFiniteSet(1..Batches)
      BY FS_Interval
    <3>2. InStates(t, UsesPermit) \in SUBSET (1..Batches)
      BY DEF InStates
    <3> QED
      BY <3>1, <3>2, FS_Subset, FS_CardinalityType
  <2>5. p + x + 1 = c /\ WaitExact(w, t)
    BY <1>1, <1>4, <2>4
  <2>6. PermitsExact(c, q, w, t)
    BY <1>4, <2>1, <2>4, <2>5 DEF PermitsExact
  <2>7. ProcessType(v)
    BY <2>2 DEF ProcessType
  <2> QED
    BY <1>1, <2>2, <2>3, <2>6, <2>7 DEF Freed
<1>5. CASE c > 1 /\ w # <<>>
  <2>1. PICK h \in 1..Batches, y \in Seq(1..Batches), k \in Nat :
          IsTail(1..Batches, w, h, y, k)
    BY <1>5, TailOfSeq
  <2>2. /\ h = Head(w) /\ h = w[1] /\ y = Tail(w) /\ Len(y) = k /\ 1 \in 1..Len(w)
        /\ \A i \in 1..k : y[i] = w[i + 1] /\ w[i + 1] \in 1..Batches
                           /\ i + 1 \in 1..Len(w) /\ i + 1 > 1
    BY <2>1 DEF IsTail
  <2>5. PICK u : u = [t EXCEPT ![h] = "granted"]
    OBVIOUS
  <2>6. u \in [1..Batches -> BatchStates] /\ \A b \in 1..Batches : u[b] = IF b = h THEN "granted" ELSE t[b]
    BY <2>5 DEF BatchStates
  <2>7. PICK v : v = [conc |-> c, permits |-> p, wait |-> y, processed |-> n, st |-> u, outcome |-> o]
    OBVIOUS
  <2>8. BA!Release(r) = v
    <3>1. PICK f : f = [r EXCEPT !.wait = Tail(r.wait)]
      OBVIOUS
    <3>2. f = [conc |-> c, permits |-> p, wait |-> y, processed |-> n, st |-> t, outcome |-> o]
      BY <1>1, <2>2, <3>1
    <3>a. [f EXCEPT !.st = u] = v
      BY <2>7, <3>2, StatesReplaced
    <3>b. f.st = t
      BY <3>2
    <3>3. [f EXCEPT !.st[h] = "granted"] = v
      BY <2>5, <3>a, <3>b
    <3>4. r.wait = w /\ r.conc = c
      BY <1>1
    <3> QED
      BY <1>5, <2>2, <3>1, <3>3, <3>4 DEF BA!Release
  <2>9. p = 0 /\ WaitExact(w, t) /\ p + Cardinality(InStates(t, UsesPermit)) + 1 = c
    BY <1>1, <1>5
  <2>10. t[h] = "waiting"
    BY <2>2, <2>9 DEF WaitExact
  <2>11. Recounted(t, h, "granted", u, UsesPermit)
    BY <2>5, StateMoves
  <2>12. p + Cardinality(InStates(u, UsesPermit)) = c
    BY <1>2, <2>9, <2>10, <2>11 DEF Recounted, UsesPermit
  <2>13. ASSUME NEW i \in 1..k PROVE u[y[i]] = "waiting"
    <3>1. i + 1 # 1
      BY <2>2
    <3>2. w[i + 1] # w[1] /\ t[w[i + 1]] = "waiting"
      BY <2>2, <2>9, <3>1 DEF WaitExact
    <3> QED
      BY <2>2, <2>6, <3>2
  <2>14. ASSUME NEW i \in 1..k, NEW j \in 1..k, i # j PROVE y[i] # y[j]
    <3>1. i + 1 # j + 1
      BY <2>14
    <3>2. y[i] = w[i + 1] /\ i + 1 \in 1..Len(w)
      BY <2>2
    <3>3. y[j] = w[j + 1] /\ j + 1 \in 1..Len(w)
      BY <2>2
    <3>4. w[i + 1] # w[j + 1]
      BY <2>9, <3>1, <3>2, <3>3 DEF WaitExact
    <3> QED
      BY <3>2, <3>3, <3>4
  <2>16. WaitExact(y, u)
    BY <2>2, <2>13, <2>14 DEF WaitExact
  <2>17. PermitsExact(c, p, y, u)
    BY <2>9, <2>12, <2>16 DEF PermitsExact
  <2>18. ProcessType(v)
    BY <2>6, <2>7 DEF ProcessType
  <2> QED
    BY <1>1, <1>5, <2>6, <2>7, <2>8, <2>10, <2>17, <2>18 DEF Freed
<1> QED
  BY <1>2, <1>3, <1>4, <1>5

\* A process that is called is exact.
LEMMA ProcessStarts ==
  ASSUME BA!BatchesAssumption, BA!AllInit
  PROVE  ProcessExact(bp)
<1>1. Batches \in Nat /\ MaxPermits \in Nat \ {0}
  BY DEF BA!BatchesAssumption
<1>2. PICK c \in 1..MaxPermits :
        bp = [conc |-> c, permits |-> c, wait |-> <<>>, processed |-> 0,
              st |-> [b \in 1..Batches |-> "new"], outcome |-> "pending"]
  BY DEF BA!AllInit
<1>3. PICK t : t = [b \in 1..Batches |-> "new"]
  OBVIOUS
<1>4. t \in [1..Batches -> BatchStates] /\ \A b \in 1..Batches : t[b] = "new"
  BY <1>3 DEF BatchStates
<1>5. PICK w \in Seq(1..Batches) : w = <<>> /\ Len(w) = 0
  BY EmptySeq
<1>6. bp = [conc |-> c, permits |-> c, wait |-> w, processed |-> 0, st |-> t, outcome |-> "pending"]
  BY <1>2, <1>3, <1>5
<1>7. c \in Nat /\ 0 \in Nat
  BY <1>1
<1>8. ProcessType(bp)
  BY <1>4, <1>6, <1>7 DEF ProcessType, Outcomes
<1>9. InStates(t, UsesPermit) = {} /\ InStates(t, {"ok"}) = {}
  BY <1>4 DEF InStates, UsesPermit
<1>10. PermitsExact(c, c, w, t)
  BY <1>5, <1>7, <1>9, FS_EmptySet DEF PermitsExact, WaitExact
<1>11. OutcomeExact("pending", 0, t)
  BY <1>9, FS_EmptySet DEF OutcomeExact
<1>12. LoopExact(c, t)
  BY <1>4 DEF LoopExact
<1> QED
  BY <1>6, <1>8, <1>10, <1>11, <1>12 DEF ProcessExact

\* The fields of an exact process, and the names of its parts.
PartsOf(r, c, p, w, n, t, o) ==
  /\ c \in 1..MaxPermits /\ p \in Nat /\ w \in Seq(1..Batches) /\ n \in Nat
  /\ t \in [1..Batches -> BatchStates] /\ o \in Outcomes
  /\ r = [conc |-> c, permits |-> p, wait |-> w, processed |-> n, st |-> t, outcome |-> o]

\* A process is exact if its parts are.
LEMMA PartsExact ==
  ASSUME NEW c, NEW p, NEW w, NEW n, NEW t, NEW o, NEW r, PartsOf(r, c, p, w, n, t, o)
  PROVE  /\ ProcessType(r) /\ r.conc = c /\ r.permits = p /\ r.wait = w /\ r.processed = n
         /\ r.st = t /\ r.outcome = o
         /\ ProcessExact(r) <=> PermitsExact(c, p, w, t) /\ LoopExact(c, t) /\ OutcomeExact(o, n, t)
<1>1. ProcessType(r)
  BY DEF PartsOf, ProcessType
<1>2. /\ r.conc = c /\ r.permits = p /\ r.wait = w /\ r.processed = n
      /\ r.st = t /\ r.outcome = o
  BY DEF PartsOf
<1> QED
  BY <1>1, <1>2 DEF ProcessExact

\* A batch of the loop begins.
LEMMA TurnKeeps ==
  ASSUME BA!BatchesAssumption, ProcessExact(bp), NEW b \in 1..Batches, BA!Turn(b)
  PROVE  ProcessExact(bp')
<1>1. Batches \in Nat
  BY DEF BA!BatchesAssumption
<1>2. PICK c, p, w, n, t, o : PartsOf(bp, c, p, w, n, t, o)
  BY DEF ProcessExact, ProcessType, PartsOf
<1>3. /\ PermitsExact(c, p, w, t) /\ LoopExact(c, t) /\ OutcomeExact(o, n, t)
      /\ bp.conc = c /\ bp.st = t /\ bp.outcome = o
  BY <1>2, PartsExact
<1>4. c = 1 /\ o = "pending" /\ t[b] = "new" /\ \A k \in 1..b - 1 : t[k] = "ok"
  BY <1>3 DEF BA!Turn
<1>5. PICK u : u = [t EXCEPT ![b] = "running"]
  OBVIOUS
<1>6. /\ u \in [1..Batches -> BatchStates]
      /\ \A d \in 1..Batches : u[d] = IF d = b THEN "running" ELSE t[d]
  BY <1>2, <1>5 DEF BatchStates, PartsOf
<1>7. PICK v : v = [conc |-> c, permits |-> p, wait |-> w, processed |-> n, st |-> u, outcome |-> o]
  OBVIOUS
<1>8. bp' = v
  <2>1. bp.st = t /\ [bp EXCEPT !.st = u] = v
    BY <1>2, <1>6, <1>7 DEF PartsOf
  <2>2. bp' = [bp EXCEPT !.st[b] = "running"]
    BY DEF BA!Turn
  <2> QED
    BY <1>5, <2>1, <2>2
<1>9. PartsOf(v, c, p, w, n, u, o)
  BY <1>2, <1>6, <1>7 DEF PartsOf
<1>10. PermitsExact(c, p, w, u)
  BY <1>4 DEF PermitsExact
<1>11. LoopExact(c, u)
  <2>1. ASSUME NEW d \in 1..Batches, NEW e \in 1..Batches, d < e, u[d] # "ok"
        PROVE  u[e] = "new"
    <3>1. t[d] # "ok"
      BY <1>4, <1>6, <2>1
    <3>2. t[e] = "new"
      BY <1>3, <1>4, <2>1, <3>1 DEF LoopExact
    <3>3. e # b
      BY <1>4, <2>1, <3>1
    <3> QED
      BY <1>6, <3>2, <3>3
  <2> QED
    BY <2>1 DEF LoopExact
<1>12. OutcomeExact(o, n, u)
  <2>1. Recounted(t, b, "running", u, {"ok"})
    BY <1>1, <1>2, <1>5, StateMoves DEF PartsOf
  <2> QED
    BY <1>3, <1>4, <2>1 DEF OutcomeExact, Recounted
<1> QED
  BY <1>8, <1>9, <1>10, <1>11, <1>12, PartsExact

\* A batch acquires a permit or waits for one.
LEMMA AcquireKeeps ==
  ASSUME BA!BatchesAssumption, ProcessExact(bp), NEW b \in 1..Batches, BA!Acquire(b)
  PROVE  ProcessExact(bp')
<1>1. Batches \in Nat /\ MaxPermits \in Nat
  BY DEF BA!BatchesAssumption
<1>2. PICK c, p, w, n, t, o : PartsOf(bp, c, p, w, n, t, o)
  BY DEF ProcessExact, ProcessType, PartsOf
<1>3. /\ PermitsExact(c, p, w, t) /\ LoopExact(c, t) /\ OutcomeExact(o, n, t)
      /\ bp.conc = c /\ bp.permits = p /\ bp.st = t /\ c \in Nat /\ p \in Nat
  BY <1>1, <1>2, PartsExact DEF PartsOf
<1>4. c > 1 /\ t[b] = "new"
  <2>1. BA!With("new") \in SUBSET Nat /\ BA!With("new") # {} /\ b = BA!Min(BA!With("new"))
    BY DEF BA!Acquire, BA!With
  <2>2. b = Min(BA!With("new"))
    BY <2>1 DEF BA!Min, Min
  <2>3. b \in BA!With("new")
    BY <2>1, <2>2, LeastElement
  <2> QED
    BY <1>3, <2>3 DEF BA!Acquire, BA!With
<1>5. LoopExact(c, [t EXCEPT ![b] = "granted"]) /\ LoopExact(c, [t EXCEPT ![b] = "waiting"])
  BY <1>4 DEF LoopExact
<1>6. ASSUME NEW s \in {"granted", "waiting"}, NEW u, u = [t EXCEPT ![b] = s]
      PROVE  /\ OutcomeExact(o, n, u) /\ u \in [1..Batches -> BatchStates] /\ u[b] = s
             /\ \A d \in 1..Batches : d # b => u[d] = t[d]
  <2>1. /\ u \in [1..Batches -> BatchStates]
        /\ \A d \in 1..Batches : u[d] = IF d = b THEN s ELSE t[d]
    BY <1>2, <1>6 DEF BatchStates, PartsOf
  <2>2. Recounted(t, b, s, u, {"ok"})
    BY <1>1, <1>2, <1>6, StateMoves DEF PartsOf
  <2>3. o # "ok" /\ (o = "failed" => \E d \in 1..Batches : t[d] = "failed")
    BY <1>3, <1>4 DEF OutcomeExact
  <2>4. n = Cardinality(InStates(u, {"ok"}))
    BY <1>3, <1>4, <2>2 DEF OutcomeExact, Recounted
  <2> QED
    BY <1>4, <2>1, <2>3, <2>4 DEF OutcomeExact
<1>7. CASE p > 0
  <2>1. PICK u : u = [t EXCEPT ![b] = "granted"]
    OBVIOUS
  <2>2. PICK q \in Nat : q = p - 1
    BY <1>3, <1>7
  <2>3. PICK v : v = [conc |-> c, permits |-> q, wait |-> w, processed |-> n, st |-> u, outcome |-> o]
    OBVIOUS
  <2>4. bp' = v
    <3>1. PICK f : f = [bp EXCEPT !.permits = p - 1]
      OBVIOUS
    <3>2. f = [conc |-> c, permits |-> q, wait |-> w, processed |-> n, st |-> t, outcome |-> o]
      BY <1>2, <2>2, <3>1 DEF PartsOf
    <3>3. f.st = t /\ [f EXCEPT !.st = u] = v
      BY <2>3, <3>2
    <3>4. bp' = [f EXCEPT !.st[b] = "granted"]
      BY <1>3, <1>7, <3>1 DEF BA!Acquire
    <3> QED
      BY <2>1, <3>3, <3>4
  <2>5. u \in [1..Batches -> BatchStates]
    BY <1>6, <2>1
  <2>6. PartsOf(v, c, q, w, n, u, o)
    BY <1>2, <2>2, <2>3, <2>5 DEF PartsOf
  <2>7. w = <<>> /\ p + Cardinality(InStates(t, UsesPermit)) = c
    BY <1>3, <1>4, <1>7 DEF PermitsExact
  <2>8. Recounted(t, b, "granted", u, UsesPermit)
    BY <1>1, <1>2, <2>1, StateMoves DEF PartsOf
  <2>9. q + Cardinality(InStates(u, UsesPermit)) = c
    BY <1>3, <1>4, <2>2, <2>7, <2>8 DEF Recounted, UsesPermit
  <2>10. PermitsExact(c, q, w, u)
    BY <2>7, <2>9 DEF PermitsExact, WaitExact
  <2>a. LoopExact(c, u) /\ OutcomeExact(o, n, u)
    BY <1>5, <1>6, <2>1
  <2> QED
    BY <2>4, <2>6, <2>10, <2>a, PartsExact
<1>8. CASE ~(p > 0)
  <2>1. PICK u : u = [t EXCEPT ![b] = "waiting"]
    OBVIOUS
  <2>2. PICK y : y = Append(w, b)
    OBVIOUS
  <2>3. PICK v : v = [conc |-> c, permits |-> p, wait |-> y, processed |-> n, st |-> u, outcome |-> o]
    OBVIOUS
  <2>4. bp' = v
    <3>1. PICK f : f = [bp EXCEPT !.wait = Append(bp.wait, b)]
      OBVIOUS
    <3>2. f = [conc |-> c, permits |-> p, wait |-> y, processed |-> n, st |-> t, outcome |-> o]
      BY <1>2, <2>2, <3>1 DEF PartsOf
    <3>3. f.st = t /\ [f EXCEPT !.st = u] = v
      BY <2>3, <3>2
    <3>4. bp' = [f EXCEPT !.st[b] = "waiting"]
      BY <1>3, <1>8, <3>1 DEF BA!Acquire
    <3> QED
      BY <2>1, <3>3, <3>4
  <2>5. w \in Seq(1..Batches) /\ u \in [1..Batches -> BatchStates]
    BY <1>2, <1>6, <2>1 DEF PartsOf
  <2>6. PICK l \in Nat : l = Len(w)
    BY <2>5, LenProperties
  <2>7. y \in Seq(1..Batches) /\ Len(y) = l + 1 /\ y[l + 1] = b /\ \A i \in 1..l : y[i] = w[i]
    BY <2>2, <2>5, <2>6, AppendProperties
  <2>8. PartsOf(v, c, p, y, n, u, o)
    BY <1>2, <2>3, <2>5, <2>7 DEF PartsOf
  <2>9. p = 0 /\ p + Cardinality(InStates(t, UsesPermit)) = c /\ WaitExact(w, t)
    BY <1>3, <1>4, <1>8 DEF PermitsExact
  <2>10. Recounted(t, b, "waiting", u, UsesPermit)
    BY <1>1, <1>2, <2>1, StateMoves DEF PartsOf
  <2>11. p + Cardinality(InStates(u, UsesPermit)) = c
    BY <1>3, <1>4, <2>9, <2>10 DEF Recounted, UsesPermit
  <2>12. \A i \in 1..l : w[i] \in 1..Batches /\ w[i] # b /\ t[w[i]] = "waiting"
    BY <1>4, <2>5, <2>6, <2>9, ElementOfSeq DEF WaitExact
  <2>13. \A i \in 1..l + 1 : i \in 1..l \/ i = l + 1
    OBVIOUS
  <2>14. \A i \in 1..l + 1 : u[y[i]] = "waiting"
    BY <1>6, <2>1, <2>7, <2>12, <2>13
  <2>15. \A i, j \in 1..l + 1 : i # j => y[i] # y[j]
    <3>1. \A i, j \in 1..l : i # j => y[i] # y[j]
      BY <2>6, <2>7, <2>9 DEF WaitExact
    <3> QED
      BY <2>7, <2>12, <2>13, <3>1
  <2>16. PermitsExact(c, p, y, u)
    BY <2>7, <2>9, <2>11, <2>14, <2>15 DEF PermitsExact, WaitExact
  <2>a. LoopExact(c, u) /\ OutcomeExact(o, n, u)
    BY <1>5, <1>6, <2>1
  <2> QED
    BY <2>4, <2>8, <2>16, <2>a, PartsExact
<1> QED
  BY <1>7, <1>8

\* A batch whose acquire() has resolved begins.
LEMMA BeginKeeps ==
  ASSUME BA!BatchesAssumption, ProcessExact(bp), NEW b \in 1..Batches, BA!Begin(b)
  PROVE  ProcessExact(bp')
<1>1. Batches \in Nat
  BY DEF BA!BatchesAssumption
<1>2. PICK c, p, w, n, t, o : PartsOf(bp, c, p, w, n, t, o)
  BY DEF ProcessExact, ProcessType, PartsOf
<1>3. /\ PermitsExact(c, p, w, t) /\ LoopExact(c, t) /\ OutcomeExact(o, n, t)
      /\ bp.conc = c /\ bp.st = t /\ t[b] = "granted" /\ w \in Seq(1..Batches)
  BY <1>2, PartsExact DEF BA!Begin, PartsOf
<1>4. PICK u : u = [t EXCEPT ![b] = "running"]
  OBVIOUS
<1>5. /\ u \in [1..Batches -> BatchStates]
      /\ \A d \in 1..Batches : u[d] = IF d = b THEN "running" ELSE t[d]
  BY <1>2, <1>4 DEF BatchStates, PartsOf
<1>6. PICK v : v = [conc |-> c, permits |-> p, wait |-> w, processed |-> n, st |-> u, outcome |-> o]
  OBVIOUS
<1>7. bp' = v
  <2>1. bp.st = t /\ [bp EXCEPT !.st = u] = v
    BY <1>2, <1>5, <1>6 DEF PartsOf
  <2>2. bp' = [bp EXCEPT !.st[b] = "running"]
    BY DEF BA!Begin
  <2> QED
    BY <1>4, <2>1, <2>2
<1>8. PartsOf(v, c, p, w, n, u, o)
  BY <1>2, <1>5, <1>6 DEF PartsOf
<1>9. InStates(u, UsesPermit) = InStates(t, UsesPermit) /\ InStates(u, {"ok"}) = InStates(t, {"ok"})
  BY <1>3, <1>5 DEF InStates, UsesPermit
<1>10. WaitExact(w, t) => WaitExact(w, u)
  <2>1. ASSUME WaitExact(w, t) PROVE \A i \in 1..Len(w) : u[w[i]] = "waiting"
    <3>1. \A i \in 1..Len(w) : w[i] \in 1..Batches /\ t[w[i]] = "waiting"
      BY <1>3, <2>1, ElementOfSeq DEF WaitExact
    <3> QED
      BY <1>3, <1>5, <3>1
  <2> QED
    BY <2>1 DEF WaitExact
<1>11. PermitsExact(c, p, w, u)
  BY <1>3, <1>9, <1>10 DEF PermitsExact
<1>12. LoopExact(c, u)
  BY <1>3, <1>5 DEF LoopExact
<1>13. OutcomeExact(o, n, u)
  BY <1>3, <1>5, <1>9 DEF OutcomeExact
<1> QED
  BY <1>7, <1>8, <1>11, <1>12, <1>13, PartsExact

\* Batch b of the process x, which runs, settles as s in v.
SettledPart(x, b, s, q, v, c, p, w, n, t, o, m, u) ==
  /\ PartsOf(x, c, p, w, n, t, o) /\ t[b] = "running" /\ u = [t EXCEPT ![b] = s]
  /\ m = IF s = "ok" THEN n + 1 ELSE n
  /\ v = [conc |-> c, permits |-> p, wait |-> w, processed |-> m, st |-> u, outcome |-> q]
SettledAs(x, b, s, q, v) ==
  \E c, p, w, n, t, o, m, u : SettledPart(x, b, s, q, v, c, p, w, n, t, o, m, u)

\* What holds of r, the process after that.
HasSettled(x, b, s, q, r) ==
  /\ ProcessType(r) /\ PermitsExact(r.conc, r.permits, r.wait, r.st)
  /\ LoopExact(r.conc, r.st) /\ r.processed = Cardinality(InStates(r.st, {"ok"}))
  /\ \A d \in 1..Batches : x.st[d] = "failed" => r.st[d] = "failed"
  /\ r.st[b] = s /\ r.outcome = q

\* A batch that settles leaves the permits and the loop exact.
LEMMA BatchSettles ==
  ASSUME Batches \in Nat, NEW x, ProcessExact(x), NEW b \in 1..Batches,
         NEW s \in {"ok", "failed"}, NEW q \in Outcomes, NEW y, SettledAs(x, b, s, q, y)
  PROVE  HasSettled(x, b, s, q, BA!Release(y)) /\ x.outcome # "ok"
<1>a. PICK c, p, w, n, t, o, m, u : SettledPart(x, b, s, q, y, c, p, w, n, t, o, m, u)
  BY DEF SettledAs
<1>1. /\ PartsOf(x, c, p, w, n, t, o) /\ t[b] = "running" /\ u = [t EXCEPT ![b] = s]
      /\ m = (IF s = "ok" THEN n + 1 ELSE n)
      /\ y = [conc |-> c, permits |-> p, wait |-> w, processed |-> m, st |-> u, outcome |-> q]
  BY <1>a DEF SettledPart
<1>2. /\ PermitsExact(c, p, w, t) /\ LoopExact(c, t) /\ OutcomeExact(o, n, t)
      /\ x.st = t /\ x.outcome = o
  BY <1>1, PartsExact
<1>3. /\ c \in 1..MaxPermits /\ p \in Nat /\ w \in Seq(1..Batches) /\ n \in Nat
      /\ t \in [1..Batches -> BatchStates] /\ m \in Nat
  BY <1>1 DEF PartsOf
<1>4. /\ u \in [1..Batches -> BatchStates]
      /\ \A d \in 1..Batches : u[d] = IF d = b THEN s ELSE t[d]
  BY <1>1, <1>3 DEF BatchStates
<1>5. PartsOf(y, c, p, w, m, u, q)
  BY <1>1, <1>3, <1>4 DEF PartsOf
<1>6. /\ ProcessType(y) /\ y.conc = c /\ y.permits = p /\ y.wait = w /\ y.processed = m
      /\ y.st = u /\ y.outcome = q
  BY <1>5, PartsExact
<1>7. ASSUME c > 1 PROVE /\ p + Cardinality(InStates(u, UsesPermit)) + 1 = c
                         /\ w # <<>> => p = 0
                         /\ WaitExact(w, u)
  <2>1. p + Cardinality(InStates(t, UsesPermit)) = c /\ (w # <<>> => p = 0) /\ WaitExact(w, t)
    BY <1>2, <1>7 DEF PermitsExact
  <2>2. Recounted(t, b, s, u, UsesPermit)
    BY <1>1, <1>3, StateMoves
  <2>3. s \notin UsesPermit /\ "running" \in UsesPermit
    BY DEF UsesPermit
  <2>4. PICK k \in Nat, l \in Nat :
          k = Cardinality(InStates(t, UsesPermit)) /\ l = Cardinality(InStates(u, UsesPermit))
          /\ l + 1 = k
    BY <1>1, <2>2, <2>3 DEF Recounted
  <2>5. \A i \in 1..Len(w) : w[i] \in 1..Batches /\ t[w[i]] = "waiting"
    BY <1>3, <2>1, ElementOfSeq DEF WaitExact
  <2>6. \A i \in 1..Len(w) : u[w[i]] = "waiting"
    BY <1>1, <1>4, <2>5
  <2>7. WaitExact(w, u)
    BY <2>1, <2>6 DEF WaitExact
  <2> QED
    BY <1>3, <2>1, <2>4, <2>7
<1>8. PICK r : r = BA!Release(y)
  OBVIOUS
<1>9. Freed(y, r)
  BY <1>6, <1>7, <1>8, ReleaseFrees
<1>10. /\ ProcessType(r) /\ PermitsExact(r.conc, r.permits, r.wait, r.st)
       /\ r.conc = c /\ r.processed = m /\ r.outcome = q
       /\ \A d \in 1..Batches :
            r.st[d] = u[d] \/ (u[d] = "waiting" /\ r.st[d] = "granted" /\ c > 1)
  BY <1>6, <1>9 DEF Freed
<1>11. InStates(r.st, {"ok"}) = InStates(u, {"ok"})
  BY <1>10 DEF InStates
<1>12. m = Cardinality(InStates(u, {"ok"}))
  <2>1. Recounted(t, b, s, u, {"ok"})
    BY <1>1, <1>3, StateMoves
  <2>2. n = Cardinality(InStates(t, {"ok"}))
    BY <1>2 DEF OutcomeExact
  <2>3. CASE s = "ok"
    BY <1>1, <2>1, <2>2, <2>3 DEF Recounted
  <2>4. CASE s = "failed"
    BY <1>1, <2>1, <2>2, <2>4 DEF Recounted
  <2> QED
    BY <2>3, <2>4
<1>13. LoopExact(c, r.st)
  <2>1. ASSUME c = 1, NEW d \in 1..Batches, NEW e \in 1..Batches, d < e, r.st[d] # "ok"
        PROVE  r.st[e] = "new"
    <3>1. r.st[d] = u[d] /\ r.st[e] = u[e]
      BY <1>10, <2>1
    <3>2. t[d] # "ok"
      BY <1>1, <1>4, <2>1, <3>1
    <3>3. t[e] = "new"
      BY <1>2, <2>1, <3>2 DEF LoopExact
    <3>4. e # b
      BY <1>1, <3>3
    <3> QED
      BY <1>4, <3>1, <3>3, <3>4
  <2> QED
    BY <2>1 DEF LoopExact
<1>14. r.st[b] = s /\ \A d \in 1..Batches : t[d] = "failed" => r.st[d] = "failed"
  <2>1. r.st[b] = s
    BY <1>4, <1>10
  <2>2. ASSUME NEW d \in 1..Batches, t[d] = "failed" PROVE r.st[d] = "failed"
    <3>1. u[d] = "failed"
      BY <1>1, <1>4, <2>2
    <3> QED
      BY <1>10, <3>1
  <2> QED
    BY <2>1, <2>2
<1>15. o # "ok"
  BY <1>1, <1>2 DEF OutcomeExact
<1> QED
  BY <1>2, <1>8, <1>10, <1>11, <1>12, <1>13, <1>14, <1>15 DEF HasSettled

\* The batch b of the process x settles as s.
LEMMA SettlesAs ==
  ASSUME NEW c, NEW p, NEW w, NEW n, NEW t, NEW o, NEW x, PartsOf(x, c, p, w, n, t, o),
         NEW b \in 1..Batches, t[b] = "running", NEW q
  PROVE  /\ SettledAs(x, b, "ok", o, [x EXCEPT !.st[b] = "ok", !.processed = @ + 1])
         /\ SettledAs(x, b, "failed", q, [x EXCEPT !.st[b] = "failed", !.outcome = q])
<1>1. x.st = t /\ x.processed = n /\ n \in Nat
  BY DEF PartsOf
<1>2. PICK u : u = [t EXCEPT ![b] = "ok"]
  OBVIOUS
<1>3. PICK f : f = [x EXCEPT !.st = u]
  OBVIOUS
<1>4. f = [conc |-> c, permits |-> p, wait |-> w, processed |-> n, st |-> u, outcome |-> o]
  BY <1>3 DEF PartsOf
<1>5. [f EXCEPT !.processed = n + 1]
        = [conc |-> c, permits |-> p, wait |-> w, processed |-> n + 1, st |-> u, outcome |-> o]
  BY <1>4
<1>6. [x EXCEPT !.st[b] = "ok", !.processed = @ + 1] = [f EXCEPT !.processed = n + 1]
  BY <1>1, <1>2, <1>3 DEF PartsOf
<1>7. PICK v : v = [t EXCEPT ![b] = "failed"]
  OBVIOUS
<1>8. PICK g : g = [x EXCEPT !.st = v]
  OBVIOUS
<1>9. g = [conc |-> c, permits |-> p, wait |-> w, processed |-> n, st |-> v, outcome |-> o]
  BY <1>8 DEF PartsOf
<1>10. [g EXCEPT !.outcome = q]
        = [conc |-> c, permits |-> p, wait |-> w, processed |-> n, st |-> v, outcome |-> q]
  BY <1>9
<1>11. [x EXCEPT !.st[b] = "failed", !.outcome = q] = [g EXCEPT !.outcome = q]
  BY <1>1, <1>7, <1>8 DEF PartsOf
<1>12. PICK y, z : /\ y = [x EXCEPT !.st[b] = "ok", !.processed = @ + 1]
                   /\ z = [x EXCEPT !.st[b] = "failed", !.outcome = q]
  OBVIOUS
<1>13. SettledPart(x, b, "ok", o, y, c, p, w, n, t, o, n + 1, u)
  BY <1>2, <1>5, <1>6, <1>12 DEF SettledPart
<1>14. SettledPart(x, b, "failed", q, z, c, p, w, n, t, o, n, v)
  BY <1>7, <1>10, <1>11, <1>12 DEF SettledPart
<1>15. SettledAs(x, b, "ok", o, y)
  BY <1>13, Zenon DEF SettledAs
<1>16. SettledAs(x, b, "failed", q, z)
  BY <1>14, Zenon DEF SettledAs
<1> QED
  BY <1>12, <1>15, <1>16

\* A batch succeeds.
LEMMA SucceedKeeps ==
  ASSUME BA!BatchesAssumption, ProcessExact(bp), NEW b \in 1..Batches, BA!Succeed(b)
  PROVE  ProcessExact(bp')
<1>1. Batches \in Nat
  BY DEF BA!BatchesAssumption
<1>2. PICK c, p, w, n, t, o : PartsOf(bp, c, p, w, n, t, o)
  BY DEF ProcessExact, ProcessType, PartsOf
<1>3. OutcomeExact(o, n, t) /\ bp.st = t /\ bp.outcome = o /\ o \in Outcomes /\ t[b] = "running"
  BY <1>2, PartsExact DEF BA!Succeed, PartsOf
<1>4. PICK y : y = [bp EXCEPT !.st[b] = "ok", !.processed = @ + 1]
  OBVIOUS
<1>5. SettledAs(bp, b, "ok", o, y)
  BY <1>2, <1>3, <1>4, SettlesAs
<1>6. PICK r : r = BA!Release(y)
  OBVIOUS
<1>7. HasSettled(bp, b, "ok", o, r) /\ o # "ok"
  BY <1>1, <1>3, <1>5, <1>6, BatchSettles
<1>8. /\ ProcessType(r) /\ PermitsExact(r.conc, r.permits, r.wait, r.st) /\ LoopExact(r.conc, r.st)
      /\ r.processed = Cardinality(InStates(r.st, {"ok"})) /\ r.outcome = o
      /\ \A d \in 1..Batches : t[d] = "failed" => r.st[d] = "failed"
  BY <1>3, <1>7 DEF HasSettled
<1>9. bp' = IF \A k \in 1..Batches : r.st[k] = "ok" THEN [r EXCEPT !.outcome = "ok"] ELSE r
  BY <1>4, <1>6 DEF BA!Succeed
<1>10. PICK i, j, x, m, u : PartsOf(r, i, j, x, m, u, o)
  BY <1>8 DEF ProcessType, PartsOf
<1>11. /\ PermitsExact(i, j, x, u) /\ LoopExact(i, u) /\ m = Cardinality(InStates(u, {"ok"})) /\ r.st = u
  BY <1>8, <1>10, PartsExact
<1>12. CASE \A k \in 1..Batches : u[k] = "ok"
  <2>1. bp' = [r EXCEPT !.outcome = "ok"]
    BY <1>9, <1>11, <1>12
  <2>2. PICK z : z = [conc |-> i, permits |-> j, wait |-> x, processed |-> m, st |-> u, outcome |-> "ok"]
    OBVIOUS
  <2>3. bp' = z
    BY <1>10, <2>1, <2>2 DEF PartsOf
  <2>4. PartsOf(z, i, j, x, m, u, "ok")
    BY <1>10, <2>2 DEF PartsOf, Outcomes
  <2>5. OutcomeExact("ok", m, u)
    BY <1>11, <1>12 DEF OutcomeExact
  <2> QED
    BY <1>11, <2>3, <2>4, <2>5, PartsExact
<1>13. CASE ~\A k \in 1..Batches : u[k] = "ok"
  <2>1. bp' = r
    BY <1>9, <1>11, <1>13
  <2>2. OutcomeExact(o, m, u)
    BY <1>3, <1>7, <1>8, <1>11 DEF OutcomeExact
  <2> QED
    BY <1>10, <1>11, <2>1, <2>2, PartsExact
<1> QED
  BY <1>12, <1>13

\* A batch fails.
LEMMA FailKeeps ==
  ASSUME BA!BatchesAssumption, ProcessExact(bp), NEW b \in 1..Batches, BA!Fail(b)
  PROVE  ProcessExact(bp')
<1>1. Batches \in Nat
  BY DEF BA!BatchesAssumption
<1>2. PICK c, p, w, n, t, o : PartsOf(bp, c, p, w, n, t, o)
  BY DEF ProcessExact, ProcessType, PartsOf
<1>3. OutcomeExact(o, n, t) /\ bp.st = t /\ bp.outcome = o /\ o \in Outcomes /\ t[b] = "running"
  BY <1>2, PartsExact DEF BA!Fail, PartsOf
<1>4. PICK q \in Outcomes : q = IF bp.outcome = "pending" THEN "failed" ELSE bp.outcome
  BY <1>3 DEF Outcomes
<1>5. PICK y : y = [bp EXCEPT !.st[b] = "failed", !.outcome = q]
  OBVIOUS
<1>6. SettledAs(bp, b, "failed", q, y)
  BY <1>2, <1>3, <1>5, SettlesAs
<1>7. PICK r : r = BA!Release(y)
  OBVIOUS
<1>8. HasSettled(bp, b, "failed", q, r) /\ o # "ok"
  BY <1>1, <1>3, <1>6, <1>7, BatchSettles
<1>9. /\ ProcessType(r) /\ PermitsExact(r.conc, r.permits, r.wait, r.st) /\ LoopExact(r.conc, r.st)
      /\ r.processed = Cardinality(InStates(r.st, {"ok"})) /\ r.outcome = q /\ r.st[b] = "failed"
  BY <1>8 DEF HasSettled
<1>10. bp' = r
  BY <1>4, <1>5, <1>7 DEF BA!Fail
<1>11. q = "failed"
  BY <1>3, <1>4, <1>8 DEF Outcomes
<1>12. OutcomeExact(r.outcome, r.processed, r.st)
  BY <1>9, <1>11 DEF OutcomeExact
<1> QED
  BY <1>9, <1>10, <1>12 DEF ProcessExact

\* ProcessExact is an invariant.
LEMMA ProcessInvariant ==
  ASSUME BA!BatchesAssumption
  PROVE  /\ BA!AllInit => ProcessExact(bp)
         /\ ProcessExact(bp) /\ [BA!AllNext]_bp => ProcessExact(bp')
<1>1. BA!AllInit => ProcessExact(bp)
  BY ProcessStarts
<1>2. ASSUME ProcessExact(bp), BA!AllNext PROVE ProcessExact(bp')
  <2>1. PICK b \in 1..Batches :
          BA!Turn(b) \/ BA!Acquire(b) \/ BA!Begin(b) \/ BA!Succeed(b) \/ BA!Fail(b)
    BY <1>2 DEF BA!AllNext
  <2> QED
    BY <1>2, <2>1, TurnKeeps, AcquireKeeps, BeginKeeps, SucceedKeeps, FailKeeps
<1>3. ASSUME ProcessExact(bp), UNCHANGED bp PROVE ProcessExact(bp')
  BY <1>3
<1> QED
  BY <1>1, <1>2, <1>3

\* Sets are counted alike in both modules.
LEMMA ProcessCounts == ASSUME NEW S PROVE BA!Cardinality(S) = Cardinality(S)
BY DEF BA!Cardinality, BA!IsFiniteSet, Cardinality, IsFiniteSet

\* An exact process has its properties.
LEMMA ProcessExactGives ==
  ASSUME BA!BatchesAssumption, ProcessExact(bp)
  PROVE  BA!PermitsBalance /\ BA!TruthfulOutcome
<1>1. Batches \in Nat
  BY DEF BA!BatchesAssumption
<1>2. PICK c, p, w, n, t, o : PartsOf(bp, c, p, w, n, t, o)
  BY DEF ProcessExact, ProcessType, PartsOf
<1>3. /\ PermitsExact(c, p, w, t) /\ LoopExact(c, t) /\ OutcomeExact(o, n, t)
      /\ bp.conc = c /\ bp.permits = p /\ bp.wait = w /\ bp.processed = n /\ bp.st = t
      /\ bp.outcome = o
  BY <1>2, PartsExact
<1>4. BA!PermitsBalance
  <2>1. InStates(t, UsesPermit) = BA!With("granted") \union BA!With("running")
    BY <1>3 DEF InStates, UsesPermit, BA!With
  <2> QED
    BY <1>3, <2>1, ProcessCounts DEF PermitsExact, BA!PermitsBalance
<1>5. ASSUME o = "ok" PROVE n = Batches
  <2>1. InStates(t, {"ok"}) = 1..Batches
    BY <1>3, <1>5 DEF OutcomeExact, InStates
  <2>2. Cardinality(1..Batches) = Batches
    <3>1. Cardinality(1..Batches) = IF 1 > Batches THEN 0 ELSE Batches - 1 + 1
      BY <1>1, FS_Interval
    <3> QED
      BY <1>1, <3>1
  <2> QED
    BY <1>3, <2>1, <2>2 DEF OutcomeExact
<1>6. ASSUME o = "failed", c = 1
      PROVE  BA!With("running") = {} /\ Cardinality(BA!With("failed")) = 1
  <2>1. PICK f \in 1..Batches : t[f] = "failed"
    BY <1>3, <1>6 DEF OutcomeExact
  <2>2. ASSUME NEW d \in 1..Batches, d # f PROVE t[d] \in {"ok", "new"}
    <3>1. CASE f < d
      BY <1>3, <1>6, <2>1, <3>1 DEF LoopExact
    <3>2. CASE d < f
      BY <1>3, <1>6, <2>1, <3>2 DEF LoopExact
    <3> QED
      BY <1>1, <2>2, <3>1, <3>2
  <2>3. BA!With("running") = {} /\ BA!With("failed") = {f}
    BY <1>3, <2>1, <2>2 DEF BA!With
  <2>4. Cardinality({f}) = 1
    BY FS_Singleton
  <2> QED
    BY <2>3, <2>4
<1>7. BA!TruthfulOutcome
  BY <1>3, <1>5, <1>6, ProcessCounts DEF BA!TruthfulOutcome
<1> QED
  BY <1>4, <1>7

-----------------------------------------------------------------------------
(* Batcher.                                                                *)

\* Sequence s counts from a + 1 to e.
Run(s, a, e) ==
  s \in Seq(Nat) /\ \E l \in Nat : Len(s) = l /\ a + l = e /\ \A i \in 1..l : s[i] = a + i

\* One that is empty.
LEMMA RunEmpty == ASSUME NEW a \in Nat PROVE Run(<<>>, a, a)
<1>1. PICK s : s = <<>>
  OBVIOUS
<1>2. s \in Seq(Nat) /\ Len(s) = 0
  BY <1>1, EmptySeq
<1>3. 0 \in Nat /\ a + 0 = a /\ \A i \in 1..0 : s[i] = a + i
  OBVIOUS
<1> QED
  BY <1>1, <1>2, <1>3 DEF Run

\* One that counts on.
LEMMA RunAppend ==
  ASSUME NEW a \in Nat, NEW e \in Nat, NEW s, Run(s, a, e), NEW f, f = e + 1
  PROVE  Run(Append(s, f), a, f)
<1>1. PICK l \in Nat : Len(s) = l /\ a + l = e /\ \A i \in 1..l : s[i] = a + i
  BY DEF Run
<1>2. PICK k \in Nat : k = l + 1
  OBVIOUS
<1>a. PICK y : y = Append(s, f)
  OBVIOUS
<1>3. s \in Seq(Nat) /\ f \in Nat
  BY DEF Run
<1>4. y \in Seq(Nat) /\ Len(y) = k /\ y[k] = f /\ \A i \in 1..l : y[i] = s[i]
  BY <1>1, <1>2, <1>a, <1>3, AppendProperties
<1>5. a + k = f
  BY <1>1, <1>2
<1>6. \A i \in 1..k : i \in 1..l \/ i = k
  BY <1>2
<1>7. \A i \in 1..k : y[i] = a + i
  BY <1>1, <1>4, <1>5, <1>6
<1> QED
  BY <1>2, <1>a, <1>4, <1>5, <1>7 DEF Run

\* Two of which the second counts on.
LEMMA RunConcat ==
  ASSUME NEW a \in Nat, NEW e \in Nat, NEW f \in Nat, NEW s, Run(s, a, e), NEW t, Run(t, e, f)
  PROVE  Run(s \o t, a, f)
<1>1. PICK l \in Nat : Len(s) = l /\ a + l = e /\ \A i \in 1..l : s[i] = a + i
  BY DEF Run
<1>2. PICK k \in Nat : Len(t) = k /\ e + k = f /\ \A i \in 1..k : t[i] = e + i
  BY DEF Run
<1>3. PICK m \in Nat : m = l + k
  OBVIOUS
<1>a. PICK y : y = s \o t
  OBVIOUS
<1>4. s \in Seq(Nat) /\ t \in Seq(Nat)
  BY DEF Run
<1>5. y \in Seq(Nat) /\ Len(y) = m
      /\ \A i \in 1..m : y[i] = IF i <= l THEN s[i] ELSE t[i - l]
  <2>1. /\ y \in Seq(Nat) /\ Len(y) = Len(s) + Len(t)
        /\ \A i \in 1..Len(s) + Len(t) : y[i] = IF i <= Len(s) THEN s[i] ELSE t[i - Len(s)]
    BY <1>a, <1>4, ConcatProperties
  <2> QED
    BY <1>1, <1>2, <1>3, <2>1
<1>6. ASSUME NEW i \in 1..m PROVE y[i] = a + i
  <2>1. CASE i <= l
    <3>1. i \in 1..l
      BY <2>1
    <3> QED
      BY <1>1, <1>5, <2>1, <3>1
  <2>2. CASE ~(i <= l)
    <3>1. PICK j \in 1..k : j = i - l
      BY <1>3, <2>2
    <3>2. y[i] = t[j] /\ t[j] = e + j
      BY <1>2, <1>5, <2>2, <3>1
    <3>3. e + j = a + i
      BY <1>1, <3>1
    <3> QED
      BY <3>2, <3>3
  <2> QED
    BY <2>1, <2>2
<1>7. a + m = f
  BY <1>1, <1>2, <1>3
<1> QED
  BY <1>3, <1>a, <1>5, <1>6, <1>7 DEF Run

\* What such a sequence holds.
RunHolds(s, a, e) ==
  /\ s \in Seq(Nat) /\ a <= e /\ (s = <<>> <=> a = e) /\ (a < e => Head(s) = a + 1)
  /\ BA!Range(s) = {i \in Nat : a < i /\ i <= e}

\* It holds what it has counted.
LEMMA RunElements ==
  ASSUME NEW a \in Nat, NEW e \in Nat, NEW s, Run(s, a, e)
  PROVE  RunHolds(s, a, e)
<1>1. PICK l \in Nat : Len(s) = l /\ a + l = e /\ \A i \in 1..l : s[i] = a + i
  BY DEF Run
<1>2. s \in Seq(Nat)
  BY DEF Run
<1>3. DOMAIN s = 1..l
  BY <1>1, <1>2, LenProperties
<1>4. ASSUME NEW i \in Nat, a < i, i <= e PROVE \E j \in 1..l : s[j] = i
  <2>1. PICK j \in 1..l : j = i - a
    BY <1>1, <1>4
  <2> QED
    BY <1>1, <2>1
<1>5. ASSUME NEW j \in 1..l PROVE s[j] \in Nat /\ a < s[j] /\ s[j] <= e
  <2>1. s[j] = a + j
    BY <1>1
  <2> QED
    BY <1>1, <2>1
<1>6. BA!Range(s) = {i \in Nat : a < i /\ i <= e}
  BY <1>3, <1>4, <1>5 DEF BA!Range
<1>7. s = <<>> <=> a = e
  <2>1. CASE s = <<>>
    <3>1. Len(s) = 0
      BY <2>1, EmptySeq
    <3> QED
      BY <1>1, <2>1, <3>1
  <2>2. CASE s # <<>>
    <3>1. Len(s) \in Nat \ {0}
      BY <1>2, <2>2, EmptySeq
    <3> QED
      BY <1>1, <2>2, <3>1
  <2> QED
    BY <2>1, <2>2
<1>8. ASSUME a < e PROVE Head(s) = a + 1
  <2>1. 1 \in 1..l /\ s # <<>>
    BY <1>1, <1>7, <1>8
  <2>2. Head(s) = s[1]
    BY <1>2, <2>1, HeadTailProperties
  <2> QED
    BY <1>1, <2>1, <2>2
<1>9. a <= e
  BY <1>1
<1> QED
  BY <1>2, <1>6, <1>7, <1>8, <1>9 DEF RunHolds

\* What counts from 1 to e.
LEMMA RunIsIdentity ==
  ASSUME NEW e \in Nat, NEW s, Run(s, 0, e)
  PROVE  s = [i \in 1..e |-> i]
<1>1. PICK l \in Nat : Len(s) = l /\ 0 + l = e /\ \A i \in 1..l : s[i] = 0 + i
  BY DEF Run
<1>2. s \in Seq(Nat) /\ l = e
  BY <1>1 DEF Run
<1>3. s \in [1..e -> Nat]
  BY <1>1, <1>2, LenProperties
<1>4. \A i \in 1..e : s[i] = i
  BY <1>1, <1>2
<1> QED
  BY <1>3, <1>4

-----------------------------------------------------------------------------

Promises == {"none", "timer", "flush", "ok", "failed"}

\* The fields of a batcher b have their types.
BatcherType(b) ==
  b \in [queue : Seq(Nat), batch : Seq(Nat), timer : Nat, fired : BOOLEAN,
         processing : BOOLEAN, owner : Nat, done : Seq(Nat), failed : SUBSET Nat,
         added : Nat, promise : [1..Items -> Promises], missed : SUBSET Nat]

\* Items up to x are done, those up to w in the batch and the others queued; the timer
\* was set for a queued item, and the flush in progress for one of its batch.
ItemsExact(b, x, w) ==
  /\ x \in Nat /\ w \in Nat /\ b.added <= Items
  /\ Run(b.done, 0, x) /\ Run(b.batch, x, w) /\ Run(b.queue, w, b.added)
  /\ b.timer # 0 => w < b.timer /\ b.timer <= b.added
  /\ b.timer = 0 => b.fired = FALSE
  /\ x # w => b.processing = TRUE
  /\ x = w => b.processing = FALSE
  /\ x # w /\ b.owner # 0 => x < b.owner /\ b.owner <= w

\* A promise p rejects for an item in f, and resolves early for one in m.
PromisesExact(p, x, f, m) ==
  \A i \in 1..Items : /\ p[i] = "failed" => i \in f
                      /\ p[i] = "ok" /\ x < i => i \in m

\* An item that waits without a timer was missed.
WaitsExact(b, w) == w < b.added /\ ~(b.timer # 0 /\ b.fired = FALSE) => w + 1 \in b.missed

Batched(b, x, w) == BatcherType(b) /\ ItemsExact(b, x, w) /\ PromisesExact(b.promise, x, b.failed, b.missed)
BatcherExact(b) == \E x, w : Batched(b, x, w) /\ WaitsExact(b, w)

\* The promise of item i, if there is one, becomes s.
PromiseIs(b, i, s, p) ==
  /\ p \in [1..Items -> Promises] /\ BA!Settled(b, i, s) = [b EXCEPT !.promise = p]
  /\ \A j \in 1..Items : p[j] = IF j = i THEN s ELSE b.promise[j]

\* That is what settling does.
LEMMA ItemPromised ==
  ASSUME NEW b, BatcherType(b), NEW i \in Nat, i <= Items, NEW s \in Promises
  PROVE  \E p : PromiseIs(b, i, s, p)
<1>1. PICK p : p = b.promise
  OBVIOUS
<1>2. p \in [1..Items -> Promises] /\ [b EXCEPT !.promise = p] = b
  BY <1>1 DEF BatcherType
<1>3. CASE i = 0
  <2>1. BA!Settled(b, i, s) = b
    BY <1>3 DEF BA!Settled
  <2>2. \A j \in 1..Items : j # i
    BY <1>3
  <2> QED
    BY <1>1, <1>2, <2>1, <2>2 DEF PromiseIs
<1>4. CASE i # 0
  <2>1. PICK q : q = [p EXCEPT ![i] = s]
    OBVIOUS
  <2>2. q \in [1..Items -> Promises] /\ \A j \in 1..Items : q[j] = IF j = i THEN s ELSE p[j]
    BY <1>2, <1>4, <2>1
  <2>3. BA!Settled(b, i, s) = [b EXCEPT !.promise = q]
    BY <1>1, <1>4, <2>1 DEF BA!Settled
  <2> QED
    BY <1>1, <2>2, <2>3 DEF PromiseIs
<1> QED
  BY <1>3, <1>4

\* A flush for item i, or for none, of a batcher of which only the items that wait may
\* be without a timer.
LEMMA FlushKeeps ==
  ASSUME BA!BatchLimitAssumption, NEW b, NEW x, NEW w, Batched(b, x, w), NEW i \in Nat,
         i = 0 \/ (w < i /\ i <= b.added)
  PROVE  BatcherExact(BA!Flush(b, i))
<1>1. /\ BatcherType(b) /\ ItemsExact(b, x, w)
      /\ PromisesExact(b.promise, x, b.failed, b.missed)
  BY DEF Batched
<1>2. PICK q \in Seq(Nat), m \in SUBSET Nat, n \in Nat, d \in Seq(Nat), g \in Seq(Nat), f \in SUBSET Nat :
        q = b.queue /\ m = b.missed /\ n = b.added /\ d = b.done /\ g = b.batch /\ f = b.failed
  BY <1>1 DEF BatcherType
<1>3. /\ x \in Nat /\ w \in Nat /\ n <= Items /\ Run(d, 0, x) /\ Run(g, x, w) /\ Run(q, w, n)
      /\ x # w => b.processing = TRUE
  BY <1>1, <1>2 DEF ItemsExact
<1>4. Items \in Nat /\ i <= Items
  BY <1>2, <1>3 DEF BA!BatchLimitAssumption
<1>5. RunHolds(q, w, n) /\ RunHolds(g, x, w)
  BY <1>2, <1>3, RunElements
<1>6. w <= n /\ (q = <<>> <=> w = n) /\ BA!Range(q) = {j \in Nat : w < j /\ j <= n} /\ x <= w
  BY <1>5 DEF RunHolds
<1>7. CASE b.processing \/ q = <<>>
  <2>1. PICK r : r = m \union BA!Range(q)
    OBVIOUS
  <2>2. r \in SUBSET Nat /\ \A j \in Nat : w < j /\ j <= n => j \in r
    BY <1>6, <2>1
  <2>3. PICK c : c = [b EXCEPT !.missed = r]
    OBVIOUS
  <2>4. BatcherType(c) /\ c.promise = b.promise
    BY <1>1, <2>2, <2>3 DEF BatcherType
  <2>5. BA!Flush(b, i) = BA!Settled(c, i, "ok")
    BY <1>2, <1>7, <2>1, <2>3 DEF BA!Flush, BA!Missed
  <2>6. PICK p : PromiseIs(c, i, "ok", p)
    BY <1>4, <2>4, ItemPromised DEF Promises
  <2>7. /\ p \in [1..Items -> Promises] /\ BA!Settled(c, i, "ok") = [c EXCEPT !.promise = p]
        /\ \A j \in 1..Items : p[j] = IF j = i THEN "ok" ELSE b.promise[j]
    BY <2>4, <2>6 DEF PromiseIs
  <2>8. PICK e : e = [c EXCEPT !.promise = p]
    OBVIOUS
  <2>9. /\ BatcherType(e) /\ e.queue = q /\ e.batch = g /\ e.done = d /\ e.added = n /\ e.failed = f
        /\ e.missed = r /\ e.promise = p /\ e.timer = b.timer /\ e.fired = b.fired
        /\ e.processing = b.processing /\ e.owner = b.owner
    BY <1>1, <1>2, <2>2, <2>3, <2>7, <2>8 DEF BatcherType
  <2>10. ItemsExact(e, x, w)
    BY <1>1, <1>2, <2>9 DEF ItemsExact
  <2>11. PromisesExact(p, x, f, r)
    <3>1. ASSUME NEW j \in 1..Items, p[j] = "failed" PROVE j \in f
      BY <1>1, <1>2, <2>7, <3>1 DEF PromisesExact
    <3>2. ASSUME NEW j \in 1..Items, p[j] = "ok", x < j PROVE j \in r
      <4>1. CASE j = i
        BY <1>2, <2>2, <4>1
      <4>2. CASE j # i
        BY <1>1, <1>2, <2>1, <2>7, <3>2, <4>2 DEF PromisesExact
      <4> QED
        BY <4>1, <4>2
    <3> QED
      BY <3>1, <3>2 DEF PromisesExact
  <2>12. WaitsExact(e, w)
    <3>1. ASSUME w < n PROVE w + 1 \in r
      BY <1>3, <2>2, <3>1
    <3> QED
      BY <2>9, <3>1 DEF WaitsExact
  <2> QED
    <3>1. Batched(e, x, w)
      BY <2>9, <2>10, <2>11 DEF Batched
    <3>2. BA!Flush(b, i) = e
      BY <2>5, <2>7, <2>8
    <3> QED
      BY <2>12, <3>1, <3>2 DEF BatcherExact
<1>8. CASE ~b.processing /\ q # <<>>
  <2>1. x = w /\ w < n
    BY <1>3, <1>6, <1>8
  <2>2. PICK p : PromiseIs(b, i, "flush", p)
    BY <1>1, <1>4, ItemPromised DEF Promises
  <2>3. /\ p \in [1..Items -> Promises] /\ BA!Settled(b, i, "flush") = [b EXCEPT !.promise = p]
        /\ \A j \in 1..Items : p[j] = IF j = i THEN "flush" ELSE b.promise[j]
    BY <2>2 DEF PromiseIs
  <2>4. PICK c : c = [b EXCEPT !.promise = p]
    OBVIOUS
  <2>5. /\ BatcherType(c) /\ c.promise = p /\ c.missed = m /\ c.added = n /\ c.done = d /\ c.failed = f
        /\ c.queue = q
    BY <1>1, <1>2, <2>3, <2>4 DEF BatcherType
  <2>6. PICK z \in Seq(Nat) : z = <<>>
    BY EmptySeq
  <2>7. PICK e : e = [c EXCEPT !.processing = TRUE, !.owner = i, !.timer = 0, !.fired = FALSE,
                               !.batch = q, !.queue = z]
    OBVIOUS
  <2>8. BA!Flush(b, i) = e
    BY <1>2, <1>8, <2>3, <2>4, <2>6, <2>7 DEF BA!Flush
  <2>9. /\ BatcherType(e) /\ e.queue = z /\ e.batch = q /\ e.done = d /\ e.added = n /\ e.failed = f
        /\ e.missed = m /\ e.promise = p /\ e.timer = 0 /\ e.fired = FALSE
        /\ e.processing = TRUE /\ e.owner = i
    BY <1>2, <2>5, <2>6, <2>7 DEF BatcherType
  <2>10. ItemsExact(e, w, n)
    <3>1. Run(z, n, n)
      BY <1>2, <2>6, RunEmpty
    <3> QED
      BY <1>2, <1>3, <2>1, <2>9, <3>1 DEF ItemsExact
  <2>11. PromisesExact(p, w, f, m)
    BY <1>1, <1>2, <2>1, <2>3 DEF PromisesExact
  <2>12. WaitsExact(e, n)
    BY <1>2, <2>9 DEF WaitsExact
  <2> QED
    <3>1. Batched(e, w, n)
      BY <2>9, <2>10, <2>11 DEF Batched
    <3> QED
      BY <2>8, <2>12, <3>1 DEF BatcherExact
<1> QED
  BY <1>2, <1>7, <1>8

\* A batcher that is new.
LEMMA BatcherStarts ==
  ASSUME BA!BatchLimitAssumption, BA!BatcherInit
  PROVE  BatcherExact(bat)
<1>1. Items \in Nat
  BY DEF BA!BatchLimitAssumption
<1>2. PICK z \in Seq(Nat) : z = <<>>
  BY EmptySeq
<1>3. PICK p : p = [i \in 1..Items |-> "none"]
  OBVIOUS
<1>4. p \in [1..Items -> Promises] /\ \A i \in 1..Items : p[i] = "none"
  BY <1>3 DEF Promises
<1>5. bat = [queue |-> z, batch |-> z, timer |-> 0, fired |-> FALSE,
             processing |-> FALSE, owner |-> 0, done |-> z, failed |-> {},
             added |-> 0, promise |-> p, missed |-> {}]
  BY <1>2, <1>3 DEF BA!BatcherInit
<1>6. /\ BatcherType(bat) /\ bat.queue = z /\ bat.batch = z /\ bat.done = z /\ bat.added = 0
      /\ bat.promise = p /\ bat.timer = 0 /\ bat.fired = FALSE /\ bat.processing = FALSE
      /\ bat.owner = 0
  BY <1>2, <1>4, <1>5 DEF BatcherType
<1>7. Run(z, 0, 0)
  BY <1>2, RunEmpty
<1>8. ItemsExact(bat, 0, 0)
  BY <1>1, <1>6, <1>7 DEF ItemsExact
<1>9. PromisesExact(p, 0, bat.failed, bat.missed)
  BY <1>4 DEF PromisesExact
<1>10. WaitsExact(bat, 0)
  BY <1>6 DEF WaitsExact
<1> QED
  BY <1>6, <1>8, <1>9, <1>10 DEF BatcherExact, Batched

\* An item is added.
LEMMA AddKeeps ==
  ASSUME BA!BatchLimitAssumption, BatcherExact(bat), BA!Add
  PROVE  BatcherExact(bat')
<1>1. PICK x, w : Batched(bat, x, w) /\ WaitsExact(bat, w)
  BY DEF BatcherExact
<1>2. /\ BatcherType(bat) /\ ItemsExact(bat, x, w)
      /\ PromisesExact(bat.promise, x, bat.failed, bat.missed)
  BY <1>1 DEF Batched
<1>3. PICK q \in Seq(Nat), n \in Nat, p \in [1..Items -> Promises] :
        q = bat.queue /\ n = bat.added /\ p = bat.promise
  BY <1>2 DEF BatcherType
<1>4. /\ x \in Nat /\ w \in Nat /\ n <= Items
      /\ Run(bat.done, 0, x) /\ Run(bat.batch, x, w) /\ Run(q, w, n)
      /\ bat.timer # 0 => w < bat.timer /\ bat.timer <= n
      /\ bat.timer = 0 => bat.fired = FALSE
      /\ x # w => bat.processing = TRUE
      /\ x = w => bat.processing = FALSE
      /\ x # w /\ bat.owner # 0 => x < bat.owner /\ bat.owner <= w
  BY <1>2, <1>3 DEF ItemsExact
<1>5. w <= n
  <2>1. RunHolds(q, w, n)
    BY <1>3, <1>4, RunElements
  <2> QED
    BY <2>1 DEF RunHolds
<1>6. PICK i \in Nat : i = n + 1
  BY <1>3
<1>7. PICK r : r = Append(q, i)
  OBVIOUS
<1>8. Run(r, w, i) /\ r \in Seq(Nat)
  <2>1. Run(r, w, i)
    BY <1>3, <1>4, <1>6, <1>7, RunAppend
  <2> QED
    BY <2>1 DEF Run
<1>9. PICK b : b = [bat EXCEPT !.added = i, !.queue = r]
  OBVIOUS
<1>10. /\ BatcherType(b) /\ b.queue = r /\ b.added = i /\ b.batch = bat.batch /\ b.done = bat.done
       /\ b.failed = bat.failed /\ b.missed = bat.missed /\ b.promise = p /\ b.timer = bat.timer
       /\ b.fired = bat.fired /\ b.processing = bat.processing /\ b.owner = bat.owner
  BY <1>2, <1>3, <1>8, <1>9 DEF BatcherType
<1>11. /\ i <= Items
       /\ bat' = IF Len(b.queue) >= BatchLimit THEN BA!Flush(b, i)
                 ELSE IF b.timer # 0 THEN b
                 ELSE [b EXCEPT !.timer = i, !.promise[i] = "timer"]
  BY <1>3, <1>6, <1>7, <1>9 DEF BA!Add
<1>12. Batched(b, x, w)
  <2>1. ItemsExact(b, x, w)
    <3>1. bat.timer # 0 => bat.timer <= i
      <4>1. bat.timer \in Nat
        BY <1>2 DEF BatcherType
      <4> QED
        BY <1>4, <1>6, <4>1
    <3> QED
      BY <1>4, <1>8, <1>10, <1>11, <3>1 DEF ItemsExact
  <2> QED
    BY <1>2, <1>3, <1>10, <2>1 DEF Batched
<1>13. CASE Len(b.queue) >= BatchLimit
  <2>1. bat' = BA!Flush(b, i)
    BY <1>11, <1>13
  <2>2. w < i /\ i <= b.added
    BY <1>4, <1>5, <1>6, <1>10
  <2> QED
    BY <1>12, <2>1, <2>2, FlushKeeps
<1>14. CASE ~(Len(b.queue) >= BatchLimit) /\ b.timer # 0
  <2>1. bat' = b
    BY <1>11, <1>14
  <2>2. WaitsExact(b, w)
    <3>1. bat.timer # 0 /\ w < n
      <4>1. bat.timer \in Nat /\ bat.timer # 0
        BY <1>2, <1>10, <1>14 DEF BatcherType
      <4> QED
        BY <1>4, <4>1
    <3>2. bat.fired = FALSE \/ w + 1 \in bat.missed
      BY <1>1, <1>3, <3>1 DEF WaitsExact
    <3> QED
      BY <1>10, <3>1, <3>2 DEF WaitsExact
  <2> QED
    BY <1>12, <2>1, <2>2 DEF BatcherExact
<1>15. CASE ~(Len(b.queue) >= BatchLimit) /\ b.timer = 0
  <2>1. PICK u : u = [p EXCEPT ![i] = "timer"]
    OBVIOUS
  <2>2. u \in [1..Items -> Promises] /\ \A j \in 1..Items : u[j] = IF j = i THEN "timer" ELSE p[j]
    BY <1>3, <2>1 DEF Promises
  <2>3. PICK e : e = [b EXCEPT !.timer = i, !.promise = u]
    OBVIOUS
  <2>4. bat' = e
    <3>1. PICK g : g = [b EXCEPT !.timer = i]
      OBVIOUS
    <3>2. g.promise = p
      BY <1>10, <3>1 DEF BatcherType
    <3>3. bat' = [g EXCEPT !.promise[i] = "timer"]
      BY <1>11, <1>15, <3>1
    <3>4. e = [g EXCEPT !.promise = u]
      BY <2>3, <3>1
    <3> QED
      BY <2>1, <3>2, <3>3, <3>4
  <2>5. /\ BatcherType(e) /\ e.queue = r /\ e.added = i /\ e.batch = bat.batch /\ e.done = bat.done
        /\ e.failed = bat.failed /\ e.missed = bat.missed /\ e.promise = u /\ e.timer = i
        /\ e.fired = bat.fired /\ e.processing = bat.processing /\ e.owner = bat.owner
    BY <1>10, <2>2, <2>3 DEF BatcherType
  <2>6. w < i /\ i # 0 /\ i <= i
    BY <1>4, <1>5, <1>6
  <2>7. ItemsExact(e, x, w)
    BY <1>4, <1>8, <1>11, <2>5, <2>6 DEF ItemsExact
  <2>8. PromisesExact(u, x, bat.failed, bat.missed)
    BY <1>2, <1>3, <2>2 DEF PromisesExact
  <2>9. WaitsExact(e, w)
    BY <1>4, <1>10, <1>15, <2>5, <2>6 DEF WaitsExact
  <2> QED
    BY <2>4, <2>5, <2>7, <2>8, <2>9 DEF BatcherExact, Batched
<1> QED
  BY <1>13, <1>14, <1>15

\* The timer fires.
LEMMA BatchTimerKeeps ==
  ASSUME BA!BatchLimitAssumption, BatcherExact(bat), BA!TimerFires
  PROVE  BatcherExact(bat')
<1>1. PICK x, w : Batched(bat, x, w)
  BY DEF BatcherExact
<1>2. /\ BatcherType(bat) /\ ItemsExact(bat, x, w)
      /\ PromisesExact(bat.promise, x, bat.failed, bat.missed)
  BY <1>1 DEF Batched
<1>3. PICK i \in Nat : i = bat.timer
  BY <1>2 DEF BatcherType
<1>4. i # 0 /\ w < i /\ i <= bat.added
  BY <1>2, <1>3 DEF BA!TimerFires, ItemsExact
<1>5. PICK b : b = [bat EXCEPT !.fired = TRUE]
  OBVIOUS
<1>6. /\ BatcherType(b) /\ b.queue = bat.queue /\ b.added = bat.added /\ b.batch = bat.batch
      /\ b.done = bat.done /\ b.failed = bat.failed /\ b.missed = bat.missed
      /\ b.promise = bat.promise /\ b.timer = bat.timer
      /\ b.processing = bat.processing /\ b.owner = bat.owner
  BY <1>2, <1>5 DEF BatcherType
<1>7. ItemsExact(b, x, w)
  BY <1>2, <1>3, <1>4, <1>6 DEF ItemsExact
<1>8. Batched(b, x, w)
  BY <1>2, <1>6, <1>7 DEF Batched
<1>9. bat' = BA!Flush(b, i)
  BY <1>3, <1>5 DEF BA!TimerFires
<1> QED
  BY <1>4, <1>6, <1>8, <1>9, FlushKeeps

\* The application flushes or closes.
LEMMA BatchCloseKeeps ==
  ASSUME BA!BatchLimitAssumption, BatcherExact(bat), BA!Close
  PROVE  BatcherExact(bat')
<1>1. PICK x, w : Batched(bat, x, w)
  BY DEF BatcherExact
<1> QED
  BY <1>1, FlushKeeps DEF BA!Close

\* The processor settles.
LEMMA ProcessorKeeps ==
  ASSUME BA!BatchLimitAssumption, BatcherExact(bat), NEW ok \in BOOLEAN, BA!ProcessorSettles(ok)
  PROVE  BatcherExact(bat')
<1>1. PICK x, w : Batched(bat, x, w) /\ WaitsExact(bat, w)
  BY DEF BatcherExact
<1>2. /\ BatcherType(bat) /\ ItemsExact(bat, x, w)
      /\ PromisesExact(bat.promise, x, bat.failed, bat.missed)
  BY <1>1 DEF Batched
<1>3. PICK d \in Seq(Nat), g \in Seq(Nat), f \in SUBSET Nat, n \in Nat, i \in Nat :
        d = bat.done /\ g = bat.batch /\ f = bat.failed /\ n = bat.added /\ i = bat.owner
  BY <1>2 DEF BatcherType
<1>4. /\ x \in Nat /\ w \in Nat /\ n <= Items
      /\ Run(d, 0, x) /\ Run(g, x, w) /\ Run(bat.queue, w, n)
      /\ bat.timer # 0 => w < bat.timer /\ bat.timer <= n
      /\ bat.timer = 0 => bat.fired = FALSE
      /\ x # w /\ (i # 0 => x < i /\ i <= w)
  BY <1>2, <1>3 DEF ItemsExact, BA!ProcessorSettles
<1>5. /\ RunHolds(g, x, w) /\ RunHolds(bat.queue, w, n)
  BY <1>3, <1>4, RunElements
<1>6. x <= w /\ w <= n /\ BA!Range(g) = {j \in Nat : x < j /\ j <= w}
  BY <1>5 DEF RunHolds
<1>7. i <= Items
  BY <1>3, <1>4, <1>6 DEF BA!BatchLimitAssumption
<1>8. PICK s \in {"ok", "failed"} : s = IF ok THEN "ok" ELSE "failed"
  OBVIOUS
<1>9. PICK p : PromiseIs(bat, i, s, p)
  BY <1>2, <1>7, <1>8, ItemPromised DEF Promises
<1>10. /\ p \in [1..Items -> Promises] /\ BA!Settled(bat, i, s) = [bat EXCEPT !.promise = p]
       /\ \A j \in 1..Items : p[j] = IF j = i THEN s ELSE bat.promise[j]
  BY <1>9 DEF PromiseIs
<1>11. PICK c : c = [bat EXCEPT !.promise = p]
  OBVIOUS
<1>12. /\ BatcherType(c) /\ c.promise = p /\ c.missed = bat.missed /\ c.added = n /\ c.done = d
       /\ c.failed = f /\ c.queue = bat.queue /\ c.timer = bat.timer /\ c.fired = bat.fired
  BY <1>2, <1>3, <1>10, <1>11 DEF BatcherType
<1>13. PICK z \in Seq(Nat) : z = <<>>
  BY EmptySeq
<1>14. PICK h, k : h = d \o g /\ k = IF ok THEN f ELSE f \union BA!Range(g)
  OBVIOUS
<1>15. Run(h, 0, w) /\ h \in Seq(Nat)
  <2>1. Run(h, 0, w)
    BY <1>4, <1>14, RunConcat
  <2> QED
    BY <2>1 DEF Run
<1>16. k \in SUBSET Nat /\ f \subseteq k /\ (~ok => \A j \in Nat : x < j /\ j <= w => j \in k)
  BY <1>6, <1>14
<1>17. PICK e : e = [c EXCEPT !.processing = FALSE, !.batch = z, !.done = h, !.failed = k]
  OBVIOUS
<1>18. bat' = e
  BY <1>3, <1>8, <1>10, <1>11, <1>12, <1>13, <1>14, <1>17 DEF BA!ProcessorSettles
<1>19. /\ BatcherType(e) /\ e.queue = bat.queue /\ e.batch = z /\ e.done = h /\ e.added = n
       /\ e.failed = k /\ e.missed = bat.missed /\ e.promise = p /\ e.timer = bat.timer
       /\ e.fired = bat.fired /\ e.processing = FALSE
  BY <1>12, <1>13, <1>15, <1>16, <1>17 DEF BatcherType
<1>20. ItemsExact(e, w, w)
  <2>1. Run(z, w, w)
    BY <1>4, <1>13, RunEmpty
  <2> QED
    BY <1>4, <1>15, <1>19, <2>1 DEF ItemsExact
<1>21. PromisesExact(p, w, k, bat.missed)
  <2>1. ASSUME NEW j \in 1..Items, p[j] = "failed" PROVE j \in k
    <3>1. CASE j = i
      BY <1>4, <1>8, <1>10, <1>16, <2>1, <3>1
    <3>2. CASE j # i
      BY <1>2, <1>3, <1>10, <1>16, <2>1, <3>2 DEF PromisesExact
    <3> QED
      BY <3>1, <3>2
  <2>2. ASSUME NEW j \in 1..Items, p[j] = "ok", w < j PROVE j \in bat.missed
    <3>1. j # i /\ x < j
      BY <1>4, <1>6, <2>2
    <3> QED
      BY <1>2, <1>10, <2>2, <3>1 DEF PromisesExact
  <2> QED
    BY <2>1, <2>2 DEF PromisesExact
<1>22. WaitsExact(e, w)
  BY <1>1, <1>3, <1>19 DEF WaitsExact
<1> QED
  BY <1>18, <1>19, <1>20, <1>21, <1>22 DEF BatcherExact, Batched

\* BatcherExact is an invariant.
LEMMA BatcherInvariant ==
  ASSUME BA!BatchLimitAssumption
  PROVE  /\ BA!BatcherInit => BatcherExact(bat)
         /\ BatcherExact(bat) /\ [BA!BatcherNext]_bat => BatcherExact(bat')
<1>1. BA!BatcherInit => BatcherExact(bat)
  BY BatcherStarts
<1>2. ASSUME BatcherExact(bat), BA!BatcherNext PROVE BatcherExact(bat')
  BY <1>2, AddKeeps, BatchTimerKeeps, BatchCloseKeeps, ProcessorKeeps DEF BA!BatcherNext
<1>3. ASSUME BatcherExact(bat), UNCHANGED bat PROVE BatcherExact(bat')
  BY <1>3
<1> QED
  BY <1>1, <1>2, <1>3

\* An exact batcher has its properties.
LEMMA BatcherExactGives ==
  ASSUME BA!BatchLimitAssumption, BatcherExact(bat)
  PROVE  BA!NothingLost /\ BA!StrandedOnlyIfMissed /\ BA!HonestPromises
<1>1. PICK x, w : Batched(bat, x, w) /\ WaitsExact(bat, w)
  BY DEF BatcherExact
<1>2. /\ BatcherType(bat) /\ ItemsExact(bat, x, w)
      /\ PromisesExact(bat.promise, x, bat.failed, bat.missed)
  BY <1>1 DEF Batched
<1>3. PICK q \in Seq(Nat), d \in Seq(Nat), g \in Seq(Nat), n \in Nat :
        q = bat.queue /\ d = bat.done /\ g = bat.batch /\ n = bat.added
  BY <1>2 DEF BatcherType
<1>4. /\ x \in Nat /\ w \in Nat /\ n <= Items /\ Run(d, 0, x) /\ Run(g, x, w) /\ Run(q, w, n)
  BY <1>2, <1>3 DEF ItemsExact
<1>5. BA!NothingLost
  <2>1. Run((d \o g) \o q, 0, n)
    <3>1. Run(d \o g, 0, w)
      BY <1>4, RunConcat
    <3> QED
      BY <1>3, <1>4, <3>1, RunConcat
  <2>2. (d \o g) \o q = [i \in 1..n |-> i]
    BY <1>3, <2>1, RunIsIdentity
  <2> QED
    BY <1>3, <2>2 DEF BA!NothingLost
<1>6. RunHolds(q, w, n) /\ RunHolds(d, 0, x)
  BY <1>3, <1>4, RunElements
<1>7. BA!StrandedOnlyIfMissed
  <2>1. ASSUME q # <<>>, ~BA!Armed PROVE Head(q) \in bat.missed
    <3>1. w < n /\ Head(q) = w + 1
      BY <1>3, <1>4, <1>6, <2>1 DEF RunHolds
    <3>2. ~(bat.timer # 0 /\ bat.fired = FALSE)
      BY <2>1 DEF BA!Armed
    <3> QED
      BY <1>1, <1>3, <3>1, <3>2 DEF WaitsExact
  <2> QED
    BY <1>3, <2>1 DEF BA!StrandedOnlyIfMissed
<1>8. BA!HonestPromises
  <2>1. ASSUME NEW i \in 1..n
        PROVE  /\ bat.promise[i] = "failed" => i \in bat.failed
               /\ bat.promise[i] = "ok" /\ i \notin BA!Range(d) => i \in bat.missed
    <3>1. i \in 1..Items /\ i \in Nat /\ 0 < i
      BY <1>3, <1>4 DEF BA!BatchLimitAssumption
    <3>2. i \notin BA!Range(d) => x < i
      BY <1>4, <1>6, <3>1 DEF RunHolds
    <3> QED
      BY <1>2, <3>1, <3>2 DEF PromisesExact
  <2> QED
    BY <1>3, <2>1 DEF BA!HonestPromises
<1> QED
  BY <1>5, <1>7, <1>8

-----------------------------------------------------------------------------
(* LRUCache and memoizeAsync().                                            *)

Flight == [key : Keys, st : {"open", "ok", "failed"}]

LruType(c) ==
  c \in [cache : [Keys -> Nat], access : [Keys -> Nat], counter : Nat, expired : SUBSET Keys,
         pending : [Keys -> Nat], flights : Seq(Flight), recent : Seq(Keys)]

\* The keys of sequence s were used in its order: access a has rising numbers.
Rising(a, s) == \A i, j \in 1..Len(s) : i < j => a[s[i]] < a[s[j]]

\* The access numbers a and the history s are of the keys in cache h, and agree.
Exact(h, a, n, s) ==
  /\ \A k \in Keys : a[k] <= n /\ (a[k] = 0 <=> h[k] = 0)
  /\ \A i \in 1..Len(s) : h[s[i]] # 0
  /\ \A k \in Keys : h[k] # 0 => \E i \in 1..Len(s) : s[i] = k
  /\ Rising(a, s)

CacheExact(c) == Exact(c.cache, c.access, c.counter, c.recent)

\* The call in flight for a key is its last one: p is pendingCache, F the calls.
FlightsExact(p, F) ==
  /\ \A f \in 1..Len(F) : F[f].st = "open" => p[F[f].key] = f
  /\ \A k \in Keys : p[k] # 0 =>
       /\ p[k] \in 1..Len(F) /\ F[p[k]].key = k /\ F[p[k]].st = "open"
       /\ \A f \in 1..Len(F) : F[f].key = k => f <= p[k]

\* The value of a key in cache h is of its last call that succeeded.
Latest(h, F) ==
  \A k \in Keys : h[k] # 0 =>
    /\ h[k] \in 1..Len(F) /\ F[h[k]].key = k /\ F[h[k]].st = "ok"
    /\ \A f \in 1..Len(F) : F[f].key = k /\ F[f].st = "ok" => f <= h[k]

LruInv(c) ==
  /\ LruType(c) /\ CacheExact(c) /\ Len(c.recent) <= MaxSize
  /\ FlightsExact(c.pending, c.flights) /\ Latest(c.cache, c.flights)

\* A step from c to d that stores a new key drops the first of the history at most.
Evicts(c, d) ==
  \A k, x \in Keys :
    c.cache[k] # 0 /\ d.cache[k] = 0 /\ c.cache[x] = 0 /\ d.cache[x] # 0
      => k = Head(c.recent)

\* Sequence o is what is left of s, of l keys, without key k.
Reduced(a, s, k, o, l) ==
  \E q \in Nat :
    /\ o \in Seq(Keys) /\ Len(o) = q /\ Rising(a, o)
    /\ \A i \in 1..q : o[i] # k /\ \E m \in 1..l : o[i] = s[m]
    /\ \A m \in 1..l : s[m] # k => \E i \in 1..q : o[i] = s[m]
    /\ (\E m \in 1..l : s[m] = k) => q + 1 = l
    /\ (\A m \in 1..l : s[m] # k) => q = l

\* What is left of a rising sequence when a key is taken out of it.
LEMMA OthersRise ==
  ASSUME NEW a \in [Keys -> Nat], NEW s \in Seq(Keys), Rising(a, s), NEW k \in Keys,
         NEW l \in Nat, l = Len(s)
  PROVE  Reduced(a, s, k, RemoveFirst(s, k), l)
<1> DEFINE o == RemoveFirst(s, k)
<1>3. CASE \A m \in 1..l : s[m] # k
  <2>1. o = s
    BY <1>3 DEF RemoveFirst
  <2> QED
    BY <1>3, <2>1 DEF Reduced
<1>4. CASE \E m \in 1..l : s[m] = k
  <2>1. PICK n \in 1..Len(s) : s[n] = k /\ o = RemoveAt(s, n)
    BY <1>4, RemoveFirstPosition
  <2>2. /\ o \in Seq(Keys) /\ Len(o) = Len(s) - 1
        /\ \A j \in 1..Len(s) - 1 : o[j] = IF j < n THEN s[j] ELSE s[j + 1]
    BY <2>1, RemoveAtType, RemoveAtElements
  <2>b. n \in 1..l /\ l - 1 \in Nat
    BY <2>1
  <2>d. Len(o) = l - 1 /\ \A j \in 1..l - 1 : o[j] = IF j < n THEN s[j] ELSE s[j + 1]
    BY <2>2
  <2>c. ASSUME NEW j \in 1..l - 1
        PROVE  /\ j < n => j \in 1..l /\ o[j] = s[j]
               /\ ~(j < n) => j + 1 \in 1..l /\ j + 1 # n /\ o[j] = s[j + 1]
    <3>1. o[j] = IF j < n THEN s[j] ELSE s[j + 1]
      BY <2>d
    <3>2. j \in 1..l /\ j + 1 \in 1..l /\ (~(j < n) => j + 1 # n)
      BY <2>b
    <3> QED
      BY <3>1, <3>2
  <2>3. ASSUME NEW i \in 1..l, NEW j \in 1..l, i < j
        PROVE  a[s[i]] < a[s[j]]
    BY <2>3 DEF Rising
  <2>4. \A i \in 1..l : s[i] \in Keys /\ a[s[i]] \in Nat
    BY ElementOfSeq
  <2>5. \A i, j \in 1..l : i # j => s[i] # s[j]
    <3> SUFFICES ASSUME NEW i \in 1..l, NEW j \in 1..l, i # j PROVE s[i] # s[j]
      OBVIOUS
    <3>1. i < j \/ j < i
      OBVIOUS
    <3>2. a[s[i]] < a[s[j]] \/ a[s[j]] < a[s[i]]
      BY <2>3, <3>1
    <3> QED
      BY <2>4, <3>2
  <2>6. ASSUME NEW i \in 1..l - 1 PROVE o[i] # k /\ \E m \in 1..l : o[i] = s[m]
    <3>1. PICK m \in 1..l : o[i] = s[m] /\ m # n
      <4>1. CASE i < n
        <5>1. i \in 1..l /\ i # n /\ o[i] = s[i]
          BY <2>b, <2>c, <4>1
        <5> QED
          BY <5>1
      <4>2. CASE ~(i < n)
        <5>1. i + 1 \in 1..l /\ i + 1 # n /\ o[i] = s[i + 1]
          BY <2>c, <4>2
        <5> QED
          BY <5>1
      <4> QED
        BY <4>1, <4>2
    <3>2. s[m] # s[n]
      BY <2>5, <2>b, <3>1
    <3> QED
      BY <2>1, <3>1, <3>2
  <2>7. ASSUME NEW m \in 1..l, s[m] # k PROVE \E i \in 1..l - 1 : o[i] = s[m]
    <3>1. CASE m < n
      <4>1. m \in 1..l - 1
        BY <2>b, <3>1
      <4> QED
        BY <2>c, <3>1, <4>1
    <3>2. CASE m > n
      <4>1. m - 1 \in 1..l - 1 /\ ~(m - 1 < n) /\ (m - 1) + 1 = m
        BY <2>b, <3>2
      <4> QED
        BY <2>c, <4>1
    <3>3. m # n
      BY <2>1, <2>7
    <3>4. m < n \/ m > n
      BY <2>b, <3>3
    <3> QED
      BY <3>1, <3>2, <3>4
  <2>8. ASSUME NEW i \in 1..l - 1, NEW j \in 1..l - 1, i < j
        PROVE  a[o[i]] < a[o[j]]
    <3>1. CASE j < n
      <4>1. i < n
        BY <2>8, <2>b, <3>1
      <4>2. /\ i \in 1..l /\ o[i] = s[i]
            /\ j \in 1..l /\ o[j] = s[j]
        BY <2>c, <3>1, <4>1
      <4> QED
        BY <2>3, <2>8, <4>2
    <3>2. CASE ~(j < n)
      <4>1. j + 1 \in 1..l /\ o[j] = s[j + 1]
        BY <2>c, <3>2
      <4>2. CASE i < n
        <5>1. i \in 1..l /\ o[i] = s[i]
          BY <2>c, <4>2
        <5>2. i < j + 1
          BY <2>8, <2>b
        <5>3. a[s[i]] < a[s[j + 1]]
          BY <2>3, <4>1, <5>1, <5>2
        <5> QED
          BY <4>1, <5>1, <5>3
      <4>3. CASE ~(i < n)
        <5>1. i + 1 \in 1..l /\ o[i] = s[i + 1]
          BY <2>c, <4>3
        <5>2. i + 1 < j + 1
          BY <2>8, <2>b
        <5>3. a[s[i + 1]] < a[s[j + 1]]
          BY <2>3, <4>1, <5>1, <5>2
        <5> QED
          BY <4>1, <5>1, <5>3
      <4> QED
        BY <4>2, <4>3
    <3> QED
      BY <3>1, <3>2
  <2>9. Rising(a, o)
    BY <2>8, <2>d DEF Rising
  <2>10. (l - 1) + 1 = l
    OBVIOUS
  <2> HIDE DEF o
  <2>11. ~\A m \in 1..l : s[m] # k
    BY <1>4
  <2> QED
    BY <2>2, <2>6, <2>7, <2>9, <2>10, <2>11, <2>b, <2>d DEF Reduced, o
<1> QED
  BY <1>3, <1>4

\* Others(): the operator of the instance is the library's.
LEMMA OthersAre ==
  ASSUME NEW c, NEW k
  PROVE  LRU!Others(c, k) = RemoveFirst(c.recent, k)
BY DEF LRU!Others, LRU!RemoveFirst, LRU!RemoveAt, LRU!SelectInSeq, LRU!Min, RemoveFirst,
       RemoveAt, SelectInSeq, Min

\* The history has as many keys as the cache.
LEMMA HistoryLength ==
  ASSUME NEW h \in [Keys -> Nat], NEW a \in [Keys -> Nat], NEW n \in Nat,
         NEW s \in Seq(Keys), Exact(h, a, n, s)
  PROVE  Cardinality({k \in Keys : h[k] # 0}) = Len(s)
<1> DEFINE K == {k \in Keys : h[k] # 0}
           f == [i \in 1..Len(s) |-> s[i]]
<1>1. Len(s) \in Nat
  BY LenProperties
<1>2. \A i \in 1..Len(s) : s[i] \in K /\ s[i] \in Keys /\ a[s[i]] \in Nat
  BY ElementOfSeq DEF Exact
<1>3. \A k \in K : \E i \in 1..Len(s) : s[i] = k
  BY DEF Exact
<1>4. \A i, j \in 1..Len(s) : s[i] = s[j] => i = j
  <2> SUFFICES ASSUME NEW i \in 1..Len(s), NEW j \in 1..Len(s), i # j PROVE s[i] # s[j]
    OBVIOUS
  <2>1. i < j \/ j < i
    BY <1>1
  <2>2. a[s[i]] < a[s[j]] \/ a[s[j]] < a[s[i]]
    BY <2>1 DEF Exact, Rising
  <2> QED
    BY <1>2, <2>2
<1> HIDE DEF K
<1>5. f \in [1..Len(s) -> K]
  BY <1>2
<1>6. \A i \in 1..Len(s) : f[i] = s[i]
  OBVIOUS
<1>7. DOMAIN f = 1..Len(s)
  OBVIOUS
<1> HIDE DEF f
<1>8. IsInjective(f)
  BY <1>4, <1>6, <1>7 DEF IsInjective
<1>9. \A k \in K : \E i \in 1..Len(s) : f[i] = k
  BY <1>3, <1>6
<1>10. f \in Bijection(1..Len(s), K)
  BY <1>5, <1>8, <1>9 DEF Bijection, Injection, Surjection
<1>11. ExistsBijection(1..Len(s), K)
  BY <1>10 DEF ExistsBijection
<1> QED
  BY <1>1, <1>11, FS_CountingElements DEF K

\* The number of entries is the length of the history.
LEMMA SizeIsLength ==
  ASSUME NEW c, LruType(c), CacheExact(c)
  PROVE  LRU!Size(c) = Len(c.recent)
<1>1. Cardinality({k \in Keys : c.cache[k] # 0}) = Len(c.recent)
  BY HistoryLength DEF LruType, CacheExact
<1>2. LRU!Size(c) = Cardinality({k \in Keys : c.cache[k] # 0})
  BY DEF LRU!Size, LRU!Has, LRU!Cardinality, LRU!IsFiniteSet, Cardinality, IsFiniteSet
<1> QED
  BY <1>1, <1>2

\* The key with the least access number is the first of the history.
LEMMA FirstIsOldest ==
  ASSUME NEW h \in [Keys -> Nat], NEW a \in [Keys -> Nat], NEW n \in Nat,
         NEW s \in Seq(Keys), Exact(h, a, n, s), s # <<>>
  PROVE  /\ s[1] \in Keys /\ h[s[1]] # 0 /\ a[s[1]] # 0
         /\ \A x \in Keys : a[x] # 0 => (x = s[1] \/ a[s[1]] < a[x])
<1>1. Len(s) \in Nat \ {0}
  BY LenProperties, EmptySeq
<1>2. \A i \in 1..Len(s) : s[i] \in Keys /\ h[s[i]] # 0
  BY ElementOfSeq DEF Exact
<1>3. 1 \in 1..Len(s)
  BY <1>1
<1>4. s[1] \in Keys /\ h[s[1]] # 0
  BY <1>2, <1>3
<1>5. a[s[1]] # 0
  BY <1>4 DEF Exact
<1>6. ASSUME NEW x \in Keys, a[x] # 0 PROVE x = s[1] \/ a[s[1]] < a[x]
  <2>0. h[x] # 0
    BY <1>6 DEF Exact
  <2>1. PICK i \in 1..Len(s) : s[i] = x
    BY <2>0 DEF Exact
  <2>2. CASE i = 1
    BY <2>1, <2>2
  <2>3. CASE i # 1
    <3>1. 1 < i
      BY <1>1, <2>3
    <3>2. a[s[1]] < a[s[i]]
      BY <1>3, <3>1 DEF Exact, Rising
    <3> QED
      BY <2>1, <3>2
  <2> QED
    BY <2>2, <2>3
<1> QED
  BY <1>4, <1>5, <1>6

\* The entry that is evicted is the first of the history.
LEMMA OldestIsFirst ==
  ASSUME NEW c, LruType(c), CacheExact(c), c.recent # <<>>
  PROVE  /\ LRU!Lru(c) = Head(c.recent) /\ Head(c.recent) \in Keys
         /\ c.cache[Head(c.recent)] # 0
<1>1. PICK s : s = c.recent
  OBVIOUS
<1>2. PICK a : a = c.access
  OBVIOUS
<1>3. /\ s \in Seq(Keys) /\ a \in [Keys -> Nat] /\ c.cache \in [Keys -> Nat] /\ c.counter \in Nat
      /\ Exact(c.cache, a, c.counter, s) /\ s # <<>>
  BY <1>1, <1>2 DEF LruType, CacheExact
<1>4. /\ s[1] \in Keys /\ c.cache[s[1]] # 0 /\ a[s[1]] # 0
      /\ \A x \in Keys : a[x] # 0 => (x = s[1] \/ a[s[1]] < a[x])
  BY <1>3, FirstIsOldest
<1>5. a[s[1]] # 0 /\ \A x \in Keys : a[x] # 0 => a[s[1]] <= a[x]
  <2> SUFFICES ASSUME NEW x \in Keys, a[x] # 0 PROVE a[s[1]] <= a[x]
    BY <1>4
  <2>1. a[x] \in Nat /\ a[s[1]] \in Nat
    BY <1>3, <1>4
  <2>2. x = s[1] \/ a[s[1]] < a[x]
    BY <1>4
  <2> QED
    BY <2>1, <2>2
<1>6. ASSUME NEW k \in Keys, a[k] # 0, \A x \in Keys : a[x] # 0 => a[k] <= a[x]
      PROVE  k = s[1]
  <2>1. a[k] <= a[s[1]]
    BY <1>4, <1>6
  <2>2. k = s[1] \/ a[s[1]] < a[k]
    BY <1>4, <1>6
  <2>3. a[k] \in Nat /\ a[s[1]] \in Nat
    BY <1>3, <1>4
  <2> QED
    BY <2>1, <2>2, <2>3
<1>7. LRU!Lru(c) = CHOOSE k \in Keys : a[k] # 0 /\ \A x \in Keys : a[x] # 0 => a[k] <= a[x]
  BY <1>2 DEF LRU!Lru
<1>8. LRU!Lru(c) = s[1]
  BY <1>4, <1>5, <1>6, <1>7
<1>9. Head(s) = s[1]
  BY <1>3, HeadTailProperties, EmptySeq
<1> QED
  BY <1>1, <1>4, <1>8, <1>9

\* Cache g, order b and history o are h, a and s, of l keys, without key k.
Without(h, a, n, s, k, l, g, b, o) ==
  \E q \in Nat : /\ o \in Seq(Keys) /\ Len(o) = q /\ Exact(g, b, n, o)
                 /\ h[k] = 0 => q = l
                 /\ h[k] # 0 => q + 1 = l

\* A key is taken out of the cache, the access order and the history.
LEMMA ExactWithout ==
  ASSUME NEW h \in [Keys -> Nat], NEW a \in [Keys -> Nat], NEW n \in Nat,
         NEW s \in Seq(Keys), Exact(h, a, n, s), NEW k \in Keys, NEW l \in Nat, l = Len(s),
         NEW g, NEW b, g[k] = 0, b[k] = 0,
         \A x \in Keys : x # k => b[x] = a[x] /\ g[x] = h[x]
  PROVE  Without(h, a, n, s, k, l, g, b, RemoveFirst(s, k))
<1>1. PICK o : o = RemoveFirst(s, k)
  OBVIOUS
<1>2. Reduced(a, s, k, o, l)
  BY <1>1, OthersRise DEF Exact
<1>3. PICK q \in Nat :
      /\ o \in Seq(Keys) /\ Len(o) = q /\ Rising(a, o)
      /\ \A i \in 1..q : o[i] # k /\ \E m \in 1..l : o[i] = s[m]
      /\ \A m \in 1..l : s[m] # k => \E i \in 1..q : o[i] = s[m]
      /\ (\E m \in 1..l : s[m] = k) => q + 1 = l
      /\ (\A m \in 1..l : s[m] # k) => q = l
  BY <1>2 DEF Reduced
<1>4. \A x \in Keys : a[x] <= n /\ (a[x] = 0 <=> h[x] = 0)
  BY DEF Exact
<1>5. \A i \in 1..l : h[s[i]] # 0
  BY DEF Exact
<1>6. \A x \in Keys : h[x] # 0 => \E i \in 1..l : s[i] = x
  BY DEF Exact
<1>7. ASSUME NEW x \in Keys PROVE b[x] <= n /\ (b[x] = 0 <=> g[x] = 0)
  <2>1. CASE x = k
    <3>1. b[x] = 0 /\ g[x] = 0
      BY <2>1
    <3> QED
      BY <3>1
  <2>2. CASE x # k
    <3>1. b[x] = a[x] /\ g[x] = h[x]
      BY <2>2
    <3> QED
      BY <1>4, <3>1
  <2> QED
    BY <2>1, <2>2
<1>8. \A i \in 1..q : g[o[i]] # 0 /\ b[o[i]] = a[o[i]]
  <2> SUFFICES ASSUME NEW i \in 1..q PROVE g[o[i]] # 0 /\ b[o[i]] = a[o[i]]
    OBVIOUS
  <2>1. o[i] \in Keys /\ o[i] # k
    BY <1>3, ElementOfSeq
  <2>2. PICK m \in 1..l : o[i] = s[m]
    BY <1>3
  <2>3. h[o[i]] # 0
    BY <1>5, <2>2
  <2> QED
    BY <2>1, <2>3
<1>9. ASSUME NEW x \in Keys, g[x] # 0 PROVE \E i \in 1..q : o[i] = x
  <2>1. x # k /\ h[x] # 0
    BY <1>9
  <2>2. PICK m \in 1..l : s[m] = x
    BY <1>6, <2>1
  <2> QED
    BY <1>3, <2>1, <2>2
<1>10. Rising(b, o)
  BY <1>3, <1>8 DEF Rising
<1>11. Exact(g, b, n, o)
  BY <1>3, <1>7, <1>8, <1>9, <1>10 DEF Exact
<1>12. CASE h[k] = 0
  <2>1. \A m \in 1..l : s[m] # k
    BY <1>5, <1>12
  <2> QED
    BY <1>1, <1>3, <1>11, <1>12, <2>1 DEF Without
<1>13. CASE h[k] # 0
  <2>1. \E m \in 1..l : s[m] = k
    BY <1>6, <1>13
  <2> QED
    BY <1>1, <1>3, <1>11, <1>13, <2>1 DEF Without
<1> QED
  BY <1>12, <1>13

\* Cache g, order b and history q are h, a and s, of p keys, with value v of key k.
With(h, a, n, s, k, v, p, g, b, q) ==
  \E w \in Nat : /\ q \in Seq(Keys) /\ Len(q) = w /\ Exact(g, b, n + 1, q)
                 /\ h[k] = 0 => w = p + 1
                 /\ h[k] # 0 => w = p

\* A key is given value v and the next access number.
LEMMA ExactWith ==
  ASSUME NEW h \in [Keys -> Nat], NEW a \in [Keys -> Nat], NEW n \in Nat,
         NEW s \in Seq(Keys), Exact(h, a, n, s), NEW k \in Keys, NEW v \in Nat \ {0},
         NEW p \in Nat, p = Len(s), NEW g, NEW b, g[k] = v, b[k] = n + 1,
         \A x \in Keys : x # k => b[x] = a[x] /\ g[x] = h[x]
  PROVE  With(h, a, n, s, k, v, p, g, b, Append(RemoveFirst(s, k), k))
<1>1. PICK o : o = RemoveFirst(s, k)
  OBVIOUS
<1>2. PICK d : d = [a EXCEPT ![k] = 0]
  OBVIOUS
<1>3. PICK f : f = [h EXCEPT ![k] = 0]
  OBVIOUS
<1>4. d[k] = 0 /\ f[k] = 0 /\ \A x \in Keys : x # k => d[x] = a[x] /\ f[x] = h[x]
  BY <1>2, <1>3
<1>5. PICK l \in Nat : /\ o \in Seq(Keys) /\ Exact(f, d, n, o) /\ Len(o) = l
                       /\ h[k] = 0 => l = p
                       /\ h[k] # 0 => l + 1 = p
  <2>1. PICK y \in [Keys -> Nat], z \in [Keys -> Nat] : y = f /\ z = d
    BY <1>2, <1>3
  <2>2. Without(h, a, n, s, k, p, f, d, o)
    BY <1>1, <1>4, ExactWithout
  <2> QED
    BY <2>2 DEF Without
<1>7. PICK q : q = Append(o, k)
  OBVIOUS
<1>9. /\ q \in Seq(Keys) /\ Len(q) = l + 1 /\ q[l + 1] = k
      /\ \A i \in 1..l : q[i] = o[i]
  BY <1>5, <1>7, AppendProperties
<1>10. /\ b[k] = n + 1 /\ g[k] = v /\ d[k] = 0 /\ f[k] = 0
       /\ \A x \in Keys : x # k => b[x] = d[x] /\ g[x] = f[x]
  BY <1>4
<1>11. /\ \A x \in Keys : d[x] <= n /\ (d[x] = 0 <=> f[x] = 0)
       /\ \A x \in Keys : f[x] # 0 => \E i \in 1..l : o[i] = x
       /\ Rising(d, o)
  BY <1>5 DEF Exact
<1>12. \A i \in 1..l : f[o[i]] # 0 /\ o[i] \in Keys
  BY <1>5, ElementOfSeq DEF Exact
<1>13. \A i \in 1..l : o[i] # k /\ g[o[i]] # 0 /\ b[o[i]] = d[o[i]] /\ d[o[i]] <= n
  BY <1>10, <1>11, <1>12
<1>14. \A x \in Keys : d[x] \in Nat
  BY <1>2
<1>15. \A x \in Keys : b[x] <= n + 1 /\ (b[x] = 0 <=> g[x] = 0)
  <2> SUFFICES ASSUME NEW x \in Keys PROVE b[x] <= n + 1 /\ (b[x] = 0 <=> g[x] = 0)
    OBVIOUS
  <2>1. CASE x = k
    BY <1>10, <2>1
  <2>2. CASE x # k
    <3>1. d[x] \in Nat /\ d[x] <= n /\ b[x] = d[x] /\ g[x] = f[x] /\ (d[x] = 0 <=> f[x] = 0)
      BY <1>10, <1>11, <1>14, <2>2
    <3> QED
      BY <3>1
  <2> QED
    BY <2>1, <2>2
<1>16. ASSUME NEW i \in 1..l + 1 PROVE g[q[i]] # 0
  <2>1. CASE i = l + 1
    BY <1>9, <1>10, <2>1
  <2>2. CASE i # l + 1
    <3>1. i \in 1..l
      BY <2>2
    <3> QED
      BY <1>9, <1>13, <3>1
  <2> QED
    BY <2>1, <2>2
<1>17. ASSUME NEW x \in Keys, g[x] # 0 PROVE \E i \in 1..l + 1 : q[i] = x
  <2>1. CASE x = k
    <3>1. l + 1 \in 1..l + 1
      OBVIOUS
    <3> QED
      BY <1>9, <2>1, <3>1
  <2>2. CASE x # k
    <3>1. f[x] # 0
      BY <1>10, <1>17, <2>2
    <3>2. PICK i \in 1..l : o[i] = x
      BY <1>11, <3>1
    <3>3. i \in 1..l + 1
      OBVIOUS
    <3>4. q[i] = x
      BY <1>9, <3>2
    <3> QED
      BY <3>3, <3>4
  <2> QED
    BY <2>1, <2>2
<1>18. ASSUME NEW i \in 1..l + 1, NEW j \in 1..l + 1, i < j PROVE b[q[i]] < b[q[j]]
  <2>1. i \in 1..l
    BY <1>18
  <2>2. q[i] = o[i] /\ b[q[i]] = d[o[i]] /\ d[o[i]] <= n /\ d[o[i]] \in Nat
    BY <1>9, <1>12, <1>13, <1>14, <2>1
  <2>3. CASE j = l + 1
    <3>1. b[q[j]] = n + 1
      BY <1>9, <1>10, <2>3
    <3> QED
      BY <2>2, <3>1
  <2>4. CASE j # l + 1
    <3>1. j \in 1..l
      BY <2>4
    <3>2. q[j] = o[j] /\ b[q[j]] = d[o[j]]
      BY <1>9, <1>13, <3>1
    <3>3. d[o[i]] < d[o[j]]
      BY <1>5, <1>11, <1>18, <2>1, <3>1 DEF Rising
    <3> QED
      BY <2>2, <3>2, <3>3
  <2> QED
    BY <2>3, <2>4
<1>19. Rising(b, q)
  BY <1>9, <1>18 DEF Rising
<1>20. Exact(g, b, n + 1, q)
  BY <1>9, <1>15, <1>16, <1>17, <1>19 DEF Exact
<1>21. (h[k] = 0 => l + 1 = p + 1) /\ (h[k] # 0 => l + 1 = p)
  BY <1>5
<1> QED
  BY <1>1, <1>7, <1>9, <1>20, <1>21 DEF With

\* Cache d is c without key k.
Deleted(c, k, d) ==
  /\ LruType(d) /\ CacheExact(d) /\ d.cache[k] = 0
  /\ \A x \in Keys : x # k => d.cache[x] = c.cache[x]
  /\ d.pending = c.pending /\ d.flights = c.flights
  /\ c.cache[k] = 0 => Len(d.recent) = Len(c.recent)
  /\ c.cache[k] # 0 => Len(d.recent) + 1 = Len(c.recent)

\* delete().
LEMMA DeleteKeeps ==
  ASSUME NEW c, LruType(c), CacheExact(c), NEW k \in Keys
  PROVE  Deleted(c, k, LRU!Delete(c, k))
<1>1. PICK h \in [Keys -> Nat], a \in [Keys -> Nat], n \in Nat, s \in Seq(Keys) :
        h = c.cache /\ a = c.access /\ n = c.counter /\ s = c.recent
  BY DEF LruType
<1>2. PICK l \in Nat : l = Len(s)
  BY LenProperties
<1>3. PICK g : g = [h EXCEPT ![k] = 0]
  OBVIOUS
<1>4. PICK b : b = [a EXCEPT ![k] = 0]
  OBVIOUS
<1>5. /\ g \in [Keys -> Nat] /\ b \in [Keys -> Nat] /\ g[k] = 0 /\ b[k] = 0
      /\ \A x \in Keys : x # k => b[x] = a[x] /\ g[x] = h[x]
  BY <1>3, <1>4
<1>6. PICK o : o = RemoveFirst(s, k)
  OBVIOUS
<1>7. Exact(h, a, n, s)
  BY <1>1 DEF CacheExact
<1>8. Without(h, a, n, s, k, l, g, b, o)
  BY <1>2, <1>5, <1>6, <1>7, ExactWithout
<1>9. PICK d : d = LRU!Delete(c, k)
  OBVIOUS
<1>10. PICK y \in SUBSET Keys : y = c.expired \ {k}
  BY DEF LruType
<1>11. d = [c EXCEPT !.cache = g, !.access = b, !.expired = y, !.recent = o]
  BY <1>1, <1>3, <1>4, <1>6, <1>9, <1>10, OthersAre DEF LRU!Delete, LruType
<1>12. o \in Seq(Keys)
  BY <1>8 DEF Without
<1>13. /\ LruType(d) /\ d.cache = g /\ d.access = b /\ d.recent = o
       /\ d.counter = n /\ d.pending = c.pending /\ d.flights = c.flights
  BY <1>1, <1>5, <1>11, <1>12 DEF LruType
<1>14. /\ h[k] = 0 => Len(o) = l
       /\ h[k] # 0 => Len(o) + 1 = l
  BY <1>8 DEF Without
<1>15. CacheExact(d)
  BY <1>8, <1>13 DEF CacheExact, Without
<1>16. Deleted(c, k, d)
  <2>1. d.cache[k] = 0 /\ \A x \in Keys : x # k => d.cache[x] = c.cache[x]
    BY <1>1, <1>5, <1>13
  <2>2. c.cache[k] = 0 => Len(d.recent) = Len(c.recent)
    BY <1>1, <1>2, <1>13, <1>14
  <2>3. c.cache[k] # 0 => Len(d.recent) + 1 = Len(c.recent)
    BY <1>1, <1>2, <1>13, <1>14
  <2> QED
    BY <1>13, <1>15, <2>1, <2>2, <2>3 DEF Deleted
<1> QED
  BY <1>9, <1>16

\* Cache m is c with value v of key k in it, and the key is not yet touched.
Stores(c, m, k, v) ==
  /\ LruType(c) /\ CacheExact(c) /\ LruType(m) /\ m.cache[k] = v
  /\ \A x \in Keys : x # k => m.cache[x] = c.cache[x]
  /\ m.access = c.access /\ m.counter = c.counter /\ m.recent = c.recent
  /\ m.pending = c.pending /\ m.flights = c.flights

Stored(c, k, v, e) ==
  /\ LruType(e) /\ CacheExact(e) /\ e.cache[k] = v
  /\ \A x \in Keys : x # k => e.cache[x] = c.cache[x]
  /\ e.pending = c.pending /\ e.flights = c.flights
  /\ c.cache[k] = 0 => Len(e.recent) = Len(c.recent) + 1
  /\ c.cache[k] # 0 => Len(e.recent) = Len(c.recent)

\* An access to a key with a new value.
LEMMA StoreKeeps ==
  ASSUME NEW c, NEW m, NEW k \in Keys, NEW v \in Nat \ {0}, Stores(c, m, k, v)
  PROVE  Stored(c, k, v, LRU!Touch(m, k))
<1>1. PICK h \in [Keys -> Nat], a \in [Keys -> Nat], n \in Nat, s \in Seq(Keys) :
        h = c.cache /\ a = c.access /\ n = c.counter /\ s = c.recent
  BY DEF LruType, Stores
<1>2. PICK l \in Nat : l = Len(s)
  BY LenProperties
<1>3. PICK g \in [Keys -> Nat] : g = m.cache
  BY DEF LruType, Stores
<1>4. PICK b : b = [a EXCEPT ![k] = n + 1]
  OBVIOUS
<1>5. /\ b \in [Keys -> Nat] /\ g[k] = v /\ b[k] = n + 1
      /\ \A x \in Keys : x # k => b[x] = a[x] /\ g[x] = h[x]
  BY <1>1, <1>3, <1>4 DEF Stores
<1>6. PICK q : q = Append(RemoveFirst(s, k), k)
  OBVIOUS
<1>7. Exact(h, a, n, s)
  BY <1>1 DEF CacheExact, Stores
<1>8. With(h, a, n, s, k, v, l, g, b, q)
  BY <1>2, <1>5, <1>6, <1>7, ExactWith
<1>9. PICK e : e = LRU!Touch(m, k)
  OBVIOUS
<1>10. LruType(m) /\ m.access = a /\ m.counter = n /\ m.recent = s
  BY <1>1 DEF Stores
<1>11. e = [m EXCEPT !.access = b, !.counter = n + 1, !.recent = q]
  BY <1>4, <1>6, <1>9, <1>10, OthersAre DEF LRU!Touch, LruType
<1>12. q \in Seq(Keys) /\ n + 1 \in Nat
  BY <1>8 DEF With
<1>13. /\ LruType(e) /\ e.cache = g /\ e.access = b /\ e.recent = q
       /\ e.counter = n + 1 /\ e.pending = m.pending /\ e.flights = m.flights
  BY <1>3, <1>5, <1>10, <1>11, <1>12 DEF LruType
<1>14. /\ h[k] = 0 => Len(q) = l + 1
       /\ h[k] # 0 => Len(q) = l
  BY <1>8 DEF With
<1>15. CacheExact(e)
  BY <1>8, <1>13 DEF CacheExact, With
<1>16. m.pending = c.pending /\ m.flights = c.flights
  BY DEF Stores
<1>17. Stored(c, k, v, e)
  <2>1. e.cache[k] = v /\ \A x \in Keys : x # k => e.cache[x] = c.cache[x]
    BY <1>1, <1>5, <1>13
  <2>2. c.cache[k] = 0 => Len(e.recent) = Len(c.recent) + 1
    BY <1>1, <1>2, <1>13, <1>14
  <2>3. c.cache[k] # 0 => Len(e.recent) = Len(c.recent)
    BY <1>1, <1>2, <1>13, <1>14
  <2>4. e.pending = c.pending /\ e.flights = c.flights
    BY <1>13, <1>16
  <2> QED
    BY <1>13, <1>15, <2>1, <2>2, <2>3, <2>4 DEF Stored
<1> QED
  BY <1>9, <1>17

\* set(): a new key takes the place of the one not used for the longest time.
LEMMA SetKeeps ==
  ASSUME LRU!LRUAssumption, NEW c, LruType(c), CacheExact(c), Len(c.recent) <= MaxSize,
         NEW k \in Keys, NEW v \in Nat \ {0}, NEW e, e = LRU!Set(c, k, v)
  PROVE  /\ LruType(e) /\ CacheExact(e) /\ Len(e.recent) <= MaxSize
         /\ e.pending = c.pending /\ e.flights = c.flights /\ e.cache[k] = v
         /\ \A x \in Keys : x # k => \/ e.cache[x] = c.cache[x]
                                     \/ e.cache[x] = 0 /\ x = Head(c.recent)
<1>1. PICK r : r = IF ~LRU!Has(c, k) /\ LRU!Size(c) >= MaxSize THEN LRU!Delete(c, LRU!Lru(c)) ELSE c
  OBVIOUS
<1>2. PICK n \in Nat : n = Len(c.recent)
  BY LenProperties DEF LruType
<1>3. /\ MaxSize \in Nat \ {0} /\ LRU!Size(c) = n /\ n <= MaxSize
  BY <1>2, SizeIsLength DEF LRU!LRUAssumption
<1>4. /\ LruType(r) /\ CacheExact(r) /\ r.pending = c.pending /\ r.flights = c.flights
      /\ r.cache[k] = c.cache[k]
      /\ \E l \in Nat : l = Len(r.recent) /\ l <= MaxSize /\ (c.cache[k] = 0 => l < MaxSize)
      /\ \A x \in Keys : r.cache[x] = c.cache[x] \/ (r.cache[x] = 0 /\ x = Head(c.recent))
  <2>1. CASE ~LRU!Has(c, k) /\ LRU!Size(c) >= MaxSize
    <3>1. n # 0 /\ c.cache[k] = 0
      BY <1>3, <2>1 DEF LRU!Has
    <3>2. c.recent # <<>>
      BY <1>2, <3>1, EmptySeq
    <3>3. PICK x \in Keys : x = LRU!Lru(c) /\ x = Head(c.recent) /\ c.cache[x] # 0
      BY <3>2, OldestIsFirst
    <3>4. r = LRU!Delete(c, x)
      BY <1>1, <2>1, <3>3
    <3>5. Deleted(c, x, r)
      BY <3>4, DeleteKeeps
    <3>6. LruType(r) /\ Len(r.recent) + 1 = n
      BY <1>2, <3>3, <3>5 DEF Deleted
    <3>7. PICK l \in Nat : l = Len(r.recent)
      BY <3>6, LenProperties DEF LruType
    <3>8. l < MaxSize
      BY <1>3, <3>6, <3>7
    <3>9. l <= MaxSize
      BY <1>3, <3>8
    <3>10. /\ LruType(r) /\ CacheExact(r) /\ r.pending = c.pending /\ r.flights = c.flights
           /\ r.cache[x] = 0 /\ \A z \in Keys : z # x => r.cache[z] = c.cache[z]
      BY <3>5 DEF Deleted
    <3>11. x # k
      BY <3>1, <3>3
    <3> QED
      BY <3>3, <3>7, <3>8, <3>9, <3>10, <3>11
  <2>2. CASE ~(~LRU!Has(c, k) /\ LRU!Size(c) >= MaxSize)
    <3>1. r = c
      BY <1>1, <2>2
    <3>2. c.cache[k] = 0 => n < MaxSize
      BY <1>3, <2>2 DEF LRU!Has
    <3> QED
      BY <1>2, <1>3, <3>1, <3>2
  <2> QED
    BY <2>1, <2>2
<1>5. PICK l \in Nat : l = Len(r.recent) /\ l <= MaxSize /\ (c.cache[k] = 0 => l < MaxSize)
  BY <1>4
<1>6. PICK h \in [Keys -> Nat], y \in SUBSET Keys : h = r.cache /\ y = r.expired \ {k}
  BY <1>4 DEF LruType
<1>7. PICK g : g = [h EXCEPT ![k] = v]
  OBVIOUS
<1>8. g \in [Keys -> Nat] /\ g[k] = v /\ \A x \in Keys : x # k => g[x] = h[x]
  BY <1>7
<1>9. PICK m : m = [r EXCEPT !.cache = g, !.expired = y]
  OBVIOUS
<1>10. m = [r EXCEPT !.cache[k] = v, !.expired = r.expired \ {k}]
  BY <1>4, <1>6, <1>7, <1>9 DEF LruType
<1>11. e = LRU!Touch(m, k)
  BY <1>1, <1>10 DEF LRU!Set
<1>12. Stores(r, m, k, v)
  BY <1>4, <1>6, <1>8, <1>9 DEF Stores, LruType
<1>13. Stored(r, k, v, e)
  BY <1>11, <1>12, StoreKeeps
<1>14. /\ r.cache[k] = 0 => Len(e.recent) = l + 1
       /\ r.cache[k] # 0 => Len(e.recent) = l
  BY <1>5, <1>13 DEF Stored
<1>15. Len(e.recent) <= MaxSize
  BY <1>3, <1>4, <1>5, <1>14
<1> QED
  BY <1>4, <1>13, <1>15 DEF Stored

\* Calls G are F, of n calls, and a new call e for key k, which had none in flight.
Opens(p, F, n, h, k, e, r, G) ==
  /\ p[k] = 0 /\ e.key = k /\ e.st = "open" /\ r[k] = n + 1
  /\ \A x \in Keys : x # k => r[x] = p[x]
  /\ Len(G) = n + 1 /\ G[n + 1] = e /\ \A i \in 1..n : G[i] = F[i]

\* A new call, for a key that has none in flight.
LEMMA FlightAdded ==
  ASSUME NEW p \in [Keys -> Nat], NEW F \in Seq(Flight), NEW n \in Nat, n = Len(F),
         FlightsExact(p, F), NEW h \in [Keys -> Nat], Latest(h, F),
         NEW k \in Keys, NEW e \in Flight, NEW r, NEW G, Opens(p, F, n, h, k, e, r, G)
  PROVE  FlightsExact(r, G) /\ Latest(h, G)
<1>1. /\ p[k] = 0 /\ e.key = k /\ e.st = "open" /\ r[k] = n + 1
      /\ \A x \in Keys : x # k => r[x] = p[x]
  BY DEF Opens
<1>2. Len(G) = n + 1 /\ G[n + 1] = e /\ \A i \in 1..n : G[i] = F[i]
  BY DEF Opens
<1>3. \A f \in 1..n : F[f].key \in Keys
  <2>1. \A f \in 1..n : F[f] \in Flight
    BY ElementOfSeq
  <2> QED
    BY <2>1 DEF Flight
<1>4. /\ \A f \in 1..n : F[f].st = "open" => p[F[f].key] = f
      /\ \A x \in Keys : p[x] # 0 =>
           /\ p[x] \in 1..n /\ F[p[x]].key = x /\ F[p[x]].st = "open"
           /\ \A f \in 1..n : F[f].key = x => f <= p[x]
  BY DEF FlightsExact
<1>5. \A x \in Keys : h[x] # 0 =>
           /\ h[x] \in 1..n /\ F[h[x]].key = x /\ F[h[x]].st = "ok"
           /\ \A f \in 1..n : F[f].key = x /\ F[f].st = "ok" => f <= h[x]
  BY DEF Latest
<1>6. \A f \in 1..n + 1 : f = n + 1 \/ f \in 1..n
  OBVIOUS
<1>7. ASSUME NEW f \in 1..n + 1, G[f].st = "open" PROVE r[G[f].key] = f
  <2>1. CASE f = n + 1
    BY <1>1, <1>2, <2>1
  <2>2. CASE f \in 1..n
    <3>1. p[F[f].key] = f /\ f # 0
      BY <1>2, <1>4, <1>7, <2>2
    <3>2. F[f].key # k
      BY <1>1, <3>1
    <3> QED
      BY <1>1, <1>2, <1>3, <2>2, <3>1, <3>2
  <2> QED
    BY <1>6, <2>1, <2>2
<1>8. ASSUME NEW x \in Keys, r[x] # 0
      PROVE  /\ r[x] \in 1..n + 1 /\ G[r[x]].key = x /\ G[r[x]].st = "open"
             /\ \A f \in 1..n + 1 : G[f].key = x => f <= r[x]
  <2>1. CASE x = k
    <3>1. r[x] = n + 1 /\ n + 1 \in 1..n + 1 /\ \A f \in 1..n + 1 : f <= n + 1
      BY <1>1, <2>1
    <3> QED
      BY <1>1, <1>2, <2>1, <3>1
  <2>2. CASE x # k
    <3>1. r[x] = p[x] /\ p[x] # 0
      BY <1>1, <1>8, <2>2
    <3>2. /\ p[x] \in 1..n /\ F[p[x]].key = x /\ F[p[x]].st = "open"
          /\ \A f \in 1..n : F[f].key = x => f <= p[x]
      BY <1>4, <3>1
    <3>3. p[x] \in 1..n + 1
      BY <3>2
    <3>4. ASSUME NEW f \in 1..n + 1, G[f].key = x PROVE f <= p[x]
      <4>1. f # n + 1
        BY <1>1, <1>2, <2>2, <3>4
      <4>2. f \in 1..n
        BY <1>6, <4>1
      <4> QED
        BY <1>2, <3>2, <3>4, <4>2
    <3> QED
      BY <1>2, <3>1, <3>2, <3>3, <3>4
  <2> QED
    BY <2>1, <2>2
<1>9. ASSUME NEW x \in Keys, h[x] # 0
      PROVE  /\ h[x] \in 1..n + 1 /\ G[h[x]].key = x /\ G[h[x]].st = "ok"
             /\ \A f \in 1..n + 1 : G[f].key = x /\ G[f].st = "ok" => f <= h[x]
  <2>1. /\ h[x] \in 1..n /\ F[h[x]].key = x /\ F[h[x]].st = "ok"
        /\ \A f \in 1..n : F[f].key = x /\ F[f].st = "ok" => f <= h[x]
    BY <1>5, <1>9
  <2>2. h[x] \in 1..n + 1
    BY <2>1
  <2>3. ASSUME NEW f \in 1..n + 1, G[f].key = x, G[f].st = "ok" PROVE f <= h[x]
    <3>1. f # n + 1
      BY <1>1, <1>2, <2>3
    <3>2. f \in 1..n
      BY <1>6, <3>1
    <3> QED
      BY <1>2, <2>1, <2>3, <3>2
  <2> QED
    BY <1>2, <2>1, <2>2, <2>3
<1> QED
  BY <1>2, <1>7, <1>8, <1>9 DEF FlightsExact, Latest

\* Calls G are F, of n calls, after call f for key k has settled as st; cache g has
\* its value if it succeeded.
Closes(p, F, n, h, f, k, st, G, r, g) ==
  /\ F[f].st = "open" /\ k = F[f].key /\ Len(G) = n /\ G[f].key = k /\ G[f].st = st
  /\ \A i \in 1..n : i # f => G[i] = F[i]
  /\ r[k] = 0 /\ \A x \in Keys : x # k => r[x] = p[x]
  /\ \A x \in Keys : x # k => g[x] = h[x] \/ g[x] = 0
  /\ st = "ok" => g[k] = f
  /\ st = "failed" => g[k] = h[k]

\* A call settles; the cache g has its value if it succeeded, and no others.
LEMMA FlightSettled ==
  ASSUME NEW p \in [Keys -> Nat], NEW F \in Seq(Flight), NEW n \in Nat, n = Len(F),
         FlightsExact(p, F), NEW h \in [Keys -> Nat], Latest(h, F),
         NEW f \in 1..n, NEW k \in Keys, NEW st \in {"ok", "failed"}, NEW G, NEW r, NEW g,
         Closes(p, F, n, h, f, k, st, G, r, g)
  PROVE  FlightsExact(r, G) /\ Latest(g, G)
<1> USE DEF Closes
<1>2. \A i \in 1..n : F[i].key \in Keys
  <2>1. \A i \in 1..n : F[i] \in Flight
    BY ElementOfSeq
  <2> QED
    BY <2>1 DEF Flight
<1>3. /\ \A i \in 1..n : F[i].st = "open" => p[F[i].key] = i
      /\ \A x \in Keys : p[x] # 0 =>
           /\ p[x] \in 1..n /\ F[p[x]].key = x /\ F[p[x]].st = "open"
           /\ \A i \in 1..n : F[i].key = x => i <= p[x]
  BY DEF FlightsExact
<1>4. \A x \in Keys : h[x] # 0 =>
           /\ h[x] \in 1..n /\ F[h[x]].key = x /\ F[h[x]].st = "ok"
           /\ \A i \in 1..n : F[i].key = x /\ F[i].st = "ok" => i <= h[x]
  BY DEF Latest
<1>5. p[k] = f /\ f # 0 /\ \A i \in 1..n : F[i].key = k => i <= f
  BY <1>3
<1>6. \A i \in 1..n : G[i].key = F[i].key
  OBVIOUS
<1>7. ASSUME NEW i \in 1..n, G[i].st = "open" PROVE r[G[i].key] = i
  <2>1. i # f
    BY <1>7
  <2>2. G[i] = F[i] /\ F[i].st = "open" /\ p[F[i].key] = i /\ F[i].key \in Keys
    BY <1>2, <1>3, <1>7, <2>1
  <2>3. F[i].key # k
    BY <1>5, <2>1, <2>2
  <2> QED
    BY <2>2, <2>3
<1>8. ASSUME NEW x \in Keys, r[x] # 0
      PROVE  /\ r[x] \in 1..n /\ G[r[x]].key = x /\ G[r[x]].st = "open"
             /\ \A i \in 1..n : G[i].key = x => i <= r[x]
  <2>1. x # k /\ r[x] = p[x]
    BY <1>8
  <2>2. /\ p[x] \in 1..n /\ F[p[x]].key = x /\ F[p[x]].st = "open"
        /\ \A i \in 1..n : F[i].key = x => i <= p[x]
    BY <1>3, <1>8, <2>1
  <2>3. G[p[x]] = F[p[x]]
    BY <2>1, <2>2
  <2> QED
    BY <1>6, <2>1, <2>2, <2>3
<1>9. ASSUME NEW x \in Keys, g[x] # 0
      PROVE  /\ g[x] \in 1..n /\ G[g[x]].key = x /\ G[g[x]].st = "ok"
             /\ \A i \in 1..n : G[i].key = x /\ G[i].st = "ok" => i <= g[x]
  <2>1. CASE x = k /\ st = "ok"
    BY <1>5, <1>6, <2>1
  <2>2. CASE ~(x = k /\ st = "ok")
    <3>1. g[x] = h[x] /\ h[x] # 0
      BY <1>9, <2>2
    <3>2. /\ h[x] \in 1..n /\ F[h[x]].key = x /\ F[h[x]].st = "ok"
          /\ \A i \in 1..n : F[i].key = x /\ F[i].st = "ok" => i <= h[x]
      BY <1>4, <3>1
    <3>3. G[h[x]] = F[h[x]]
      BY <3>2
    <3>4. ASSUME NEW i \in 1..n, G[i].key = x, G[i].st = "ok" PROVE i <= h[x]
      <4>1. i # f
        BY <2>2, <3>4
      <4> QED
        BY <3>2, <3>4, <4>1
    <3> QED
      BY <3>1, <3>2, <3>3, <3>4
  <2> QED
    BY <2>1, <2>2
<1> QED
  BY <1>7, <1>8, <1>9 DEF FlightsExact, Latest

\* A cache that has lost entries and nothing else.
LEMMA FewerEntries ==
  ASSUME NEW c, LruInv(c), NEW d, LruType(d), CacheExact(d), Len(d.recent) <= MaxSize,
         d.pending = c.pending, d.flights = c.flights,
         \A x \in Keys : d.cache[x] = 0 \/ d.cache[x] = c.cache[x]
  PROVE  LruInv(d) /\ Evicts(c, d)
<1>1. Latest(d.cache, d.flights)
  BY DEF LruInv, Latest
<1>2. FlightsExact(d.pending, d.flights)
  BY DEF LruInv
<1>3. Evicts(c, d)
  BY DEF Evicts
<1> QED
  BY <1>1, <1>2, <1>3 DEF LruInv

\* delete(), and the purge of has().
LEMMA DropKeeps ==
  ASSUME NEW c, LruInv(c), MaxSize \in Nat, NEW k \in Keys, NEW d, d = LRU!Delete(c, k)
  PROVE  /\ LruInv(d) /\ Evicts(c, d) /\ d.cache[k] = 0
         /\ \A x \in Keys : x # k => d.cache[x] = c.cache[x]
         /\ d.pending = c.pending /\ d.flights = c.flights
<1>1. /\ LruType(c) /\ CacheExact(c) /\ Len(c.recent) <= MaxSize /\ c.cache \in [Keys -> Nat]
      /\ c.recent \in Seq(Keys)
  BY DEF LruInv, LruType
<1>a. Deleted(c, k, d)
  BY <1>1, DeleteKeeps
<1>2. /\ LruType(d) /\ CacheExact(d) /\ d.pending = c.pending /\ d.flights = c.flights
      /\ c.cache[k] # 0 => Len(d.recent) + 1 = Len(c.recent)
      /\ c.cache[k] = 0 => Len(d.recent) = Len(c.recent)
  BY <1>a DEF Deleted
<1>3. PICK n \in Nat : n = Len(c.recent)
  BY <1>1, LenProperties
<1>4. d.recent \in Seq(Keys)
  BY <1>2 DEF LruType
<1>5. PICK m \in Nat : m = Len(d.recent)
  BY <1>4, LenProperties
<1>6. m <= MaxSize
  BY <1>1, <1>2, <1>3, <1>5
<1>7. d.cache[k] = 0 /\ \A x \in Keys : x # k => d.cache[x] = c.cache[x]
  BY <1>a DEF Deleted
<1>8. \A x \in Keys : d.cache[x] = 0 \/ d.cache[x] = c.cache[x]
  BY <1>7
<1> QED
  BY <1>2, <1>5, <1>6, <1>7, <1>8, FewerEntries

\* The ttl of an entry passes.
LEMMA ExpireKeeps ==
  ASSUME LruInv(lru), NEW k \in Keys, LRU!Expire(k)
  PROVE  LruInv(lru') /\ Evicts(lru, lru')
<1>1. LruType(lru) /\ lru.expired \union {k} \in SUBSET Keys
  BY DEF LruInv, LruType
<1>2. lru' = [lru EXCEPT !.expired = lru.expired \union {k}]
  BY DEF LRU!Expire
<1>3. PICK d : d = lru'
  OBVIOUS
<1>4. /\ LruType(d) /\ d.cache = lru.cache /\ d.access = lru.access /\ d.counter = lru.counter
      /\ d.recent = lru.recent /\ d.pending = lru.pending /\ d.flights = lru.flights
  BY <1>1, <1>2, <1>3 DEF LruType
<1>5. CacheExact(d)
  BY <1>4 DEF LruInv, CacheExact
<1>6. LruInv(d) /\ Evicts(lru, d)
  BY <1>4, <1>5 DEF LruInv, Evicts
<1> QED
  BY <1>3, <1>6

\* clear() leaves the calls in flight.
LEMMA ClearKeeps ==
  ASSUME LruInv(lru), MaxSize \in Nat, LRU!Clear
  PROVE  LruInv(lru') /\ Evicts(lru, lru')
<1>1. PICK z : z = [k \in Keys |-> 0]
  OBVIOUS
<1>2. z \in [Keys -> Nat] /\ \A k \in Keys : z[k] = 0
  BY <1>1
<1>3. lru' = [lru EXCEPT !.cache = z, !.access = z, !.counter = 0, !.expired = {}, !.recent = <<>>]
  BY <1>1 DEF LRU!Clear
<1>4. PICK s \in Seq(Keys) : s = <<>> /\ Len(s) = 0
  BY EmptySeq
<1>5. PICK d : d = lru'
  OBVIOUS
<1>6. d = [lru EXCEPT !.cache = z, !.access = z, !.counter = 0, !.expired = {}, !.recent = s]
  BY <1>3, <1>4, <1>5
<1>7. LruType(lru)
  BY DEF LruInv
<1>8. /\ LruType(d) /\ d.cache = z /\ d.access = z /\ d.counter = 0
      /\ d.recent = s /\ d.pending = lru.pending /\ d.flights = lru.flights
  BY <1>2, <1>6, <1>7 DEF LruType
<1>9. Exact(z, z, 0, s)
  <2>1. \A k \in Keys : z[k] <= 0 /\ (z[k] = 0 <=> z[k] = 0) /\ ~(z[k] # 0)
    BY <1>2
  <2>2. \A i \in 1..Len(s) : FALSE
    BY <1>4
  <2> QED
    BY <2>1, <2>2 DEF Exact, Rising
<1>10. CacheExact(d)
  BY <1>8, <1>9 DEF CacheExact
<1>11. Len(d.recent) <= MaxSize
  BY <1>4, <1>8
<1>12. \A x \in Keys : d.cache[x] = 0 \/ d.cache[x] = lru.cache[x]
  BY <1>2, <1>8
<1>13. LruInv(d) /\ Evicts(lru, d)
  BY <1>8, <1>10, <1>11, <1>12, FewerEntries
<1> QED
  BY <1>5, <1>13

\* A call of the memoized function.
LEMMA CallKeeps ==
  ASSUME LruInv(lru), MaxSize \in Nat, NEW k \in Keys, LRU!Call(k)
  PROVE  LruInv(lru') /\ Evicts(lru, lru')
<1>1. PICK c : c = LRU!Purge(lru, k)
  OBVIOUS
<1>2. /\ LruInv(c) /\ c.pending = lru.pending /\ c.flights = lru.flights
      /\ \A x \in Keys : c.cache[x] # 0 => lru.cache[x] # 0
  <2>1. CASE k \in lru.expired
    <3>1. c = LRU!Delete(lru, k)
      BY <1>1, <2>1 DEF LRU!Purge
    <3> QED
      BY <3>1, DropKeeps
  <2>2. CASE k \notin lru.expired
    BY <1>1, <2>2 DEF LRU!Purge
  <2> QED
    BY <2>1, <2>2
<1>3. \/ c.cache[k] # 0 /\ lru' = LRU!Touch(c, k)
      \/ lru' = c
      \/ /\ c.cache[k] = 0 /\ c.pending[k] = 0
         /\ lru' = [c EXCEPT !.flights = Append(c.flights, [key |-> k, st |-> "open"]),
                             !.pending = [c.pending EXCEPT ![k] = Len(c.flights) + 1]]
  BY <1>1 DEF LRU!Call, LRU!Has
<1>4. PICK d : d = lru'
  OBVIOUS
<1>5. /\ LruType(c) /\ CacheExact(c) /\ Len(c.recent) <= MaxSize
      /\ FlightsExact(c.pending, c.flights) /\ Latest(c.cache, c.flights)
  BY <1>2 DEF LruInv
<1>6. CASE c.cache[k] # 0 /\ d = LRU!Touch(c, k)
  <2>a. PICK v \in Nat \ {0} : v = c.cache[k]
    BY <1>5, <1>6 DEF LruType
  <2>b. Stores(c, c, k, v)
    BY <1>5, <2>a DEF Stores
  <2>c. Stored(c, k, v, d)
    BY <1>6, <2>b, StoreKeeps
  <2>1. /\ LruType(d) /\ CacheExact(d) /\ d.pending = c.pending
        /\ d.flights = c.flights /\ Len(d.recent) = Len(c.recent)
        /\ \A x \in Keys : d.cache[x] = c.cache[x]
    BY <1>6, <2>a, <2>c DEF Stored
  <2>2. LruInv(d)
    BY <1>5, <2>1 DEF LruInv, Latest
  <2>3. Evicts(lru, d)
    BY <1>2, <2>1 DEF Evicts
  <2> QED
    BY <1>4, <2>2, <2>3
<1>7. CASE d = c
  <2>1. Evicts(lru, d)
    BY <1>2, <1>7 DEF Evicts
  <2> QED
    BY <1>2, <1>4, <1>7, <2>1
<1>8. CASE /\ c.cache[k] = 0 /\ c.pending[k] = 0
           /\ d = [c EXCEPT !.flights = Append(c.flights, [key |-> k, st |-> "open"]),
                            !.pending = [c.pending EXCEPT ![k] = Len(c.flights) + 1]]
  <2>1. PICK p \in [Keys -> Nat], F \in Seq(Flight), h \in [Keys -> Nat] :
          p = c.pending /\ F = c.flights /\ h = c.cache
    BY <1>5 DEF LruType
  <2>2. PICK n \in Nat : n = Len(F)
    BY LenProperties
  <2>3. PICK r : r = [p EXCEPT ![k] = n + 1]
    OBVIOUS
  <2>4. r \in [Keys -> Nat] /\ r[k] = n + 1 /\ \A x \in Keys : x # k => r[x] = p[x]
    BY <2>3
  <2>5. PICK e \in Flight : e = [key |-> k, st |-> "open"]
    BY DEF Flight
  <2>6. e.key = k /\ e.st = "open"
    BY <2>5
  <2>7. PICK G : G = Append(F, e)
    OBVIOUS
  <2>8. G \in Seq(Flight) /\ FlightsExact(r, G) /\ Latest(h, G)
    <3>1. FlightsExact(p, F) /\ Latest(h, F) /\ p[k] = 0
      BY <1>5, <1>8, <2>1
    <3>2. /\ G \in Seq(Flight) /\ Len(G) = n + 1 /\ G[n + 1] = e
          /\ \A i \in 1..n : G[i] = F[i]
      BY <2>2, <2>7, AppendProperties
    <3>3. Opens(p, F, n, h, k, e, r, G)
      BY <2>4, <2>6, <3>1, <3>2 DEF Opens
    <3> QED
      BY <2>2, <3>1, <3>2, <3>3, FlightAdded
  <2>9. d = [c EXCEPT !.flights = G, !.pending = r]
    BY <1>8, <2>1, <2>2, <2>3, <2>5, <2>7
  <2>10. /\ LruType(d) /\ d.flights = G /\ d.pending = r /\ d.cache = h /\ d.recent = c.recent
         /\ d.access = c.access /\ d.counter = c.counter
    BY <1>5, <2>1, <2>4, <2>8, <2>9 DEF LruType
  <2>11. CacheExact(d)
    BY <1>5, <2>1, <2>10 DEF CacheExact
  <2>12. LruInv(d)
    BY <1>5, <2>8, <2>10, <2>11 DEF LruInv
  <2>13. Evicts(lru, d)
    BY <1>2, <2>1, <2>10 DEF Evicts
  <2> QED
    BY <1>4, <2>12, <2>13
<1> QED
  BY <1>3, <1>4, <1>6, <1>7, <1>8

\* The promise of a call settles.
LEMMA SettleKeeps ==
  ASSUME LruInv(lru), LRU!LRUAssumption, NEW f, NEW ok \in BOOLEAN, LRU!Settle(f, ok)
  PROVE  LruInv(lru') /\ Evicts(lru, lru')
<1>1. PICK p \in [Keys -> Nat], F \in Seq(Flight), h \in [Keys -> Nat] :
        p = lru.pending /\ F = lru.flights /\ h = lru.cache
  BY DEF LruInv, LruType
<1>2. PICK n \in Nat : n = Len(F)
  BY LenProperties
<1>3. f \in 1..n /\ F[f].st = "open"
  <2>1. f \in DOMAIN F /\ F[f].st = "open"
    BY <1>1 DEF LRU!Settle
  <2> QED
    BY <1>2, <2>1, LenProperties
<1>4. PICK k \in Keys : k = F[f].key
  <2>1. F[f] \in Flight
    BY <1>2, <1>3, ElementOfSeq
  <2> QED
    BY <2>1 DEF Flight
<1>5. PICK st \in {"ok", "failed"} : st = IF ok THEN "ok" ELSE "failed"
  OBVIOUS
<1>6. PICK c : c = IF ok THEN LRU!Set(lru, k, f) ELSE lru
  OBVIOUS
<1>7. lru' = [c EXCEPT !.pending[k] = 0, !.flights[f].st = st]
  BY <1>1, <1>4, <1>5, <1>6 DEF LRU!Settle
<1>8. /\ LruType(lru) /\ CacheExact(lru) /\ Len(lru.recent) <= MaxSize
      /\ FlightsExact(p, F) /\ Latest(h, F)
  BY <1>1 DEF LruInv
<1>9. /\ LruType(c) /\ CacheExact(c) /\ Len(c.recent) <= MaxSize
      /\ c.pending = p /\ c.flights = F
      /\ \A x \in Keys : x # k => \/ c.cache[x] = h[x]
                                  \/ c.cache[x] = 0 /\ x = Head(lru.recent)
      /\ st = "ok" => c.cache[k] = f
      /\ st = "failed" => c = lru
  <2>1. CASE ok
    <3>1. c = LRU!Set(lru, k, f) /\ st = "ok"
      BY <1>5, <1>6, <2>1
    <3>2. f \in Nat \ {0}
      BY <1>3
    <3>3. /\ LruType(c) /\ CacheExact(c) /\ Len(c.recent) <= MaxSize
          /\ c.pending = lru.pending /\ c.flights = lru.flights /\ c.cache[k] = f
          /\ \A x \in Keys : x # k => \/ c.cache[x] = lru.cache[x]
                                      \/ c.cache[x] = 0 /\ x = Head(lru.recent)
      BY <1>8, <3>1, <3>2, SetKeeps
    <3> QED
      BY <1>1, <3>1, <3>3
  <2>2. CASE ~ok
    <3>1. c = lru /\ st = "failed"
      BY <1>5, <1>6, <2>2
    <3> QED
      BY <1>1, <1>8, <3>1
  <2> QED
    BY <2>1, <2>2
<1>10. PICK g \in [Keys -> Nat] : g = c.cache
  BY <1>9 DEF LruType
<1>11. PICK r : r = [p EXCEPT ![k] = 0]
  OBVIOUS
<1>12. r \in [Keys -> Nat] /\ r[k] = 0 /\ \A x \in Keys : x # k => r[x] = p[x]
  BY <1>11
<1>13. PICK e \in Flight : e = [F[f] EXCEPT !.st = st] /\ e.key = k /\ e.st = st
  <2>1. PICK y \in Flight : y = F[f]
    BY <1>2, <1>3, ElementOfSeq
  <2>2. y.key = k
    BY <1>4, <2>1
  <2>3. PICK z : z = [y EXCEPT !.st = st]
    OBVIOUS
  <2>4. z \in Flight /\ z.key = k /\ z.st = st
    BY <2>2, <2>3 DEF Flight
  <2> QED
    BY <2>1, <2>3, <2>4
<1>14. PICK G : G = [F EXCEPT ![f] = e]
  OBVIOUS
<1>15. G \in Seq(Flight) /\ Len(G) = n /\ G[f] = e /\ \A i \in 1..n : i # f => G[i] = F[i]
  <2>1. f \in 1..Len(F)
    BY <1>2, <1>3
  <2> QED
    BY <1>2, <1>14, <2>1, ExceptSeq
<1>16. PICK d : d = lru'
  OBVIOUS
<1>17. d = [c EXCEPT !.pending = r, !.flights = G]
  BY <1>7, <1>9, <1>11, <1>13, <1>14, <1>16 DEF LruType
<1>18. FlightsExact(r, G) /\ Latest(g, G)
  <2>1. /\ \A x \in Keys : x # k => g[x] = h[x] \/ g[x] = 0
        /\ st = "ok" => g[k] = f
        /\ st = "failed" => g[k] = h[k]
    BY <1>1, <1>9, <1>10
  <2>2. G[f].key = k /\ G[f].st = st
    BY <1>13, <1>15
  <2>3. Closes(p, F, n, h, f, k, st, G, r, g)
    BY <1>3, <1>4, <1>12, <1>15, <2>1, <2>2 DEF Closes
  <2> QED
    BY <1>2, <1>3, <1>8, <2>3, FlightSettled
<1>19. /\ LruType(d) /\ d.flights = G /\ d.pending = r /\ d.cache = g /\ d.recent = c.recent
       /\ d.access = c.access /\ d.counter = c.counter
  BY <1>9, <1>10, <1>12, <1>15, <1>17 DEF LruType
<1>20. CacheExact(d)
  BY <1>9, <1>10, <1>19 DEF CacheExact
<1>21. LruInv(d)
  BY <1>9, <1>18, <1>19, <1>20 DEF LruInv
<1>22. Evicts(lru, d)
  <2> SUFFICES ASSUME NEW x \in Keys, NEW y \in Keys, lru.cache[x] # 0, d.cache[x] = 0,
                      lru.cache[y] = 0, d.cache[y] # 0
               PROVE  x = Head(lru.recent)
    BY DEF Evicts
  <2>1. st = "ok"
    BY <1>1, <1>9, <1>10, <1>19
  <2>2. g[k] # 0
    BY <1>3, <1>9, <1>10, <2>1
  <2>3. x # k /\ g[x] = 0 /\ h[x] # 0
    BY <1>1, <1>19, <2>2
  <2> QED
    BY <1>9, <1>10, <2>3
<1> QED
  BY <1>16, <1>21, <1>22

\* The invariant of the cache, and what its steps do.
LEMMA LruInvariant ==
  ASSUME LRU!LRUAssumption
  PROVE  /\ LRU!Init => LruInv(lru)
         /\ LruInv(lru) /\ [LRU!Next]_lru => LruInv(lru') /\ Evicts(lru, lru')
<1> MaxSize \in Nat
  BY DEF LRU!LRUAssumption
<1>1. ASSUME LRU!Init PROVE LruInv(lru)
  <2>1. PICK z : z = [k \in Keys |-> 0]
    OBVIOUS
  <2>2. z \in [Keys -> Nat] /\ \A k \in Keys : z[k] = 0
    BY <2>1
  <2>3. PICK s \in Seq(Keys), F \in Seq(Flight) : s = <<>> /\ F = <<>> /\ Len(s) = 0 /\ Len(F) = 0
    BY EmptySeq
  <2>4. lru = [cache |-> z, access |-> z, counter |-> 0, expired |-> {}, pending |-> z,
               flights |-> F, recent |-> s]
    BY <1>1, <2>1, <2>3 DEF LRU!Init
  <2>5. /\ LruType(lru) /\ lru.cache = z /\ lru.access = z /\ lru.counter = 0 /\ lru.recent = s
        /\ lru.pending = z /\ lru.flights = F
    BY <2>2, <2>4 DEF LruType
  <2>6. Exact(z, z, 0, s) /\ FlightsExact(z, F) /\ Latest(z, F)
    <3>1. \A k \in Keys : z[k] <= 0 /\ (z[k] = 0 <=> z[k] = 0) /\ ~(z[k] # 0)
      BY <2>2
    <3>2. (\A i \in 1..Len(s) : FALSE) /\ (\A i \in 1..Len(F) : FALSE)
      BY <2>3
    <3> QED
      BY <3>1, <3>2 DEF Exact, Rising, FlightsExact, Latest
  <2>7. Len(lru.recent) <= MaxSize
    BY <2>3, <2>5
  <2> QED
    BY <2>5, <2>6, <2>7 DEF LruInv, CacheExact
<1>2. ASSUME LruInv(lru), [LRU!Next]_lru PROVE LruInv(lru') /\ Evicts(lru, lru')
  <2>1. CASE UNCHANGED lru
    <3>1. Evicts(lru, lru)
      BY DEF Evicts
    <3> QED
      BY <1>2, <2>1, <3>1
  <2>2. ASSUME NEW k \in Keys, LRU!Expire(k) PROVE LruInv(lru') /\ Evicts(lru, lru')
    BY <1>2, <2>2, ExpireKeeps
  <2>3. ASSUME NEW k \in Keys, LRU!Drop(k) PROVE LruInv(lru') /\ Evicts(lru, lru')
    <3>1. lru' = LRU!Delete(lru, k)
      BY <2>3 DEF LRU!Drop
    <3>2. PICK d : d = LRU!Delete(lru, k)
      OBVIOUS
    <3>3. LruInv(d) /\ Evicts(lru, d)
      BY <1>2, <3>2, DropKeeps
    <3> QED
      BY <3>1, <3>2, <3>3
  <2>4. ASSUME NEW k \in Keys, LRU!Call(k) PROVE LruInv(lru') /\ Evicts(lru, lru')
    BY <1>2, <2>4, CallKeeps
  <2>5. CASE LRU!Clear
    BY <1>2, <2>5, ClearKeeps
  <2>6. ASSUME NEW f, NEW ok \in BOOLEAN, LRU!Settle(f, ok)
        PROVE  LruInv(lru') /\ Evicts(lru, lru')
    BY <1>2, <2>6, SettleKeeps
  <2> QED
    BY <1>2, <2>1, <2>2, <2>3, <2>4, <2>5, <2>6 DEF LRU!Next
<1> QED
  BY <1>1, <1>2

\* What the invariant says of the cache and of the calls.
LEMMA LruInvGives ==
  ASSUME LruInv(lru)
  PROVE  LRU!WithinSize /\ LRU!SingleFlight
<1> DEFINE p == lru.pending
           F == lru.flights
           h == lru.cache
           C(k, st) == {f \in DOMAIN F : F[f] = [key |-> k, st |-> st]}
<1>1. p \in [Keys -> Nat] /\ F \in Seq(Flight) /\ h \in [Keys -> Nat]
  BY DEF LruInv, LruType
<1>2. PICK n \in Nat : n = Len(F) /\ DOMAIN F = 1..n
  BY <1>1, LenProperties
<1>3. \A f \in 1..n : F[f] \in Flight
  BY <1>1, <1>2, ElementOfSeq
<1>4. /\ \A f \in 1..n : F[f].st = "open" => p[F[f].key] = f
      /\ \A k \in Keys : p[k] # 0 =>
           /\ p[k] \in 1..n /\ F[p[k]].key = k /\ F[p[k]].st = "open"
           /\ \A f \in 1..n : F[f].key = k => f <= p[k]
  BY <1>1, <1>2 DEF LruInv, FlightsExact
<1>5. \A k \in Keys : h[k] # 0 =>
        /\ h[k] \in 1..n /\ F[h[k]].key = k /\ F[h[k]].st = "ok"
        /\ \A f \in 1..n : F[f].key = k /\ F[f].st = "ok" => f <= h[k]
  BY <1>1, <1>2 DEF LruInv, Latest
<1>6. LRU!WithinSize
  BY SizeIsLength DEF LruInv, LRU!WithinSize
<1>b. LRU!SingleFlight <=>
        \A k \in Keys : /\ C(k, "open") = {p[k]} \ {0}
                        /\ h[k] # 0 => h[k] = LRU!Max(C(k, "ok"))
  BY DEF LRU!SingleFlight, LRU!Has
<1> HIDE DEF p, F, h
<1>a. ASSUME NEW k \in Keys, NEW st \in {"open", "ok"}, NEW f
      PROVE  f \in C(k, st) <=> f \in 1..n /\ F[f].key = k /\ F[f].st = st
  <2>1. f \in C(k, st) <=> f \in DOMAIN F /\ F[f] = [key |-> k, st |-> st]
    OBVIOUS
  <2>2. DOMAIN F = 1..n
    BY <1>2
  <2>3. ASSUME f \in 1..n
        PROVE  F[f] = [key |-> k, st |-> st] <=> F[f].key = k /\ F[f].st = st
    <3>1. PICK e \in Flight : e = F[f]
      BY <1>3, <2>3
    <3>2. e = [key |-> k, st |-> st] <=> e.key = k /\ e.st = st
      BY DEF Flight
    <3> QED
      BY <3>1, <3>2
  <2> HIDE DEF C
  <2> QED
    BY <2>1, <2>2, <2>3, Zenon
<1> HIDE DEF C
<1>8. ASSUME NEW k \in Keys PROVE C(k, "open") = {p[k]} \ {0}
  <2>1. ASSUME NEW f \in C(k, "open") PROVE f = p[k] /\ f # 0
    <3>1. f \in 1..n /\ F[f].key = k /\ F[f].st = "open"
      BY <1>a, <2>1
    <3> QED
      BY <1>4, <3>1
  <2>2. ASSUME p[k] # 0 PROVE p[k] \in C(k, "open")
    <3>1. p[k] \in 1..n /\ F[p[k]].key = k /\ F[p[k]].st = "open"
      BY <1>4, <2>2
    <3> QED
      BY <1>a, <3>1
  <2> QED
    BY <2>1, <2>2
<1>9. ASSUME NEW k \in Keys, h[k] # 0 PROVE h[k] = LRU!Max(C(k, "ok"))
  <2>1. h[k] \in C(k, "ok")
    <3>1. h[k] \in 1..n /\ F[h[k]].key = k /\ F[h[k]].st = "ok"
      BY <1>5, <1>9
    <3> QED
      BY <1>a, <3>1
  <2>2. \A f \in C(k, "ok") : f <= h[k] /\ f \in Nat
    <3> SUFFICES ASSUME NEW f \in C(k, "ok") PROVE f <= h[k] /\ f \in Nat
      OBVIOUS
    <3>1. f \in 1..n /\ F[f].key = k /\ F[f].st = "ok"
      BY <1>a
    <3> QED
      BY <1>5, <1>9, <3>1
  <2> DEFINE S == C(k, "ok")
  <2> HIDE DEF S
  <2>3. S \subseteq Nat /\ h[k] \in S /\ \A y \in S : h[k] >= y
    BY <2>1, <2>2 DEF S
  <2>4. ASSUME NEW x \in S, \A y \in S : x >= y PROVE x = h[k]
    <3>1. PICK m \in Nat : m = h[k]
      BY <2>3
    <3>2. x \in Nat /\ x >= m /\ m >= x
      BY <2>3, <2>4, <3>1
    <3> QED
      BY <3>1, <3>2
  <2>5. LRU!Max(S) = CHOOSE x \in S : \A y \in S : x >= y
    BY DEF LRU!Max
  <2>6. LRU!Max(S) = h[k]
    BY <2>3, <2>4, <2>5
  <2> QED
    BY <2>6 DEF S
<1>10. LRU!SingleFlight
  BY <1>1, <1>8, <1>9, <1>b
<1> QED
  BY <1>6, <1>10

-----------------------------------------------------------------------------
(* The retry handler and the breaker of the HTTP client.                   *)

Breaker == [state : {"closed", "open", "half-open"}, failureCount : 0..HB!RequestCap,
            requestCount : 0..HB!RequestCap, due : BOOLEAN, healed : BOOLEAN,
            pc : [HCallers -> {"idle", "delay", "running"}],
            attempt : [HCallers -> 0..RetryAttempts - 1]]

Sound(h) ==
  /\ h \in Breaker
  /\ h.state # "closed" => HB!ShouldOpen(h)
  /\ \A c \in HCallers : h.pc[c] = "delay" => h.attempt[c] > 0

\* An error that is caught touches the caller alone.
LEMMA CaughtSound ==
  ASSUME HB!HttpRetryAssumption, NEW h, Sound(h), NEW c \in HCallers, NEW again \in BOOLEAN
  PROVE  /\ Sound(HB!Caught(h, c, again))
         /\ HB!Caught(h, c, again).state = h.state /\ HB!Caught(h, c, again).due = h.due
<1> DEFINE n == h.attempt[c] + 1
           k == HB!Caught(h, c, again)
<1>1. h \in Breaker /\ RetryAttempts \in Nat \ {0} /\ n \in 1..RetryAttempts
  BY DEF Sound, Breaker, HB!HttpRetryAssumption
<1>2. 0 \in 0..RetryAttempts - 1
  BY <1>1
<1>3. ASSUME NEW p \in {"idle", "delay"}, NEW a \in 0..RetryAttempts - 1,
             k = [h EXCEPT !.pc[c] = p, !.attempt[c] = a], p = "delay" => a > 0
      PROVE  /\ k \in Breaker /\ k.state = h.state /\ k.due = h.due
             /\ k.failureCount = h.failureCount /\ k.requestCount = h.requestCount
             /\ \A d \in HCallers : k.pc[d] = "delay" => k.attempt[d] > 0
  <2> HIDE DEF k
  <2>1. /\ k \in Breaker /\ k.state = h.state /\ k.due = h.due
        /\ k.failureCount = h.failureCount /\ k.requestCount = h.requestCount
        /\ k.pc = [h.pc EXCEPT ![c] = p] /\ k.attempt = [h.attempt EXCEPT ![c] = a]
    BY <1>1, <1>3 DEF Breaker
  <2> QED
    BY <1>1, <1>3, <2>1 DEF Sound, Breaker
<1>4. /\ k \in Breaker /\ k.state = h.state /\ k.due = h.due
      /\ k.failureCount = h.failureCount /\ k.requestCount = h.requestCount
      /\ \A d \in HCallers : k.pc[d] = "delay" => k.attempt[d] > 0
  <2>1. CASE n >= RetryAttempts \/ ~again
    <3>1. k = [h EXCEPT !.pc[c] = "idle", !.attempt[c] = 0]
      BY <2>1 DEF HB!Caught
    <3> HIDE DEF k
    <3> QED
      BY <1>2, <1>3, <3>1
  <2>2. CASE ~(n >= RetryAttempts \/ ~again)
    <3>1. k = [h EXCEPT !.pc[c] = "delay", !.attempt[c] = n]
      BY <2>2 DEF HB!Caught
    <3>2. n \in 0..RetryAttempts - 1 /\ n > 0
      BY <1>1, <2>2
    <3> HIDE DEF k, n
    <3> QED
      BY <1>3, <3>1, <3>2
  <2> QED
    BY <2>1, <2>2
<1> HIDE DEF k
<1>5. Sound(k)
  BY <1>4 DEF Sound, HB!ShouldOpen
<1> QED
  BY <1>4, <1>5 DEF k

\* A call finds the breaker open, or runs and may make it half-open.
LEMMA AdmitSound ==
  ASSUME HB!HttpRetryAssumption, Sound(hb), NEW c \in HCallers, NEW again \in BOOLEAN,
         hb' = HB!Admit(hb, c, again)
  PROVE  Sound(hb') /\ hb'.due = hb.due
<1>1. CASE hb.state = "open" /\ ~hb.due
  BY <1>1, CaughtSound DEF HB!Admit
<1>2. CASE ~(hb.state = "open" /\ ~hb.due)
  <2> DEFINE st == IF hb.state = "open" THEN "half-open" ELSE hb.state
             pc == [hb.pc EXCEPT ![c] = "running"]
  <2>1. /\ hb' = [hb EXCEPT !.state = st, !.pc = pc] /\ hb \in Breaker
        /\ st \in {"closed", "half-open"}
        /\ pc \in [HCallers -> {"idle", "delay", "running"}]
    BY <1>2 DEF HB!Admit, Sound, Breaker
  <2>2. /\ hb' \in Breaker /\ hb'.due = hb.due
        /\ hb'.state = IF hb.state = "open" THEN "half-open" ELSE hb.state
        /\ hb'.failureCount = hb.failureCount /\ hb'.requestCount = hb.requestCount
        /\ hb'.pc = [hb.pc EXCEPT ![c] = "running"] /\ hb'.attempt = hb.attempt
    <3> HIDE DEF st, pc
    <3>1. /\ hb' \in Breaker /\ hb'.due = hb.due /\ hb'.state = st /\ hb'.pc = pc
          /\ hb'.failureCount = hb.failureCount /\ hb'.requestCount = hb.requestCount
          /\ hb'.attempt = hb.attempt
      BY <2>1 DEF Breaker
    <3> QED
      BY <3>1 DEF st, pc
  <2>3. \A d \in HCallers : hb'.pc[d] = "delay" => hb'.attempt[d] > 0
    BY <2>2 DEF Sound, Breaker
  <2>4. hb'.state # "closed" => HB!ShouldOpen(hb')
    BY <2>2 DEF Sound, HB!ShouldOpen
  <2> QED
    BY <2>2, <2>3, <2>4 DEF Sound
<1> QED
  BY <1>1, <1>2

\* A failure is counted, and opens a breaker that has the failures and the volume.
LEMMA FailSound ==
  ASSUME HB!HttpRetryAssumption, Sound(hb), NEW c \in HCallers, NEW again \in BOOLEAN,
         HB!Fail(c, again)
  PROVE  Sound(hb') /\ (hb.state = "half-open" => hb'.state = "open")
<1> DEFINE h == [hb EXCEPT !.failureCount = HB!Inc(@), !.requestCount = HB!Inc(@), !.due = FALSE]
           g == [h EXCEPT !.state = IF HB!ShouldOpen(h) THEN "open" ELSE @]
<1>1. /\ FailureThreshold \in Nat \ {0} /\ VolumeThreshold \in Nat \ {0}
      /\ HB!RequestCap \in Nat /\ FailureThreshold < HB!RequestCap /\ VolumeThreshold < HB!RequestCap
  BY DEF HB!RequestCap, HB!HttpRetryAssumption
<1>2. hb \in Breaker
  BY DEF Sound
<1>3. ASSUME NEW n \in 0..HB!RequestCap PROVE HB!Inc(n) \in 0..HB!RequestCap /\ n <= HB!Inc(n)
  BY <1>1 DEF HB!Inc
<1>4. /\ h \in Breaker /\ h.state = hb.state /\ h.pc = hb.pc /\ h.attempt = hb.attempt
      /\ hb.failureCount <= h.failureCount /\ hb.requestCount <= h.requestCount
  BY <1>2, <1>3 DEF Breaker
<1>5. hb' = HB!Caught(g, c, again)
  BY DEF HB!Fail
<1> HIDE DEF h
<1>6. hb.state # "closed" => HB!ShouldOpen(h)
  BY <1>1, <1>2, <1>4 DEF Sound, HB!ShouldOpen, Breaker
<1>7. Sound(g) /\ g.state = IF HB!ShouldOpen(h) THEN "open" ELSE h.state
  BY <1>4, <1>6 DEF Sound, HB!ShouldOpen, Breaker
<1> HIDE DEF g
<1> QED
  BY <1>4, <1>5, <1>6, <1>7, CaughtSound

\* Every step keeps the breaker sound, whoever's late outcome it is, and one that
\* finds it half-open and starts its timeout again opens it.
LEMMA NextSound ==
  ASSUME HB!HttpRetryAssumption, Sound(hb), [HB!Next]_hb
  PROVE  Sound(hb') /\ (hb.state = "half-open" /\ hb.due /\ ~hb'.due => hb'.state = "open")
<1>0. hb \in Breaker
  BY DEF Sound
<1>1. ASSUME NEW c \in HCallers, HB!Attempt(c) PROVE Sound(hb') /\ hb'.due = hb.due
  BY <1>1, AdmitSound DEF HB!Attempt, HB!Call, HB!Again
<1>2. ASSUME NEW c \in HCallers, HB!Succeed(c) PROVE Sound(hb') /\ hb'.due = hb.due
  <2>1. /\ RetryAttempts \in Nat \ {0} /\ HB!RequestCap \in Nat /\ 0 \in 0..RetryAttempts - 1
        /\ 0 \in 0..HB!RequestCap
    BY DEF HB!RequestCap, HB!HttpRetryAssumption
  <2> DEFINE h == [hb EXCEPT !.pc[c] = "idle", !.attempt[c] = 0]
  <2>2. /\ h \in Breaker /\ h.due = hb.due /\ h.state = hb.state
        /\ h.failureCount = hb.failureCount /\ h.requestCount = hb.requestCount
        /\ \A d \in HCallers : h.pc[d] = "delay" => h.attempt[d] > 0
    BY <1>0, <2>1 DEF Breaker, Sound
  <2> HIDE DEF h
  <2>3. CASE hb.state = "half-open"
    <3>1. hb' = [h EXCEPT !.state = "closed", !.failureCount = 0, !.requestCount = 0]
      BY <1>2, <2>3 DEF HB!Succeed, h
    <3> QED
      BY <2>1, <2>2, <3>1 DEF Sound, Breaker
  <2>4. CASE hb.state # "half-open"
    <3>1. hb' = [h EXCEPT !.requestCount = HB!Inc(@)]
      BY <1>2, <2>4 DEF HB!Succeed, h
    <3>2. HB!Inc(hb.requestCount) \in 0..HB!RequestCap /\ hb.requestCount <= HB!Inc(hb.requestCount)
      BY <1>0, <2>1 DEF HB!Inc, Breaker
    <3>3. /\ hb' \in Breaker /\ hb'.due = hb.due /\ hb'.state = hb.state
          /\ hb'.failureCount = hb.failureCount /\ hb.requestCount <= hb'.requestCount
          /\ hb'.pc = h.pc /\ hb'.attempt = h.attempt
      BY <2>2, <3>1, <3>2 DEF Breaker
    <3>4. VolumeThreshold \in Nat /\ hb.requestCount \in Nat /\ hb'.requestCount \in Nat
      BY <1>0, <2>1, <3>3 DEF HB!HttpRetryAssumption, Breaker
    <3> QED
      BY <2>2, <3>3, <3>4 DEF Sound, HB!ShouldOpen
  <2> QED
    BY <2>3, <2>4
<1>3. ASSUME NEW c \in HCallers, NEW again \in BOOLEAN, HB!Fail(c, again)
      PROVE  Sound(hb') /\ (hb.state = "half-open" => hb'.state = "open")
  BY <1>3, FailSound
<1>4. CASE HB!Elapse \/ HB!Heal \/ UNCHANGED hb
  BY <1>0, <1>4 DEF HB!Elapse, HB!Heal, Sound, Breaker, HB!ShouldOpen
<1> QED
  BY <1>1, <1>2, <1>3, <1>4 DEF HB!Next, HB!Answer

\* A new breaker is sound.
LEMMA SoundInit == HB!HttpRetryAssumption /\ HB!Init => Sound(hb)
<1> SUFFICES ASSUME HB!HttpRetryAssumption, HB!Init PROVE Sound(hb)
  OBVIOUS
<1>1. RetryAttempts \in Nat \ {0} /\ HB!RequestCap \in Nat
  BY DEF HB!RequestCap, HB!HttpRetryAssumption
<1> QED
  BY <1>1 DEF HB!Init, Sound, Breaker

\* Sound is an invariant.
LEMMA AlwaysSound ==
  ASSUME HB!HttpRetryAssumption
  PROVE  HB!Spec => [](Sound(hb)) /\ HB!FailedProbeReopens
<1>1. HB!Init => Sound(hb)
  BY SoundInit
<1>2. Sound(hb) /\ [HB!Next]_hb => Sound(hb)'
  BY NextSound
<1>3. Sound(hb) /\ [HB!Next]_hb
        => [hb.state = "half-open" /\ hb.due /\ ~hb'.due => hb'.state = "open"]_hb
  BY NextSound
<1> QED
  BY <1>1, <1>2, <1>3, PTL DEF HB!Spec, HB!FailedProbeReopens

\* A breaker that is not closed has earned it, for any thresholds and however many
\* late outcomes of earlier calls arrive.
THEOREM OpenWasEarned == ASSUME HB!HttpRetryAssumption PROVE HB!Spec => []HB!OpenIsEarned
<1>1. Sound(hb) => HB!OpenIsEarned
  BY DEF Sound, HB!OpenIsEarned
<1> QED
  BY <1>1, AlwaysSound, PTL

\* A failed probe, and any other failure in half-open, opens the breaker again.
THEOREM ProbesReopen == ASSUME HB!HttpRetryAssumption PROVE HB!Spec => HB!FailedProbeReopens
BY AlwaysSound

-----------------------------------------------------------------------------
(* WebSocketClient.                                                        *)

SocketStates == {"connecting", "open", "closing", "aborting", "closed"}
Socket == [st : SocketStates, pending : BOOLEAN, timer : BOOLEAN]

\* The fields of a client w have their types.
ClientType(w) ==
  w \in [state : {"CLOSED", "CONNECTING", "OPEN", "CLOSING"}, socks : Seq(Socket),
         attempt : 0..MaxReconnect, timer : BOOLEAN, leaked : Nat, beat : BOOLEAN,
         beats : Nat, queue : Seq(Nat), processing : BOOLEAN, wanted : BOOLEAN,
         stale : BOOLEAN, sends : Nat, wire : Seq(Nat), overtook : SUBSET Nat]

IsLive(k) == k.st \in {"connecting", "open"}

\* The last of the sockets S is the only live one, and state st tells how far it is.
LastIsLive(st, S) ==
  /\ \A s \in 1..Len(S) : IsLive(S[s]) => s = Len(S)
  /\ \A s \in 1..Len(S) : S[s].st = "connecting" => S[s].pending
  /\ st = "CONNECTING" => Len(S) > 0 /\ S[Len(S)].st = "connecting"
  /\ st = "OPEN" => Len(S) > 0 /\ S[Len(S)].st = "open"
  /\ st \in {"CLOSED", "CLOSING"} /\ Len(S) > 0 => ~IsLive(S[Len(S)])

Retries(w) == w.timer \/ w.leaked > 0 \/ w.attempt = MaxReconnect

\* What holds of the connection until an older socket interferes.
ConnectionExact(w) ==
  ~w.stale =>
    /\ LastIsLive(w.state, w.socks) /\ w.beats = 0 /\ w.beat = (w.state = "OPEN")
    /\ w.wanted /\ w.state = "CLOSED" => Retries(w)

\* The queue q rises up to n, the number of send() calls; what is on the wire x came
\* from them, once, and what overtook an older message is in o.
MessagesExact(q, x, o, n) ==
  /\ \A i \in 1..Len(q) : q[i] <= n
  /\ \A i, j \in 1..Len(q) : i < j => q[i] < q[j]
  /\ \A j \in 1..Len(x) : x[j] <= n
  /\ \A j, k \in 1..Len(x) : j # k => x[j] # x[k]
  /\ \A j, k \in 1..Len(x) : j < k /\ x[j] > x[k] => x[j] \in o
  /\ \A i \in 1..Len(q), j \in 1..Len(x) : q[i] # x[j] /\ (x[j] > q[i] => x[j] \in o)

\* The messages of w and v are the same, or the queue of v is empty.
SameMessages(w, v) ==
  v.queue \in {w.queue, <<>>} /\ v.wire = w.wire /\ v.overtook = w.overtook /\ v.sends = w.sends

\* The messages stay exact while the connection changes.
LEMMA MessagesStay ==
  ASSUME NEW w, ClientType(w), NEW v, SameMessages(w, v),
         MessagesExact(w.queue, w.wire, w.overtook, w.sends)
  PROVE  MessagesExact(v.queue, v.wire, v.overtook, v.sends)
<1>1. CASE v.queue = w.queue
  BY <1>1 DEF SameMessages
<1>2. CASE v.queue = <<>>
  <2>1. Len(v.queue) = 0
    BY <1>2
  <2>2. 1..Len(v.queue) = {}
    BY <2>1
  <2> QED
    BY <2>2 DEF SameMessages, MessagesExact
<1> QED
  BY <1>1, <1>2 DEF SameMessages

\* A socket is added to the sockets S, and none of those was live.
LEMMA NewSocket ==
  ASSUME NEW st \in {"CLOSED", "CLOSING"}, NEW S \in Seq(Socket),
         NEW k \in Socket, k.st = "connecting", k.pending
  PROVE  /\ Append(S, k) \in Seq(Socket)
         /\ LastIsLive(st, S) => LastIsLive("CONNECTING", Append(S, k))
<1>1. PICK n \in Nat : n = Len(S)
  BY LenProperties
<1>2. PICK T : T = Append(S, k)
  OBVIOUS
<1>3. T \in Seq(Socket) /\ Len(T) = n + 1 /\ T[n + 1] = k /\ \A s \in 1..n : T[s] = S[s]
  BY <1>1, <1>2, AppendProperties
<1>4. ASSUME LastIsLive(st, S) PROVE LastIsLive("CONNECTING", T)
  <2>1. \A s \in 1..n : ~IsLive(S[s])
    BY <1>1, <1>4 DEF LastIsLive
  <2>2. \A s \in 1..n + 1 : s \in 1..n \/ s = n + 1
    OBVIOUS
  <2>3. \A s \in 1..Len(T) : IsLive(T[s]) => s = Len(T)
    BY <1>3, <2>1, <2>2
  <2>4. \A s \in 1..Len(T) : T[s].st = "connecting" => T[s].pending
    BY <1>3, <2>1, <2>2 DEF IsLive
  <2> QED
    BY <1>3, <2>3, <2>4 DEF LastIsLive
<1> QED
  BY <1>2, <1>3, <1>4

\* connect() in its two cases.
LEMMA ConnectKeeps ==
  ASSUME NEW w, ClientType(w)
  PROVE  /\ ClientType(WC!Connect(w)) /\ SameMessages(w, WC!Connect(w))
         /\ WC!Connect(w).state \in {"CONNECTING", "OPEN"}
         /\ WC!Connect(w).stale = w.stale /\ WC!Connect(w).wanted = w.wanted
         /\ ~w.stale /\ LastIsLive(w.state, w.socks) /\ w.beats = 0 /\ w.beat = (w.state = "OPEN")
              => ConnectionExact(WC!Connect(w))
<1>1. CASE w.state \in {"CONNECTING", "OPEN"}
  <2>1. WC!Connect(w) = w
    BY <1>1 DEF WC!Connect
  <2> QED
    BY <1>1, <2>1 DEF SameMessages, ConnectionExact
<1>2. CASE w.state \notin {"CONNECTING", "OPEN"}
  <2>1. PICK k : k = [st |-> "connecting", pending |-> TRUE, timer |-> TRUE]
    OBVIOUS
  <2>2. k \in Socket /\ k.st = "connecting" /\ k.pending
    BY <2>1 DEF Socket, SocketStates
  <2>3. w.state \in {"CLOSED", "CLOSING"} /\ w.socks \in Seq(Socket)
    BY <1>2 DEF ClientType
  <2>4. PICK T : T = Append(w.socks, k)
    OBVIOUS
  <2>5. T \in Seq(Socket) /\ (LastIsLive(w.state, w.socks) => LastIsLive("CONNECTING", T))
    BY <2>2, <2>3, <2>4, NewSocket
  <2>6. WC!Connect(w) = [w EXCEPT !.state = "CONNECTING", !.timer = FALSE, !.socks = T]
    BY <1>2, <2>1, <2>4 DEF WC!Connect
  <2>7. PICK v : v = [w EXCEPT !.state = "CONNECTING", !.timer = FALSE, !.socks = T]
    OBVIOUS
  <2>8. /\ ClientType(v) /\ v.state = "CONNECTING" /\ v.socks = T /\ v.beats = w.beats
        /\ v.beat = w.beat /\ v.stale = w.stale /\ v.wanted = w.wanted
        /\ v.queue = w.queue /\ v.wire = w.wire /\ v.overtook = w.overtook /\ v.sends = w.sends
    BY <2>5, <2>7 DEF ClientType
  <2> QED
    BY <1>2, <2>3, <2>5, <2>6, <2>7, <2>8 DEF SameMessages, ConnectionExact
<1> QED
  BY <1>1, <1>2

\* A step from w to v that leaves the sockets, the state and the heartbeat alone.
SameConnection(w, v) ==
  /\ v.socks = w.socks /\ v.state = w.state /\ v.beat = w.beat /\ v.beats = w.beats
  /\ v.stale = w.stale /\ v.wanted = w.wanted

Scheduled(w, v) ==
  ClientType(v) /\ SameMessages(w, v) /\ SameConnection(w, v) /\ Retries(v)

\* scheduleReconnect() arms a timer, or the attempts are used up.
LEMMA ScheduleKeeps ==
  ASSUME MaxReconnect \in Nat \ {0}, NEW w, ClientType(w)
  PROVE  Scheduled(w, WC!Schedule(w))
<1>1. w.attempt \in 0..MaxReconnect /\ w.leaked \in Nat
  BY DEF ClientType
<1>2. CASE w.attempt >= MaxReconnect
  <2>1. WC!Schedule(w) = w /\ w.attempt = MaxReconnect
    BY <1>1, <1>2 DEF WC!Schedule
  <2> QED
    BY <2>1 DEF Scheduled, SameMessages, SameConnection, Retries
<1>3. CASE ~(w.attempt >= MaxReconnect)
  <2>1. PICK a, l : a = w.attempt + 1 /\ l = IF w.timer THEN w.leaked + 1 ELSE w.leaked
    OBVIOUS
  <2>2. a \in 0..MaxReconnect /\ l \in Nat
    BY <1>1, <1>3, <2>1
  <2>3. PICK v : v = [w EXCEPT !.attempt = a, !.timer = TRUE, !.leaked = l]
    OBVIOUS
  <2>4. WC!Schedule(w) = v
    BY <1>3, <2>1, <2>3 DEF WC!Schedule
  <2>5. ClientType(v) /\ v.timer
    BY <2>2, <2>3 DEF ClientType
  <2>6. SameMessages(w, v) /\ SameConnection(w, v)
    BY <2>3 DEF ClientType, SameMessages, SameConnection
  <2> QED
    BY <2>4, <2>5, <2>6 DEF Scheduled, Retries
<1> QED
  BY <1>2, <1>3

\* The sockets T are S but for socket s, which is k.
Replaced(S, s, k, T) ==
  /\ T \in Seq(Socket) /\ Len(T) = Len(S) /\ T[s] = k
  /\ \A i \in 1..Len(S) : i # s => T[i] = S[i]

\* One socket is replaced.
LEMMA SocketReplaced ==
  ASSUME NEW S \in Seq(Socket), NEW s \in 1..Len(S), NEW k \in Socket
  PROVE  Replaced(S, s, k, [S EXCEPT ![s] = k])
BY ExceptSeq DEF Replaced

\* If the last socket is replaced, it decides; another must not be live.
LEMMA ReplacedIsLive ==
  ASSUME NEW S \in Seq(Socket), NEW s \in 1..Len(S), NEW k, NEW T, Replaced(S, s, k, T),
         NEW st, NEW to, LastIsLive(st, S),
         k.st = "connecting" => k.pending, s # Len(S) => to = st /\ ~IsLive(k),
         s = Len(S) => /\ to = "CONNECTING" => k.st = "connecting"
                       /\ to = "OPEN" => k.st = "open"
                       /\ to \in {"CLOSED", "CLOSING"} => ~IsLive(k)
  PROVE  LastIsLive(to, T)
<1>1. PICK n \in Nat : n = Len(S)
  BY LenProperties
<1>2. n > 0 /\ Len(T) = n /\ n \in 1..n /\ T[s] = k /\ \A i \in 1..n : i # s => T[i] = S[i]
  BY <1>1 DEF Replaced
<1>3. \A i \in 1..n : IsLive(T[i]) => i = n
  BY <1>1, <1>2 DEF LastIsLive
<1>4. \A i \in 1..n : T[i].st = "connecting" => T[i].pending
  BY <1>1, <1>2 DEF LastIsLive
<1>5. CASE s = n
  BY <1>1, <1>2, <1>3, <1>4, <1>5 DEF LastIsLive
<1>6. CASE s # n
  <2>1. T[n] = S[n] /\ to = st
    BY <1>1, <1>2, <1>6
  <2> QED
    BY <1>1, <1>2, <1>3, <1>4, <2>1 DEF LastIsLive
<1> QED
  BY <1>5, <1>6

\* What close() of the library makes of w: the last socket is not live.
Shut(w, v) ==
  /\ ClientType(v) /\ SameMessages(w, v) /\ v.state = w.state /\ v.beat = w.beat
  /\ v.beats = w.beats /\ v.stale = w.stale /\ v.wanted = w.wanted
  /\ Len(v.socks) = Len(w.socks)
  /\ \A i \in 1..Len(w.socks) : v.socks[i].pending = w.socks[i].pending
  /\ \A st : LastIsLive(st, w.socks) => LastIsLive("CLOSING", v.socks)

\* close() of the library.
LEMMA CloseShuts ==
  ASSUME NEW w, ClientType(w)
  PROVE  Shut(w, WC!Close(w))
<1>1. PICK S \in Seq(Socket) : S = w.socks
  BY DEF ClientType
<1>2. PICK n \in Nat : n = Len(S)
  BY LenProperties
<1>3. CASE n = 0
  <2>1. WC!Close(w) = w
    BY <1>1, <1>2, <1>3 DEF WC!Close
  <2>2. LastIsLive("CLOSING", S)
    BY <1>2, <1>3 DEF LastIsLive
  <2> QED
    BY <1>1, <2>1, <2>2 DEF Shut, SameMessages
<1>4. CASE n # 0
  <2>1. n \in 1..n /\ S[n] \in Socket
    BY <1>2, <1>4, ElementOfSeq
  <2>2. PICK c : c = IF S[n].st = "connecting" THEN "aborting"
                     ELSE IF S[n].st = "open" THEN "closing" ELSE S[n].st
    OBVIOUS
  <2>3. PICK k : k = [S[n] EXCEPT !.st = c]
    OBVIOUS
  <2>4. k \in Socket /\ ~IsLive(k) /\ k.st # "connecting" /\ k.pending = S[n].pending
    BY <2>1, <2>2, <2>3 DEF Socket, SocketStates, IsLive
  <2>5. PICK T : T = [S EXCEPT ![n] = k]
    OBVIOUS
  <2>6. Replaced(S, n, k, T)
    BY <1>2, <2>1, <2>4, <2>5, SocketReplaced
  <2>7. PICK v : v = [w EXCEPT !.socks = T]
    OBVIOUS
  <2>8. WC!Close(w) = v
    BY <1>1, <1>2, <1>4, <2>2, <2>3, <2>5, <2>7 DEF WC!Close
  <2>9. /\ ClientType(v) /\ v.socks = T /\ v.state = w.state /\ v.beat = w.beat
        /\ v.beats = w.beats /\ v.stale = w.stale /\ v.wanted = w.wanted /\ SameMessages(w, v)
    BY <2>6, <2>7 DEF ClientType, Replaced, SameMessages
  <2>10. \A i \in 1..n : T[i].pending = S[i].pending
    BY <1>2, <2>4, <2>6 DEF Replaced
  <2>11. ASSUME NEW st, LastIsLive(st, S) PROVE LastIsLive("CLOSING", T)
    BY <1>2, <2>1, <2>4, <2>6, <2>11, ReplacedIsLive
  <2> QED
    BY <1>1, <1>2, <2>6, <2>8, <2>9, <2>10, <2>11 DEF Shut, Replaced
<1> QED
  BY <1>3, <1>4

\* The client w is as it should be.
ClientExact(w) ==
  /\ ClientType(w) /\ ConnectionExact(w)
  /\ MessagesExact(w.queue, w.wire, w.overtook, w.sends)

\* The connection of w has been lost: no socket is live and no heartbeat runs.
Lost(w) == ~w.stale => LastIsLive("CLOSING", w.socks) /\ w.beats = 0 /\ w.beat = FALSE

\* The catch block of connect() ends as a lost connection that is retried.
LEMMA RejectedKeeps ==
  ASSUME MaxReconnect \in Nat \ {0}, NEW w, ClientType(w), NEW s \in 1..Len(w.socks), Lost(w),
         ~w.stale => w.socks[s].pending \/ (w.state = "CLOSED" /\ Retries(w))
  PROVE  LET v == WC!Rejected(w, s) IN
         ClientType(v) /\ SameMessages(w, v) /\ ConnectionExact(v)
<1>1. PICK S \in Seq(Socket) : S = w.socks
  BY DEF ClientType
<1>2. PICK n \in Nat : n = Len(S)
  BY LenProperties
<1>3. CASE ~S[s].pending
  <2>1. WC!Rejected(w, s) = w
    BY <1>1, <1>3 DEF WC!Rejected
  <2>2. LastIsLive("CLOSING", S) => LastIsLive("CLOSED", S)
    BY DEF LastIsLive
  <2>3. ConnectionExact(w)
    BY <1>1, <1>3, <2>2 DEF Lost, ConnectionExact
  <2> QED
    BY <2>1, <2>3 DEF SameMessages
<1>4. CASE S[s].pending
  <2>1. S[s] \in Socket
    BY <1>1, ElementOfSeq
  <2>2. PICK k : k = [S[s] EXCEPT !.pending = FALSE]
    OBVIOUS
  <2>3. k \in Socket /\ k.st = S[s].st
    BY <2>1, <2>2 DEF Socket
  <2>4. PICK T : T = [S EXCEPT ![s] = k]
    OBVIOUS
  <2>5. Replaced(S, s, k, T)
    BY <1>1, <2>3, <2>4, SocketReplaced
  <2>6. PICK u : u = [w EXCEPT !.socks = T, !.state = "CLOSED"]
    OBVIOUS
  <2>7. WC!Rejected(w, s) = WC!Schedule(u)
    BY <1>1, <1>4, <2>2, <2>4, <2>6 DEF WC!Rejected
  <2>8. /\ ClientType(u) /\ u.socks = T /\ u.state = "CLOSED" /\ u.beat = w.beat
        /\ u.beats = w.beats /\ u.stale = w.stale /\ SameMessages(w, u)
    BY <2>5, <2>6 DEF ClientType, Replaced, SameMessages
  <2>9. ASSUME LastIsLive("CLOSING", S) PROVE LastIsLive("CLOSED", T)
    <3>1. \A i \in 1..n : ~IsLive(S[i])
      BY <1>2, <2>9 DEF LastIsLive
    <3>2. ~IsLive(k)
      BY <1>1, <1>2, <2>3, <3>1 DEF IsLive
    <3>3. \A i \in 1..n : ~IsLive(T[i])
      BY <1>2, <2>5, <3>1, <3>2 DEF Replaced
    <3>4. Len(T) = n
      BY <1>2, <2>5 DEF Replaced
    <3> QED
      BY <1>2, <3>3, <3>4 DEF LastIsLive, IsLive
  <2>10. PICK v : v = WC!Schedule(u)
    OBVIOUS
  <2>11. Scheduled(u, v)
    BY <2>8, <2>10, ScheduleKeeps
  <2>12. ClientType(v) /\ SameMessages(u, v) /\ SameConnection(u, v) /\ Retries(v)
    BY <2>11 DEF Scheduled
  <2>13. SameMessages(w, v)
    BY <2>8, <2>12 DEF SameMessages
  <2>14. ConnectionExact(v)
    BY <1>1, <2>8, <2>9, <2>12 DEF Lost, SameConnection, ConnectionExact
  <2> QED
    BY <2>7, <2>10, <2>12, <2>13, <2>14
<1> QED
  BY <1>3, <1>4

\* connect() of the application.
LEMMA UserConnectKeeps ==
  ASSUME ClientExact(ws), WC!UserConnect
  PROVE  ClientExact(ws')
<1>1. PICK u : u = WC!Connect(ws)
  OBVIOUS
<1>2. /\ ClientType(u) /\ SameMessages(ws, u) /\ u.state \in {"CONNECTING", "OPEN"}
      /\ ConnectionExact(u)
  <2>1. ~ws.stale => LastIsLive(ws.state, ws.socks) /\ ws.beats = 0 /\ ws.beat = (ws.state = "OPEN")
    BY DEF ClientExact, ConnectionExact
  <2>2. /\ ClientType(u) /\ SameMessages(ws, u) /\ u.state \in {"CONNECTING", "OPEN"}
        /\ u.stale = ws.stale
        /\ ~ws.stale /\ LastIsLive(ws.state, ws.socks) /\ ws.beats = 0 /\ ws.beat = (ws.state = "OPEN")
             => ConnectionExact(u)
    BY <1>1, ConnectKeeps DEF ClientExact
  <2> QED
    BY <2>1, <2>2 DEF ConnectionExact
<1>3. ws' = [u EXCEPT !.wanted = TRUE]
  BY <1>1 DEF WC!UserConnect
<1>4. PICK v : v = [u EXCEPT !.wanted = TRUE]
  OBVIOUS
<1>5. /\ ClientType(v) /\ SameMessages(u, v) /\ v.state = u.state /\ v.socks = u.socks
      /\ v.beat = u.beat /\ v.beats = u.beats /\ v.stale = u.stale
  BY <1>2, <1>4 DEF ClientType, SameMessages
<1>6. ConnectionExact(v)
  BY <1>2, <1>5 DEF ConnectionExact
<1>7. SameMessages(ws, v)
  BY <1>2, <1>5 DEF SameMessages
<1>8. MessagesExact(v.queue, v.wire, v.overtook, v.sends)
  BY <1>7, MessagesStay DEF ClientExact
<1> QED
  BY <1>3, <1>4, <1>5, <1>6, <1>8 DEF ClientExact

\* A reconnection timer fires.
LEMMA TimerKeeps ==
  ASSUME ClientExact(ws), NEW leaked \in BOOLEAN, WC!TimerFires(leaked)
  PROVE  ClientExact(ws')
<1>1. PICK u : u = IF leaked THEN [ws EXCEPT !.leaked = ws.leaked - 1] ELSE [ws EXCEPT !.timer = FALSE]
  OBVIOUS
<1>2. ws' = WC!Connect(u)
  BY <1>1 DEF WC!TimerFires
<1>3. /\ ClientType(u) /\ SameMessages(ws, u) /\ u.state = ws.state /\ u.socks = ws.socks
      /\ u.beat = ws.beat /\ u.beats = ws.beats /\ u.stale = ws.stale
  <2>1. ClientType(ws)
    BY DEF ClientExact
  <2>2. CASE leaked
    <3>1. PICK l \in Nat : l = ws.leaked - 1
      BY <2>1, <2>2 DEF WC!TimerFires, ClientType
    <3>2. u = [ws EXCEPT !.leaked = l]
      BY <1>1, <2>2, <3>1
    <3> QED
      BY <2>1, <3>2 DEF ClientType, SameMessages
  <2>3. CASE ~leaked
    <3>1. u = [ws EXCEPT !.timer = FALSE]
      BY <1>1, <2>3
    <3> QED
      BY <2>1, <3>1 DEF ClientType, SameMessages
  <2> QED
    BY <2>2, <2>3
<1>4. PICK v : v = WC!Connect(u)
  OBVIOUS
<1>5. /\ ClientType(v) /\ SameMessages(u, v) /\ v.stale = u.stale
      /\ ~u.stale /\ LastIsLive(u.state, u.socks) /\ u.beats = 0 /\ u.beat = (u.state = "OPEN")
           => ConnectionExact(v)
  BY <1>3, <1>4, ConnectKeeps
<1>6. ConnectionExact(v)
  BY <1>3, <1>5 DEF ClientExact, ConnectionExact
<1>7. SameMessages(ws, v)
  BY <1>3, <1>5 DEF SameMessages
<1>8. MessagesExact(v.queue, v.wire, v.overtook, v.sends)
  BY <1>7, MessagesStay DEF ClientExact
<1> QED
  BY <1>2, <1>4, <1>5, <1>6, <1>8 DEF ClientExact

\* disconnect().
LEMMA DisconnectKeeps ==
  ASSUME MaxReconnect \in Nat \ {0}, ClientExact(ws), WC!Disconnect
  PROVE  ClientExact(ws')
<1>1. ClientType(ws) /\ ConnectionExact(ws)
  BY DEF ClientExact
<1>2. PICK w : w = [ws EXCEPT !.timer = FALSE, !.beat = FALSE, !.attempt = 0, !.queue = <<>>,
                              !.wanted = FALSE]
  OBVIOUS
<1>3. 0 \in 0..MaxReconnect /\ <<>> \in Seq(Nat)
  BY EmptySeq
<1>4. /\ ClientType(w) /\ SameMessages(ws, w) /\ w.state = ws.state /\ w.socks = ws.socks
      /\ w.beat = FALSE /\ w.beats = ws.beats /\ w.stale = ws.stale /\ w.wanted = FALSE
      /\ w.queue = <<>>
  BY <1>1, <1>2, <1>3 DEF ClientType, SameMessages
<1>5. PICK c : c = IF Len(ws.socks) > 0 /\ ws.state # "CLOSED" THEN "CLOSING" ELSE "CLOSED"
  OBVIOUS
<1>6. PICK u : u = [w EXCEPT !.state = c]
  OBVIOUS
<1>7. /\ ClientType(u) /\ SameMessages(ws, u) /\ u.state = c /\ u.socks = ws.socks
      /\ u.beat = FALSE /\ u.beats = ws.beats /\ u.stale = ws.stale /\ u.wanted = FALSE
  BY <1>4, <1>5, <1>6 DEF ClientType, SameMessages
<1>8. CASE Len(ws.socks) > 0 /\ ws.state # "CLOSED"
  <2>1. ws' = WC!Close(u) /\ c = "CLOSING"
    BY <1>2, <1>5, <1>6, <1>8 DEF WC!Disconnect, WC!Cur
  <2>2. PICK v : v = WC!Close(u)
    OBVIOUS
  <2>3. Shut(u, v)
    BY <1>7, <2>2, CloseShuts
  <2>4. ~ws.stale => LastIsLive("CLOSING", v.socks)
    BY <1>1, <1>7, <2>3 DEF Shut, ConnectionExact
  <2>5. ClientType(v) /\ ConnectionExact(v) /\ SameMessages(ws, v)
    BY <1>1, <1>7, <2>1, <2>3, <2>4 DEF Shut, ConnectionExact, SameMessages
  <2>6. MessagesExact(v.queue, v.wire, v.overtook, v.sends)
    BY <1>1, <2>5, MessagesStay DEF ClientExact
  <2> QED
    BY <2>1, <2>2, <2>5, <2>6 DEF ClientExact
<1>9. CASE ~(Len(ws.socks) > 0 /\ ws.state # "CLOSED")
  <2>1. ws' = u /\ c = "CLOSED"
    BY <1>2, <1>5, <1>6, <1>9 DEF WC!Disconnect, WC!Cur
  <2>2. ConnectionExact(u)
    BY <1>1, <1>7, <1>9, <2>1 DEF ConnectionExact, LastIsLive, ClientType
  <2>3. MessagesExact(u.queue, u.wire, u.overtook, u.sends)
    BY <1>1, <1>7, MessagesStay DEF ClientExact
  <2> QED
    BY <1>7, <2>1, <2>2, <2>3 DEF ClientExact
<1> QED
  BY <1>8, <1>9

\* Socket s ends, and the client is w; k is what is left of the socket.
EndsAs(s, k, wanted, w) ==
  w = [ws EXCEPT !.socks = [ws.socks EXCEPT ![s] = k], !.state = "CLOSED", !.beat = FALSE,
                 !.stale = WC!Stale(s), !.wanted = wanted]

\* A socket that ends leaves a lost connection.
LEMMA SocketEnds ==
  ASSUME ClientExact(ws), NEW s \in 1..Len(ws.socks), NEW k \in Socket, ~IsLive(k),
         NEW wanted \in BOOLEAN,
         NEW w, EndsAs(s, k, wanted, w)
  PROVE  /\ ClientType(w) /\ Lost(w) /\ SameMessages(ws, w) /\ w.state = "CLOSED"
         /\ s \in 1..Len(w.socks) /\ w.wanted = wanted
<1>1. ClientType(ws) /\ ConnectionExact(ws)
  BY DEF ClientExact
<1>2. PICK S \in Seq(Socket) : S = ws.socks
  BY <1>1 DEF ClientType
<1>3. PICK T : T = [S EXCEPT ![s] = k]
  OBVIOUS
<1>4. Replaced(S, s, k, T)
  BY <1>2, <1>3, SocketReplaced
<1>5. PICK q \in BOOLEAN : q = WC!Stale(s)
  BY DEF WC!Stale
<1>6. ~q => ~ws.stale /\ s = Len(S)
  BY <1>2, <1>5 DEF WC!Stale, WC!Cur
<1>7. w = [ws EXCEPT !.socks = T, !.state = "CLOSED", !.beat = FALSE, !.stale = q,
                     !.wanted = wanted]
  BY <1>2, <1>3, <1>5 DEF EndsAs
<1>8. /\ ClientType(w) /\ SameMessages(ws, w) /\ w.state = "CLOSED" /\ w.socks = T
      /\ w.beat = FALSE /\ w.beats = ws.beats /\ w.stale = q /\ w.wanted = wanted
  BY <1>1, <1>4, <1>7 DEF ClientType, Replaced, SameMessages
<1>9. ASSUME ~q PROVE LastIsLive("CLOSING", T)
  <2>1. LastIsLive(ws.state, S) /\ k.st # "connecting"
    BY <1>1, <1>2, <1>6, <1>9 DEF ConnectionExact, IsLive
  <2> QED
    BY <1>2, <1>4, <1>6, <1>9, <2>1, ReplacedIsLive
<1> QED
  BY <1>1, <1>2, <1>4, <1>6, <1>8, <1>9 DEF Lost, Replaced, ConnectionExact

\* The handshake of a socket fails.
LEMMA FailsKeeps ==
  ASSUME MaxReconnect \in Nat \ {0}, ClientExact(ws), NEW s, WC!SocketFails(s)
  PROVE  ClientExact(ws')
<1>1. ClientType(ws) /\ s \in 1..Len(ws.socks)
  BY DEF ClientExact, WC!SocketFails, WC!Cur
<1>2. ws.socks[s] \in Socket
  BY <1>1, ElementOfSeq DEF ClientType
<1>3. PICK k : k = [ws.socks[s] EXCEPT !.st = "closed"]
  OBVIOUS
<1>4. k \in Socket /\ ~IsLive(k)
  BY <1>2, <1>3 DEF Socket, SocketStates, IsLive
<1>5. PICK b : b = ws.wanted /\ b \in BOOLEAN
  BY <1>1 DEF ClientType
<1>6. PICK w : EndsAs(s, k, b, w)
  BY DEF EndsAs
<1>7. w = [ws EXCEPT !.socks[s].st = "closed", !.state = "CLOSED", !.beat = FALSE,
                     !.stale = WC!Stale(s)]
  BY <1>1, <1>3, <1>5, <1>6 DEF ClientType, EndsAs
<1>8. ws' = WC!Rejected(WC!Schedule(w), s)
  BY <1>7 DEF WC!SocketFails
<1>9. /\ ClientType(w) /\ Lost(w) /\ SameMessages(ws, w) /\ w.state = "CLOSED"
      /\ s \in 1..Len(w.socks)
  BY <1>1, <1>4, <1>5, <1>6, SocketEnds
<1>10. PICK u : u = WC!Schedule(w)
  OBVIOUS
<1>11. Scheduled(w, u)
  BY <1>9, <1>10, ScheduleKeeps
<1>12. /\ ClientType(u) /\ Lost(u) /\ SameMessages(ws, u) /\ u.state = "CLOSED"
       /\ s \in 1..Len(u.socks) /\ Retries(u)
  BY <1>9, <1>11 DEF Scheduled, SameConnection, Lost, SameMessages
<1>13. PICK v : v = WC!Rejected(u, s)
  OBVIOUS
<1>14. ClientType(v) /\ SameMessages(u, v) /\ ConnectionExact(v)
  BY <1>12, <1>13, RejectedKeeps
<1>15. SameMessages(ws, v)
  BY <1>12, <1>14 DEF SameMessages
<1>16. MessagesExact(v.queue, v.wire, v.overtook, v.sends)
  BY <1>15, MessagesStay DEF ClientExact
<1> QED
  BY <1>8, <1>10, <1>13, <1>14, <1>16 DEF ClientExact

\* A socket that was open closes.
LEMMA ClosesKeeps ==
  ASSUME MaxReconnect \in Nat \ {0}, ClientExact(ws), NEW s, NEW clean \in BOOLEAN,
         WC!SocketCloses(s, clean)
  PROVE  ClientExact(ws')
<1>1. ClientType(ws) /\ s \in 1..Len(ws.socks)
  BY DEF ClientExact, WC!SocketCloses, WC!Cur
<1>2. ws.socks[s] \in Socket
  BY <1>1, ElementOfSeq DEF ClientType
<1>3. PICK k : k = [ws.socks[s] EXCEPT !.st = "closed"]
  OBVIOUS
<1>4. k \in Socket /\ ~IsLive(k)
  BY <1>2, <1>3 DEF Socket, SocketStates, IsLive
<1>5. PICK b \in BOOLEAN : b = (ws.wanted /\ ~clean)
  OBVIOUS
<1>6. PICK w : EndsAs(s, k, b, w)
  BY DEF EndsAs
<1>7. w = [ws EXCEPT !.socks[s].st = "closed", !.state = "CLOSED", !.beat = FALSE,
                     !.stale = WC!Stale(s), !.wanted = ws.wanted /\ ~clean]
  BY <1>3, <1>5, <1>6 DEF EndsAs
<1>8. ws' = IF clean THEN w ELSE WC!Schedule(w)
  BY <1>7 DEF WC!SocketCloses
<1>9. /\ ClientType(w) /\ Lost(w) /\ SameMessages(ws, w) /\ w.state = "CLOSED" /\ w.wanted = b
  BY <1>1, <1>4, <1>5, <1>6, SocketEnds
<1>10. ASSUME NEW v, Lost(v), v.state = "CLOSED" PROVE ~v.stale => LastIsLive("CLOSED", v.socks)
  BY <1>10 DEF Lost, LastIsLive
<1>11. CASE clean
  <2>1. ConnectionExact(w)
    BY <1>5, <1>9, <1>10, <1>11 DEF ConnectionExact, Lost
  <2>2. MessagesExact(w.queue, w.wire, w.overtook, w.sends)
    BY <1>9, MessagesStay DEF ClientExact
  <2> QED
    BY <1>8, <1>9, <1>11, <2>1, <2>2 DEF ClientExact
<1>12. CASE ~clean
  <2>1. PICK v : v = WC!Schedule(w)
    OBVIOUS
  <2>2. Scheduled(w, v)
    BY <1>9, <2>1, ScheduleKeeps
  <2>3. ClientType(v) /\ SameMessages(ws, v) /\ Lost(v) /\ v.state = "CLOSED" /\ Retries(v)
    BY <1>9, <2>2 DEF Scheduled, SameConnection, SameMessages, Lost
  <2>4. ConnectionExact(v)
    BY <1>10, <2>3 DEF ConnectionExact, Lost
  <2>5. MessagesExact(v.queue, v.wire, v.overtook, v.sends)
    BY <2>3, MessagesStay DEF ClientExact
  <2> QED
    BY <1>8, <1>12, <2>1, <2>3, <2>4, <2>5 DEF ClientExact
<1> QED
  BY <1>11, <1>12

\* The 30 s timer of a socket fires.
LEMMA TimeoutKeeps ==
  ASSUME MaxReconnect \in Nat \ {0}, ClientExact(ws), NEW s, WC!ConnectTimeout(s)
  PROVE  ClientExact(ws')
<1>1. ClientType(ws) /\ ConnectionExact(ws) /\ s \in 1..Len(ws.socks)
  BY DEF ClientExact, WC!ConnectTimeout, WC!Cur
<1>2. PICK S \in Seq(Socket) : S = ws.socks
  BY <1>1 DEF ClientType
<1>3. S[s] \in Socket
  BY <1>1, <1>2, ElementOfSeq
<1>4. PICK k : k = [S[s] EXCEPT !.timer = FALSE]
  OBVIOUS
<1>5. k \in Socket /\ k.st = S[s].st /\ k.pending = S[s].pending
  BY <1>3, <1>4 DEF Socket
<1>6. PICK T : T = [S EXCEPT ![s] = k]
  OBVIOUS
<1>7. Replaced(S, s, k, T)
  BY <1>1, <1>2, <1>5, <1>6, SocketReplaced
<1>8. PICK w : w = [ws EXCEPT !.socks = T]
  OBVIOUS
<1>9. w = [ws EXCEPT !.socks[s].timer = FALSE]
  BY <1>2, <1>4, <1>6, <1>8
<1>10. /\ ClientType(w) /\ SameMessages(ws, w) /\ w.socks = T /\ w.state = ws.state
       /\ w.beat = ws.beat /\ w.beats = ws.beats /\ w.stale = ws.stale /\ w.wanted = ws.wanted
       /\ Retries(ws) => Retries(w)
  BY <1>1, <1>7, <1>8 DEF ClientType, Replaced, SameMessages, Retries
<1>11. ASSUME LastIsLive(ws.state, S) PROVE LastIsLive(ws.state, T)
  <2>1. \A i \in 1..Len(S) : T[i].st = S[i].st /\ T[i].pending = S[i].pending
    BY <1>5, <1>7 DEF Replaced
  <2>2. Len(T) = Len(S)
    BY <1>7 DEF Replaced
  <2> QED
    BY <1>11, <2>1, <2>2, LenProperties DEF LastIsLive, IsLive
<1>12. CASE ws.state # "CONNECTING"
  <2>1. ws' = w
    BY <1>9, <1>12 DEF WC!ConnectTimeout
  <2>2. ConnectionExact(w)
    BY <1>1, <1>2, <1>10, <1>11 DEF ConnectionExact
  <2>3. MessagesExact(w.queue, w.wire, w.overtook, w.sends)
    BY <1>10, MessagesStay DEF ClientExact
  <2> QED
    BY <1>10, <2>1, <2>2, <2>3 DEF ClientExact
<1>13. CASE ws.state = "CONNECTING"
  <2>1. PICK q \in BOOLEAN : q = WC!Stale(s)
    BY DEF WC!Stale
  <2>2. ~q => ~ws.stale /\ s = Len(S)
    BY <1>2, <2>1 DEF WC!Stale, WC!Cur
  <2>3. PICK u : u = [w EXCEPT !.stale = q]
    OBVIOUS
  <2>4. ws' = WC!Rejected(WC!Close(u), s)
    BY <1>9, <1>13, <2>1, <2>3 DEF WC!ConnectTimeout
  <2>5. /\ ClientType(u) /\ SameMessages(ws, u) /\ u.socks = T /\ u.state = ws.state
        /\ u.beat = ws.beat /\ u.beats = ws.beats /\ u.stale = q
    BY <1>10, <2>3 DEF ClientType, SameMessages
  <2>6. PICK x : x = WC!Close(u)
    OBVIOUS
  <2>7. Shut(u, x)
    BY <2>5, <2>6, CloseShuts
  <2>8. /\ ClientType(x) /\ SameMessages(ws, x) /\ x.stale = q /\ Len(x.socks) = Len(S)
        /\ x.socks[s].pending = T[s].pending
    BY <1>1, <1>2, <1>7, <2>5, <2>7 DEF Shut, SameMessages, Replaced
  <2>9. Lost(x)
    BY <1>1, <1>2, <1>11, <1>13, <2>2, <2>5, <2>7 DEF Lost, Shut, ConnectionExact
  <2>10. ~x.stale => x.socks[s].pending
    <3>1. ASSUME ~q PROVE S[s].st = "connecting" /\ S[s].pending
      BY <1>1, <1>2, <1>13, <2>2, <3>1 DEF ConnectionExact, LastIsLive
    <3> QED
      BY <1>5, <1>7, <2>8, <3>1 DEF Replaced
  <2>11. PICK v : v = WC!Rejected(x, s)
    OBVIOUS
  <2>12. ClientType(v) /\ SameMessages(x, v) /\ ConnectionExact(v)
    BY <1>1, <1>2, <2>8, <2>9, <2>10, <2>11, RejectedKeeps
  <2>13. SameMessages(ws, v)
    BY <2>8, <2>12 DEF SameMessages
  <2>14. MessagesExact(v.queue, v.wire, v.overtook, v.sends)
    BY <2>13, MessagesStay DEF ClientExact
  <2> QED
    BY <2>4, <2>6, <2>11, <2>12, <2>14 DEF ClientExact
<1> QED
  BY <1>12, <1>13

\* The handshake of a socket succeeds.
LEMMA OpensKeeps ==
  ASSUME MaxReconnect \in Nat \ {0}, ClientExact(ws), NEW s, WC!SocketOpens(s)
  PROVE  ClientExact(ws')
<1>1. ClientType(ws) /\ ConnectionExact(ws) /\ s \in 1..Len(ws.socks)
  BY DEF ClientExact, WC!SocketOpens, WC!Cur
<1>2. PICK S \in Seq(Socket) : S = ws.socks
  BY <1>1 DEF ClientType
<1>3. S[s] \in Socket /\ S[s].st = "connecting"
  BY <1>1, <1>2, ElementOfSeq DEF WC!SocketOpens
<1>4. PICK k : k = [S[s] EXCEPT !.st = "open", !.pending = FALSE]
  OBVIOUS
<1>5. k \in Socket /\ k.st = "open"
  BY <1>3, <1>4 DEF Socket, SocketStates
<1>6. PICK T : T = [S EXCEPT ![s] = k]
  OBVIOUS
<1>7. Replaced(S, s, k, T)
  BY <1>1, <1>2, <1>5, <1>6, SocketReplaced
<1>8. PICK q \in BOOLEAN : q = WC!Stale(s)
  BY DEF WC!Stale
<1>9. PICK p \in BOOLEAN : p = (ws.queue # <<>>)
  OBVIOUS
<1>10. PICK b \in Nat : b = IF ws.beat THEN ws.beats + 1 ELSE ws.beats
  BY <1>1 DEF ClientType
<1>11. PICK v : v = [ws EXCEPT !.socks = T, !.state = "OPEN", !.attempt = 0, !.beat = TRUE,
                               !.beats = b, !.processing = p, !.stale = q]
  OBVIOUS
<1>12. ws' = v
  <2>1. PICK U : U = [S EXCEPT ![s] = [S[s] EXCEPT !.st = "open"]]
    OBVIOUS
  <2>2. U[s] = [S[s] EXCEPT !.st = "open"] /\ [U EXCEPT ![s] = [U[s] EXCEPT !.pending = FALSE]] = T
    <3>1. PICK a : a = [S[s] EXCEPT !.st = "open"]
      OBVIOUS
    <3>2. U = [S EXCEPT ![s] = a] /\ k = [a EXCEPT !.pending = FALSE]
      BY <1>4, <2>1, <3>1
    <3>3. S = [i \in 1..Len(S) |-> S[i]]
      OBVIOUS
    <3>4. U[s] = a
      BY <1>1, <1>2, <3>2, <3>3
    <3>5. [U EXCEPT ![s] = k] = T
      BY <1>1, <1>2, <1>6, <3>2, <3>3
    <3> QED
      BY <3>1, <3>2, <3>4, <3>5
  <2>3. PICK f : f = [ws EXCEPT !.socks[s].st = "open"]
    OBVIOUS
  <2>4. f = [ws EXCEPT !.socks = U]
    BY <1>2, <2>1, <2>3
  <2>5. f.socks = U
    BY <1>1, <2>4 DEF ClientType
  <2>6. [f EXCEPT !.socks[s].pending = FALSE] = [ws EXCEPT !.socks = T]
    BY <2>2, <2>4, <2>5
  <2>7. ws' = [[f EXCEPT !.socks[s].pending = FALSE] EXCEPT
                  !.state = "OPEN", !.attempt = 0, !.beat = TRUE, !.beats = b,
                  !.processing = p, !.stale = q]
    BY <1>8, <1>9, <1>10, <2>3 DEF WC!SocketOpens
  <2> QED
    BY <1>11, <2>6, <2>7
<1>13. 0 \in 0..MaxReconnect
  OBVIOUS
<1>14. /\ ClientType(v) /\ SameMessages(ws, v) /\ v.socks = T /\ v.state = "OPEN"
       /\ v.beat = TRUE /\ v.beats = b /\ v.stale = q
  BY <1>1, <1>7, <1>11, <1>13 DEF ClientType, Replaced, SameMessages
<1>15. ASSUME ~q PROVE LastIsLive("OPEN", T) /\ b = 0
  <2>1. ~ws.stale /\ s = Len(S)
    BY <1>2, <1>8, <1>15 DEF WC!Stale, WC!Cur
  <2>2. LastIsLive(ws.state, S) /\ ws.beats = 0 /\ ws.beat = (ws.state = "OPEN")
    BY <1>1, <1>2, <2>1 DEF ConnectionExact
  <2>3. LastIsLive("OPEN", T)
    BY <1>1, <1>2, <1>5, <1>7, <2>1, <2>2, ReplacedIsLive
  <2>4. ws.state # "OPEN"
    BY <1>3, <2>1, <2>2 DEF LastIsLive
  <2> QED
    BY <1>10, <2>2, <2>3, <2>4
<1>16. ConnectionExact(v)
  BY <1>14, <1>15 DEF ConnectionExact
<1>17. MessagesExact(v.queue, v.wire, v.overtook, v.sends)
  BY <1>14, MessagesStay DEF ClientExact
<1> QED
  BY <1>12, <1>14, <1>16, <1>17 DEF ClientExact

\* A message is queued, and a full queue loses its oldest.
LEMMA EnqueueKeeps ==
  ASSUME QueueMax \in Nat \ {0}, NEW q \in Seq(Nat), NEW x \in Seq(Nat), NEW o,
         NEW n \in Nat, MessagesExact(q, x, o, n)
  PROVE  /\ WC!Enqueue(q, n + 1) \in Seq(Nat)
         /\ MessagesExact(WC!Enqueue(q, n + 1), x, o, n + 1)
<1>1. PICK b : b = IF Len(q) >= QueueMax THEN Tail(q) ELSE q
  OBVIOUS
<1>2. b \in Seq(Nat) /\ MessagesExact(b, x, o, n)
  <2>1. CASE Len(q) >= QueueMax
    <3>a. PICK c \in Nat : c = Len(q)
      BY LenProperties
    <3>c. c > 0
      BY <2>1, <3>a
    <3>b. PICK l \in Nat : l = c - 1
      BY <3>c
    <3>1. l + 1 = Len(q)
      BY <2>1, <3>a, <3>b
    <3>2. q # <<>>
      BY <3>1
    <3>3. b \in Seq(Nat) /\ Len(b) = l /\ \A i \in 1..l : b[i] = q[i + 1]
      BY <1>1, <2>1, <3>1, <3>2, HeadTailProperties
    <3>4. \A i \in 1..l : i + 1 \in 1..Len(q)
      BY <3>1
    <3>5. \A i, j \in 1..l : i < j => b[i] < b[j]
      <4>1. ASSUME NEW i \in 1..l, NEW j \in 1..l, i < j PROVE q[i + 1] < q[j + 1]
        <5>1. i + 1 < j + 1 /\ i + 1 \in 1..Len(q) /\ j + 1 \in 1..Len(q)
          BY <3>4, <4>1
        <5> QED
          BY <5>1 DEF MessagesExact
      <4> QED
        BY <3>3, <4>1
    <3>6. \A i \in 1..l : b[i] <= n
      BY <3>3, <3>4 DEF MessagesExact
    <3>7. \A i \in 1..l, j \in 1..Len(x) : b[i] # x[j] /\ (x[j] > b[i] => x[j] \in o)
      <4>1. ASSUME NEW i \in 1..l, NEW j \in 1..Len(x)
            PROVE  b[i] # x[j] /\ (x[j] > b[i] => x[j] \in o)
        <5>1. PICK h \in 1..Len(q) : b[i] = q[h]
          BY <3>3, <3>4
        <5> QED
          BY <5>1 DEF MessagesExact
      <4> QED
        BY <4>1
    <3> QED
      BY <3>3, <3>5, <3>6, <3>7 DEF MessagesExact
  <2>2. CASE ~(Len(q) >= QueueMax)
    BY <1>1, <2>2
  <2> QED
    BY <2>1, <2>2
<1>3. PICK l \in Nat : l = Len(b)
  BY <1>2, LenProperties
<1>4. PICK m \in Nat : m = n + 1
  OBVIOUS
<1>5. PICK r : r = Append(b, m)
  OBVIOUS
<1>6. r \in Seq(Nat) /\ Len(r) = l + 1 /\ r[l + 1] = m /\ \A i \in 1..l : r[i] = b[i]
  BY <1>2, <1>3, <1>5, AppendProperties
<1>7. WC!Enqueue(q, n + 1) = r
  BY <1>1, <1>4, <1>5 DEF WC!Enqueue
<1>8. \A i \in 1..Len(r) : i \in 1..l \/ i = l + 1
  BY <1>6
<1>9. \A i \in 1..l : b[i] \in Nat /\ b[i] <= n
  BY <1>2, <1>3, ElementOfSeq DEF MessagesExact
<1>10. \A j \in 1..Len(x) : x[j] \in Nat /\ x[j] <= n
  BY <1>2, ElementOfSeq DEF MessagesExact
<1>11. \A i \in 1..Len(r) : r[i] <= m
  <2>1. ASSUME NEW i \in 1..l PROVE r[i] <= m
    <3>1. PICK c \in Nat : c = b[i] /\ c <= n
      BY <1>9
    <3>2. c <= m
      BY <1>4, <3>1
    <3> QED
      BY <1>6, <3>1, <3>2
  <2> QED
    BY <1>6, <1>8, <2>1
<1>12. \A i, j \in 1..Len(r) : i < j => r[i] < r[j]
  <2>1. ASSUME NEW i \in 1..Len(r), NEW j \in 1..Len(r), i < j PROVE r[i] < r[j]
    <3>1. i \in 1..l
      BY <1>6, <1>8, <2>1
    <3>2. CASE j \in 1..l
      BY <1>2, <1>3, <1>6, <2>1, <3>1, <3>2 DEF MessagesExact
    <3>3. CASE j = l + 1
      BY <1>4, <1>6, <1>9, <3>1, <3>3
    <3> QED
      BY <1>8, <3>2, <3>3
  <2> QED
    BY <2>1
<1>13. \A j \in 1..Len(x) : x[j] <= m
  BY <1>4, <1>10
<1>14. \A i \in 1..Len(r), j \in 1..Len(x) : r[i] # x[j] /\ (x[j] > r[i] => x[j] \in o)
  <2>1. ASSUME NEW i \in 1..Len(r), NEW j \in 1..Len(x)
        PROVE  r[i] # x[j] /\ (x[j] > r[i] => x[j] \in o)
    <3>1. CASE i \in 1..l
      BY <1>2, <1>3, <1>6, <3>1 DEF MessagesExact
    <3>2. CASE i = l + 1
      BY <1>4, <1>6, <1>10, <3>2
    <3> QED
      BY <1>8, <3>1, <3>2
  <2> QED
    BY <2>1
<1>15. MessagesExact(r, x, o, m)
  BY <1>2, <1>11, <1>12, <1>13, <1>14 DEF MessagesExact
<1> QED
  BY <1>4, <1>6, <1>7, <1>15

\* A message that nothing on the wire equals is sent: either nothing newer is there
\* but what overtook it.
LEMMA WireKeeps ==
  ASSUME NEW q \in Seq(Nat), NEW x \in Seq(Nat), NEW o, NEW n \in Nat, MessagesExact(q, x, o, n),
         NEW m \in Nat, m <= n, \A j \in 1..Len(x) : x[j] # m /\ (x[j] > m => x[j] \in o),
         \A i \in 1..Len(q) : q[i] # m /\ (m > q[i] => m \in o)
  PROVE  Append(x, m) \in Seq(Nat) /\ MessagesExact(q, Append(x, m), o, n)
<1>1. PICK l \in Nat : l = Len(x)
  BY LenProperties
<1>2. PICK y : y = Append(x, m)
  OBVIOUS
<1>3. y \in Seq(Nat) /\ Len(y) = l + 1 /\ y[l + 1] = m /\ \A j \in 1..l : y[j] = x[j]
  BY <1>1, <1>2, AppendProperties
<1>4. \A j \in 1..Len(y) : j \in 1..l \/ j = l + 1
  BY <1>3
<1>5. \A j \in 1..Len(y) : y[j] <= n
  BY <1>1, <1>3, <1>4 DEF MessagesExact
<1>6. \A j, k \in 1..Len(y) : j # k => y[j] # y[k]
  <2>1. \A j, k \in 1..l : j # k => y[j] # y[k]
    BY <1>1, <1>3 DEF MessagesExact
  <2>2. \A j \in 1..l : y[j] # m
    BY <1>1, <1>3
  <2> QED
    BY <1>3, <1>4, <2>1, <2>2
<1>7. \A j, k \in 1..Len(y) : j < k /\ y[j] > y[k] => y[j] \in o
  <2>1. ASSUME NEW j \in 1..Len(y), NEW k \in 1..Len(y), j < k, y[j] > y[k] PROVE y[j] \in o
    <3>1. j \in 1..l
      BY <1>3, <1>4, <2>1
    <3>2. CASE k \in 1..l
      BY <1>1, <1>3, <2>1, <3>1, <3>2 DEF MessagesExact
    <3>3. CASE k = l + 1
      BY <1>1, <1>3, <2>1, <3>1, <3>3
    <3> QED
      BY <1>4, <3>2, <3>3
  <2> QED
    BY <2>1
<1>8. \A i \in 1..Len(q), j \in 1..Len(y) : q[i] # y[j] /\ (y[j] > q[i] => y[j] \in o)
  BY <1>1, <1>3, <1>4 DEF MessagesExact
<1>9. MessagesExact(q, y, o, n)
  BY <1>5, <1>6, <1>7, <1>8 DEF MessagesExact
<1> QED
  BY <1>2, <1>3, <1>9

\* The message m is not in the queue q or on the wire x yet, and what it overtakes
\* there is in o.
Overtakes(q, x, o, m) ==
  /\ \A j \in 1..Len(x) : x[j] # m /\ (x[j] > m => x[j] \in o)
  /\ \A i \in 1..Len(q) : q[i] # m /\ (m > q[i] => m \in o)

\* Such a message may be sent.
LEMMA WireTakes ==
  ASSUME NEW q \in Seq(Nat), NEW x \in Seq(Nat), NEW o, NEW n \in Nat, MessagesExact(q, x, o, n),
         NEW m \in Nat, m <= n, Overtakes(q, x, o, m)
  PROVE  Append(x, m) \in Seq(Nat) /\ MessagesExact(q, Append(x, m), o, n)
<1>1. /\ \A j \in 1..Len(x) : x[j] # m /\ (x[j] > m => x[j] \in o)
      /\ \A i \in 1..Len(q) : q[i] # m /\ (m > q[i] => m \in o)
  BY DEF Overtakes
<1> QED
  BY <1>1, WireKeeps

\* send() of the application.
LEMMA SendKeeps ==
  ASSUME QueueMax \in Nat \ {0}, ClientExact(ws), WC!Send
  PROVE  ClientExact(ws')
<1>1. ClientType(ws) /\ MessagesExact(ws.queue, ws.wire, ws.overtook, ws.sends)
  BY DEF ClientExact
<1>2. PICK q \in Seq(Nat), x \in Seq(Nat), o \in SUBSET Nat, n \in Nat :
        q = ws.queue /\ x = ws.wire /\ o = ws.overtook /\ n = ws.sends
  BY <1>1 DEF ClientType
<1>3. PICK m \in Nat : m = n + 1
  OBVIOUS
<1>4. PICK w : w = [ws EXCEPT !.sends = m]
  OBVIOUS
<1>5. /\ ClientType(w) /\ w.queue = q /\ w.wire = x /\ w.overtook = o /\ w.sends = m
      /\ SameConnection(ws, w) /\ Retries(ws) = Retries(w)
  BY <1>1, <1>2, <1>4 DEF ClientType, SameConnection, Retries
<1>6. ASSUME NEW v, SameConnection(w, v), Retries(w) = Retries(v) PROVE ConnectionExact(v)
  BY <1>5, <1>6 DEF ClientExact, ConnectionExact, SameConnection
<1>7. MessagesExact(q, x, o, n) /\ MessagesExact(q, x, o, m)
  <2>1. \A i \in 1..Len(q) : q[i] \in Nat /\ q[i] <= n
    BY <1>1, <1>2, ElementOfSeq DEF MessagesExact
  <2>2. \A i \in 1..Len(x) : x[i] \in Nat /\ x[i] <= n
    BY <1>1, <1>2, ElementOfSeq DEF MessagesExact
  <2>3. \A i \in 1..Len(q) : q[i] <= m
    BY <1>3, <2>1
  <2>4. \A i \in 1..Len(x) : x[i] <= m
    BY <1>3, <2>2
  <2> QED
    BY <1>1, <1>2, <2>3, <2>4 DEF MessagesExact
<1>8. CASE ws.state # "OPEN"
  <2>1. PICK r : r = WC!Enqueue(q, m)
    OBVIOUS
  <2>2. r \in Seq(Nat) /\ MessagesExact(r, x, o, m)
    BY <1>3, <1>7, <2>1, EnqueueKeeps
  <2>3. PICK v : v = [w EXCEPT !.queue = r]
    OBVIOUS
  <2>4. ws' = v
    BY <1>2, <1>3, <1>4, <1>5, <1>8, <2>1, <2>3 DEF WC!Send
  <2>5. /\ ClientType(v) /\ v.queue = r /\ v.wire = x /\ v.overtook = o /\ v.sends = m
        /\ SameConnection(w, v) /\ Retries(w) = Retries(v)
    BY <1>5, <2>2, <2>3 DEF ClientType, SameConnection, Retries
  <2> QED
    BY <1>6, <2>2, <2>4, <2>5 DEF ClientExact
<1>9. CASE ws.state = "OPEN" /\ ws.socks[WC!Cur].st # "open"
  <2>1. ws' = w
    BY <1>2, <1>3, <1>4, <1>9 DEF WC!Send
  <2>2. ConnectionExact(w)
    BY <1>6 DEF SameConnection
  <2> QED
    BY <1>5, <1>7, <2>1, <2>2 DEF ClientExact
<1>10. CASE ws.state = "OPEN" /\ ws.socks[WC!Cur].st = "open"
  <2>1. PICK y, p : y = Append(x, m) /\ p = IF q = <<>> THEN o ELSE o \union {m}
    OBVIOUS
  <2>2. PICK v : v = [w EXCEPT !.wire = y, !.overtook = p]
    OBVIOUS
  <2>3. ws' = v
    BY <1>2, <1>3, <1>4, <1>5, <1>10, <2>1, <2>2 DEF WC!Send
  <2>4. MessagesExact(q, x, p, m)
    <3>1. o \subseteq p
      BY <2>1
    <3> QED
      BY <1>7, <3>1 DEF MessagesExact
  <2>5. \A j \in 1..Len(x) : x[j] # m /\ (x[j] > m => x[j] \in p)
    <3>1. \A j \in 1..Len(x) : x[j] \in Nat /\ x[j] <= n
      BY <1>7, ElementOfSeq DEF MessagesExact
    <3> QED
      BY <1>3, <3>1
  <2>6. \A i \in 1..Len(q) : q[i] # m /\ (m > q[i] => m \in p)
    <3>1. \A i \in 1..Len(q) : q[i] \in Nat /\ q[i] <= n
      BY <1>7, ElementOfSeq DEF MessagesExact
    <3>2. CASE q = <<>>
      BY <3>2
    <3>3. CASE q # <<>>
      BY <1>3, <2>1, <3>1, <3>3
    <3> QED
      BY <3>2, <3>3
  <2>7. y \in Seq(Nat) /\ MessagesExact(q, y, p, m)
    <3>1. Overtakes(q, x, p, m)
      BY <2>5, <2>6 DEF Overtakes
    <3>2. m <= m
      BY <1>3
    <3>3. Append(x, m) \in Seq(Nat) /\ MessagesExact(q, Append(x, m), p, m)
      BY <2>4, <3>1, <3>2, WireTakes
    <3> QED
      BY <2>1, <2>4, <3>3
  <2>8. p \in SUBSET Nat
    BY <2>1
  <2>9. /\ ClientType(v) /\ v.queue = q /\ v.wire = y /\ v.overtook = p /\ v.sends = m
        /\ SameConnection(w, v) /\ Retries(w) = Retries(v)
    BY <1>5, <2>2, <2>7, <2>8 DEF ClientType, SameConnection, Retries
  <2> QED
    BY <1>6, <2>3, <2>7, <2>9 DEF ClientExact
<1> QED
  BY <1>8, <1>9, <1>10

\* The next message of the queue.
LEMMA QueueSendKeeps ==
  ASSUME ClientExact(ws), WC!ProcessQueue
  PROVE  ClientExact(ws')
<1>1. ClientType(ws) /\ MessagesExact(ws.queue, ws.wire, ws.overtook, ws.sends)
  BY DEF ClientExact
<1>2. PICK q \in Seq(Nat), x \in Seq(Nat), o \in SUBSET Nat, n \in Nat :
        q = ws.queue /\ x = ws.wire /\ o = ws.overtook /\ n = ws.sends
  BY <1>1 DEF ClientType
<1>3. ASSUME NEW v, SameConnection(ws, v), Retries(ws) = Retries(v) PROVE ConnectionExact(v)
  BY <1>3 DEF ClientExact, ConnectionExact, SameConnection
<1>4. CASE q = <<>>
  <2>1. ws' = [ws EXCEPT !.processing = FALSE]
    BY <1>2, <1>4 DEF WC!ProcessQueue
  <2>2. PICK v : v = [ws EXCEPT !.processing = FALSE]
    OBVIOUS
  <2>3. /\ ClientType(v) /\ v.queue = q /\ v.wire = x /\ v.overtook = o /\ v.sends = n
        /\ SameConnection(ws, v) /\ Retries(ws) = Retries(v)
    BY <1>1, <1>2, <2>2 DEF ClientType, SameConnection, Retries
  <2> QED
    BY <1>1, <1>2, <1>3, <2>1, <2>2, <2>3 DEF ClientExact
<1>5. CASE q # <<>>
  <2>1. PICK y : y = IF ws.socks[WC!Cur].st = "open" THEN Append(x, Head(q)) ELSE x
    OBVIOUS
  <2>2. PICK v : v = [ws EXCEPT !.queue = Tail(q), !.wire = y]
    OBVIOUS
  <2>3. ws' = v
    BY <1>2, <1>5, <2>1, <2>2 DEF WC!ProcessQueue
  <2>4. PICK b : b = Tail(q)
    OBVIOUS
  <2>a. PICK c \in Nat : c = Len(q)
    BY LenProperties
  <2>b. c > 0 /\ Head(q) = q[1]
    BY <1>5, <2>a
  <2>c. PICK l \in Nat : l = c - 1
    BY <2>b
  <2>5. l + 1 = Len(q)
    BY <2>a, <2>c
  <2>6. b \in Seq(Nat) /\ Len(b) = l /\ \A i \in 1..l : b[i] = q[i + 1]
    BY <1>5, <2>4, <2>5, HeadTailProperties
  <2>7. \A i \in 1..l : i + 1 \in 1..Len(q) /\ 1 < i + 1
    BY <2>5
  <2>8. 1 \in 1..Len(q)
    BY <2>5
  <2>9. \A i, j \in 1..l : i < j => b[i] < b[j]
    <3>1. ASSUME NEW i \in 1..l, NEW j \in 1..l, i < j PROVE q[i + 1] < q[j + 1]
      <4>1. i + 1 < j + 1 /\ i + 1 \in 1..Len(q) /\ j + 1 \in 1..Len(q)
        BY <2>7, <3>1
      <4> QED
        BY <1>1, <1>2, <4>1 DEF MessagesExact
    <3> QED
      BY <2>6, <3>1
  <2>10. \A i \in 1..l : \E h \in 1..Len(q) : b[i] = q[h] /\ q[1] < q[h]
    <3>1. ASSUME NEW i \in 1..l PROVE q[1] < q[i + 1]
      <4>1. 1 < i + 1 /\ i + 1 \in 1..Len(q)
        BY <2>7, <3>1
      <4> QED
        BY <1>1, <1>2, <2>8, <4>1 DEF MessagesExact
    <3> QED
      BY <2>6, <2>7, <3>1
  <2>11. MessagesExact(b, x, o, n)
    <3>1. \A i \in 1..l : b[i] <= n
      BY <1>1, <1>2, <2>10 DEF MessagesExact
    <3>2. \A i \in 1..l, j \in 1..Len(x) : b[i] # x[j] /\ (x[j] > b[i] => x[j] \in o)
      BY <1>1, <1>2, <2>10 DEF MessagesExact
    <3>3. MessagesExact(q, x, o, n)
      BY <1>1, <1>2
    <3>4. /\ \A j \in 1..Len(x) : x[j] <= n
          /\ \A j, k \in 1..Len(x) : j # k => x[j] # x[k]
          /\ \A j, k \in 1..Len(x) : j < k /\ x[j] > x[k] => x[j] \in o
      BY <3>3, Zenon DEF MessagesExact
    <3>5. Len(b) = l
      BY <2>6
    <3> QED
      BY <2>9, <3>1, <3>2, <3>4, <3>5, Zenon DEF MessagesExact
  <2>12. PICK m \in Nat : m = q[1]
    BY <2>8, ElementOfSeq
  <2>13. /\ m <= n /\ \A j \in 1..Len(x) : x[j] # m /\ (x[j] > m => x[j] \in o)
         /\ \A i \in 1..l : b[i] # m /\ (m > b[i] => m \in o)
    <3>1. m <= n /\ \A j \in 1..Len(x) : x[j] # m /\ (x[j] > m => x[j] \in o)
      BY <1>1, <1>2, <2>8, <2>12 DEF MessagesExact
    <3>2. ASSUME NEW i \in 1..l PROVE b[i] # m /\ ~(m > b[i])
      <4>1. m < b[i] /\ b[i] \in Nat
        BY <2>6, <2>10, <2>12, ElementOfSeq
      <4> QED
        BY <4>1
    <3> QED
      BY <3>1, <3>2
  <2>14. Append(x, m) \in Seq(Nat) /\ MessagesExact(b, Append(x, m), o, n)
    BY <2>6, <2>11, <2>13, WireKeeps
  <2>15. y \in Seq(Nat) /\ MessagesExact(b, y, o, n)
    BY <2>1, <2>b, <2>11, <2>12, <2>14
  <2>16. /\ ClientType(v) /\ v.queue = b /\ v.wire = y /\ v.overtook = o /\ v.sends = n
         /\ SameConnection(ws, v) /\ Retries(ws) = Retries(v)
    BY <1>1, <1>2, <2>2, <2>4, <2>6, <2>15 DEF ClientType, SameConnection, Retries
  <2> QED
    BY <1>3, <2>3, <2>15, <2>16 DEF ClientExact
<1> QED
  BY <1>4, <1>5

\* The invariant of the client.
LEMMA ClientInvariant ==
  ASSUME WC!WsAssumption
  PROVE  /\ WC!Init => ClientExact(ws)
         /\ ClientExact(ws) /\ [WC!Next]_ws => ClientExact(ws')
<1>1. MaxReconnect \in Nat \ {0} /\ QueueMax \in Nat \ {0}
  BY DEF WC!WsAssumption
<1>2. ASSUME WC!Init PROVE ClientExact(ws)
  <2>1. PICK S \in Seq(Socket), q \in Seq(Nat), x \in Seq(Nat) :
          S = <<>> /\ q = <<>> /\ x = <<>> /\ Len(S) = 0 /\ Len(q) = 0 /\ Len(x) = 0
    BY EmptySeq
  <2>2. 0 \in 0..MaxReconnect /\ {} \in SUBSET Nat
    BY <1>1
  <2>3. ClientType(ws)
    BY <1>2, <2>1, <2>2 DEF WC!Init, ClientType
  <2>4. ConnectionExact(ws)
    <3>1. LastIsLive("CLOSED", S)
      BY <2>1 DEF LastIsLive
    <3>2. /\ ws.socks = S /\ ws.state = "CLOSED" /\ ws.beats = 0 /\ ws.beat = FALSE
          /\ ws.wanted = FALSE
      BY <1>2, <2>1 DEF WC!Init
    <3> QED
      BY <3>1, <3>2 DEF ConnectionExact
  <2>5. MessagesExact(ws.queue, ws.wire, ws.overtook, ws.sends)
    BY <1>2, <2>1 DEF WC!Init, MessagesExact
  <2> QED
    BY <2>3, <2>4, <2>5 DEF ClientExact
<1>3. ASSUME ClientExact(ws), [WC!Next]_ws PROVE ClientExact(ws')
  <2>1. CASE UNCHANGED ws
    BY <1>3, <2>1
  <2>2. CASE WC!UserConnect
    BY <1>3, <2>2, UserConnectKeeps
  <2>3. CASE WC!Disconnect
    BY <1>1, <1>3, <2>3, DisconnectKeeps
  <2>4. CASE WC!Send
    BY <1>1, <1>3, <2>4, SendKeeps
  <2>5. CASE WC!ProcessQueue
    BY <1>3, <2>5, QueueSendKeeps
  <2>6. ASSUME NEW leaked \in BOOLEAN, WC!TimerFires(leaked) PROVE ClientExact(ws')
    BY <1>3, <2>6, TimerKeeps
  <2>7. ASSUME NEW s, WC!ConnectTimeout(s) PROVE ClientExact(ws')
    BY <1>1, <1>3, <2>7, TimeoutKeeps
  <2>8. ASSUME NEW s, WC!SocketOpens(s) PROVE ClientExact(ws')
    BY <1>1, <1>3, <2>8, OpensKeeps
  <2>9. ASSUME NEW s, WC!SocketFails(s) PROVE ClientExact(ws')
    BY <1>1, <1>3, <2>9, FailsKeeps
  <2>10. ASSUME NEW s, NEW clean \in BOOLEAN, WC!SocketCloses(s, clean) PROVE ClientExact(ws')
    BY <1>1, <1>3, <2>10, ClosesKeeps
  <2> QED
    BY <1>3, <2>1, <2>2, <2>3, <2>4, <2>5, <2>6, <2>7, <2>8, <2>9, <2>10 DEF WC!Next
<1> QED
  BY <1>2, <1>3

\* What the invariant says of connections and messages.
LEMMA ClientExactGives ==
  ASSUME ClientExact(ws)
  PROVE  WC!OneConnection /\ WC!NeverStuck /\ WC!QueueKeepsOrder
<1>1. ClientType(ws) /\ ConnectionExact(ws)
  BY DEF ClientExact
<1>2. PICK S \in Seq(Socket) : S = ws.socks
  BY <1>1 DEF ClientType
<1>3. PICK n \in Nat : n = Len(S)
  BY LenProperties
<1>4. ASSUME ~ws.stale
      PROVE  /\ WC!Cardinality(WC!Live) <= 1 /\ ws.beats = 0
             /\ (ws.state = "OPEN") = (\E s \in WC!Live : ws.socks[s].st = "open")
             /\ ws.beat = (ws.state = "OPEN")
  <2>1. LastIsLive(ws.state, S) /\ ws.beats = 0 /\ ws.beat = (ws.state = "OPEN")
    BY <1>1, <1>2, <1>4 DEF ConnectionExact
  <2>2. WC!Live \subseteq {n}
    BY <1>2, <1>3, <2>1 DEF WC!Live, WC!Cur, LastIsLive, IsLive
  <2>3. Cardinality(WC!Live) <= 1
    <3>1. CASE WC!Live = {}
      BY <3>1, FS_EmptySet
    <3>2. CASE WC!Live = {n}
      <4>1. PICK l : l = WC!Live
        OBVIOUS
      <4>2. Cardinality({n}) = 1
        BY FS_Singleton
      <4>3. Cardinality(l) = 1
        BY <3>2, <4>1, <4>2
      <4> QED
        BY <4>1, <4>3
    <3> QED
      BY <2>2, <3>1, <3>2
  <2>4. WC!Cardinality(WC!Live) = Cardinality(WC!Live)
    BY DEF WC!Cardinality, WC!IsFiniteSet, Cardinality, IsFiniteSet
  <2>5. ws.state = "OPEN" => \E s \in WC!Live : ws.socks[s].st = "open"
    <3>1. ASSUME ws.state = "OPEN" PROVE n \in 1..n /\ S[n].st = "open"
      BY <1>3, <2>1, <3>1 DEF LastIsLive
    <3> QED
      BY <1>2, <1>3, <3>1 DEF WC!Live, WC!Cur
  <2>6. (\E s \in WC!Live : ws.socks[s].st = "open") => ws.state = "OPEN"
    <3>1. ASSUME NEW s \in WC!Live, ws.socks[s].st = "open" PROVE ws.state = "OPEN"
      <4>1. s = n /\ n > 0 /\ S[n].st = "open" /\ IsLive(S[n])
        BY <1>2, <1>3, <2>2, <3>1 DEF WC!Live, WC!Cur, IsLive
      <4>2. ws.state \in {"CLOSED", "CONNECTING", "OPEN", "CLOSING"}
        BY <1>1 DEF ClientType
      <4> QED
        BY <1>3, <2>1, <4>1, <4>2 DEF LastIsLive
    <3> QED
      BY <3>1
  <2> QED
    BY <2>1, <2>3, <2>4, <2>5, <2>6
<1>5. WC!OneConnection
  BY <1>4 DEF WC!OneConnection
<1>6. WC!NeverStuck
  BY <1>1 DEF WC!NeverStuck, ConnectionExact, Retries
<1>7. WC!QueueKeepsOrder
  <2>1. PICK x \in Seq(Nat) : x = ws.wire
    BY <1>1 DEF ClientType
  <2>2. DOMAIN x = 1..Len(x)
    BY LenProperties
  <2>3. /\ \A j, k \in DOMAIN x : j # k => x[j] # x[k]
        /\ \A j, k \in DOMAIN x : j < k /\ x[j] > x[k] => x[j] \in ws.overtook
    BY <2>1, <2>2 DEF ClientExact, MessagesExact
  <2>4. WC!IsInjective(x)
    BY <2>3 DEF WC!IsInjective
  <2> QED
    BY <2>1, <2>3, <2>4 DEF WC!QueueKeepsOrder
<1> QED
  BY <1>5, <1>6, <1>7

-----------------------------------------------------------------------------
(* The connection manager of the WebSocket server.                         *)

Conn == [st : {"new", "open", "closing", "closed"}, ip : Addresses \union {WM!Nobody},
         user : Users \union {WM!Nobody}, idle : BOOLEAN]

Manager == [conn : [Conns -> Conn], managed : SUBSET Conns,
            byIP : [Addresses -> SUBSET Conns], byUser : [Users -> SUBSET Conns],
            ticking : BOOLEAN, late : SUBSET Conns]

\* The indexes of a manager agree with its connections.
IndexedByIP(m) == \A a \in Addresses : m.byIP[a] = {c \in m.managed : m.conn[c].ip = a}
IndexedByUser(m) ==
  \A u \in Users : m.byUser[u] \ m.late = {c \in m.managed \ m.late : m.conn[c].user = u}

\* Its limits hold, which speak of finite sets.
Limited(m) ==
  /\ IsFiniteSet(m.managed) /\ Cardinality(m.managed) <= MaxConns
  /\ \A a \in Addresses : Cardinality(m.byIP[a]) <= MaxPerIP

\* Only connections under way are managed, and all open ones are.
Owned(m) ==
  /\ \A c \in m.managed : m.conn[c].st \in {"open", "closing"}
  /\ \A c \in Conns : m.conn[c].st = "open" => c \in m.managed

Good(m) ==
  m \in Manager /\ IndexedByIP(m) /\ IndexedByUser(m) /\ Limited(m) /\ Owned(m)

\* The sets are counted alike in both modules.
LEMMA ManagerCounts == ASSUME NEW S PROVE WM!Cardinality(S) = Cardinality(S)
BY DEF WM!Cardinality, WM!IsFiniteSet, Cardinality, IsFiniteSet

\* A part of a finite set is finite and not larger.
LEMMA Smaller ==
  ASSUME NEW S, IsFiniteSet(S), NEW T \in SUBSET S, NEW n \in Nat, Cardinality(S) <= n
  PROVE  IsFiniteSet(T) /\ Cardinality(T) <= n
<1>1. IsFiniteSet(T) /\ Cardinality(T) <= Cardinality(S)
  BY FS_Subset
<1>2. Cardinality(S) \in Nat /\ Cardinality(T) \in Nat
  BY <1>1, FS_CardinalityType
<1> QED
  BY <1>1, <1>2

\* A finite set grows by one with a new element.
LEMMA Grown ==
  ASSUME NEW S, IsFiniteSet(S), NEW x, x \notin S
  PROVE  IsFiniteSet(S \union {x}) /\ Cardinality(S \union {x}) = Cardinality(S) + 1
BY FS_AddElement

\* What close() leaves of a manager.
LEMMA CloseKeeps ==
  ASSUME NEW m \in Manager, NEW cs \in SUBSET Conns
  PROVE  /\ WM!Close(m, cs) \in Manager
         /\ WM!Close(m, cs).managed = m.managed /\ WM!Close(m, cs).byIP = m.byIP
         /\ WM!Close(m, cs).byUser = m.byUser /\ WM!Close(m, cs).late = m.late
         /\ \A c \in Conns :
              /\ WM!Close(m, cs).conn[c].ip = m.conn[c].ip
              /\ WM!Close(m, cs).conn[c].user = m.conn[c].user
              /\ WM!Close(m, cs).conn[c].st =
                   IF c \in cs /\ m.conn[c].st = "open" THEN "closing" ELSE m.conn[c].st
<1> DEFINE closed(c) == IF c \in cs /\ m.conn[c].st = "open"
                        THEN [m.conn[c] EXCEPT !.st = "closing"] ELSE m.conn[c]
           k == WM!Close(m, cs)
<1>1. k = [m EXCEPT !.conn = [c \in Conns |-> closed(c)]]
  BY DEF WM!Close
<1>2. /\ k.conn = [c \in Conns |-> closed(c)] /\ k.managed = m.managed /\ k.byIP = m.byIP
      /\ k.byUser = m.byUser /\ k.late = m.late
  BY <1>1 DEF Manager
<1>3. ASSUME NEW c \in Conns
      PROVE  /\ closed(c) \in Conn
             /\ closed(c).ip = m.conn[c].ip /\ closed(c).user = m.conn[c].user
             /\ closed(c).st =
                  IF c \in cs /\ m.conn[c].st = "open" THEN "closing" ELSE m.conn[c].st
  <2>1. m.conn[c] \in Conn
    BY DEF Manager
  <2> QED
    BY <2>1 DEF Conn
<1> HIDE DEF closed, k
<1>4. k \in Manager
  <2>1. [c \in Conns |-> closed(c)] \in [Conns -> Conn]
    BY <1>3
  <2> QED
    BY <1>1, <2>1 DEF Manager
<1>5. \A c \in Conns : k.conn[c] = closed(c)
  BY <1>2
<1> QED
  BY <1>2, <1>3, <1>4, <1>5 DEF k

\* removeConnection() takes a connection out of the map and out of both indexes.
LEMMA RemoveKeeps ==
  ASSUME WM!ConnectionsAssumption, NEW m, Good(m), NEW cs \in SUBSET Conns
  PROVE  /\ Good(WM!Remove(m, cs))
         /\ WM!Remove(m, cs).managed = m.managed \ cs
         /\ WM!Remove(m, cs).late = m.late
         /\ \A a \in Addresses : WM!Remove(m, cs).byIP[a] = m.byIP[a] \ cs
         /\ \A c \in Conns :
              /\ WM!Remove(m, cs).conn[c].ip = m.conn[c].ip
              /\ WM!Remove(m, cs).conn[c].user = m.conn[c].user
              /\ WM!Remove(m, cs).conn[c].st =
                   IF c \in cs /\ m.conn[c].st = "open" THEN "closing" ELSE m.conn[c].st
<1> DEFINE f == [WM!Forget(m, cs) EXCEPT !.byIP = [a \in Addresses |-> @[a] \ cs]]
           r == WM!Remove(m, cs)
<1>1. m \in Manager
  BY DEF Good
<1>2. /\ f \in Manager /\ f.conn = m.conn /\ f.late = m.late
      /\ f.managed = m.managed \ cs
      /\ f.byIP = [a \in Addresses |-> m.byIP[a] \ cs]
      /\ f.byUser = [u \in Users |->
           m.byUser[u] \ {c \in cs \intersect m.managed : m.conn[c].user = u}]
  BY <1>1 DEF WM!Forget, Manager
<1>3. r = WM!Close(f, cs)
  BY DEF WM!Remove
<1> HIDE DEF f, r
<1>4. /\ r \in Manager /\ r.late = m.late /\ r.managed = f.managed
      /\ r.byIP = f.byIP /\ r.byUser = f.byUser
      /\ \A c \in Conns :
           /\ r.conn[c].ip = m.conn[c].ip /\ r.conn[c].user = m.conn[c].user
           /\ r.conn[c].st =
                IF c \in cs /\ m.conn[c].st = "open" THEN "closing" ELSE m.conn[c].st
  BY <1>2, <1>3, CloseKeeps
<1>5. IndexedByIP(r)
  BY <1>1, <1>2, <1>4 DEF Good, IndexedByIP, Manager
<1>6. IndexedByUser(r)
  <2> SUFFICES ASSUME NEW u \in Users
               PROVE  r.byUser[u] \ r.late = {c \in r.managed \ r.late : r.conn[c].user = u}
    BY DEF IndexedByUser
  <2>1. m.byUser[u] \ m.late = {c \in m.managed \ m.late : m.conn[c].user = u}
    BY DEF Good, IndexedByUser
  <2>2. r.byUser[u] = m.byUser[u] \ {c \in cs \intersect m.managed : m.conn[c].user = u}
    BY <1>2, <1>4
  <2>3. m.managed \subseteq Conns
    BY <1>1 DEF Manager
  <2> QED
    BY <2>1, <2>2, <2>3, <1>2, <1>4
<1>7. Limited(r)
  <2>1. IsFiniteSet(m.managed) /\ Cardinality(m.managed) <= MaxConns
    BY DEF Good, Limited
  <2>2. r.managed \in SUBSET m.managed
    BY <1>2, <1>4
  <2>3. IsFiniteSet(r.managed) /\ Cardinality(r.managed) <= MaxConns
    BY <2>1, <2>2, Smaller DEF WM!ConnectionsAssumption
  <2>4. ASSUME NEW a \in Addresses PROVE Cardinality(r.byIP[a]) <= MaxPerIP
    <3>1. m.byIP[a] = {c \in m.managed : m.conn[c].ip = a}
      BY DEF Good, IndexedByIP
    <3>2. IsFiniteSet(m.byIP[a])
      BY <2>1, <3>1, FS_Subset
    <3>3. Cardinality(m.byIP[a]) <= MaxPerIP
      BY DEF Good, Limited
    <3>4. r.byIP[a] \in SUBSET m.byIP[a]
      BY <1>2, <1>4
    <3> QED
      BY <3>2, <3>3, <3>4, Smaller DEF WM!ConnectionsAssumption
  <2> QED
    BY <2>3, <2>4 DEF Limited
<1>8. Owned(r)
  BY <1>1, <1>2, <1>4 DEF Good, Owned, Manager
<1> QED
  BY <1>2, <1>4, <1>5, <1>6, <1>7, <1>8 DEF Good, r

\* The manager is good at first.
LEMMA InitGood == WM!ConnectionsAssumption /\ WM!Init => Good(wsm)
<1> SUFFICES ASSUME WM!ConnectionsAssumption, WM!Init PROVE Good(wsm)
  OBVIOUS
<1>1. wsm \in Manager
  BY DEF WM!Init, Manager, Conn, WM!NoConn
<1>2. IndexedByIP(wsm) /\ IndexedByUser(wsm) /\ Owned(wsm)
  BY DEF WM!Init, IndexedByIP, IndexedByUser, Owned, WM!NoConn
<1>3. Limited(wsm)
  BY FS_EmptySet DEF WM!Init, Limited, WM!ConnectionsAssumption
<1> QED
  BY <1>1, <1>2, <1>3 DEF Good

\* A connection over a limit is not kept open, and one that is added fits.
LEMMA AcceptGood ==
  ASSUME WM!ConnectionsAssumption, Good(wsm), NEW c \in Conns, NEW ip \in Addresses,
         NEW user \in Users \union {WM!Nobody}, WM!Accept(c, ip, user)
  PROVE  Good(wsm')
<1> DEFINE new == [st |-> "open", ip |-> ip, user |-> user, idle |-> FALSE]
           m == [wsm EXCEPT !.conn[c] = new]
<1>1. wsm \in Manager /\ wsm.conn[c].st = "new"
  BY DEF Good, WM!Accept
<1>2. /\ m \in Manager /\ m.conn[c] = new
      /\ \A d \in Conns \ {c} : m.conn[d] = wsm.conn[d]
      /\ m.managed = wsm.managed /\ m.late = wsm.late
      /\ m.byIP = wsm.byIP /\ m.byUser = wsm.byUser
  <2>1. new \in Conn
    BY DEF Conn
  <2> QED
    BY <1>1, <2>1 DEF Manager
<1>3. c \notin wsm.managed /\ wsm.managed \subseteq Conns
  BY <1>1 DEF Good, Owned, Manager
<1>4. CASE ~WM!Admits(wsm, ip, user)
  <2>1. wsm' = WM!Close(m, {c})
    BY <1>4 DEF WM!Accept
  <2> HIDE DEF m
  <2>2. /\ wsm' \in Manager /\ wsm'.managed = wsm.managed /\ wsm'.late = wsm.late
        /\ wsm'.byIP = wsm.byIP /\ wsm'.byUser = wsm.byUser
        /\ wsm'.conn[c].st = "closing"
        /\ \A d \in Conns \ {c} : wsm'.conn[d].ip = wsm.conn[d].ip
             /\ wsm'.conn[d].user = wsm.conn[d].user /\ wsm'.conn[d].st = wsm.conn[d].st
    BY <1>2, <2>1, CloseKeeps
  <2>3. IndexedByIP(wsm') /\ IndexedByUser(wsm')
    BY <1>3, <2>2 DEF Good, IndexedByIP, IndexedByUser
  <2>4. Limited(wsm')
    BY <2>2 DEF Good, Limited
  <2>5. Owned(wsm')
    BY <1>3, <2>2 DEF Good, Owned
  <2> QED
    BY <2>2, <2>3, <2>4, <2>5 DEF Good
<1>5. CASE WM!Admits(wsm, ip, user)
  <2>1. wsm' = [m EXCEPT !.managed = @ \union {c}, !.byIP[ip] = @ \union {c},
                  !.byUser = [u \in Users |-> IF u = user THEN @[u] \union {c} ELSE @[u]]]
    BY <1>5 DEF WM!Accept
  <2> HIDE DEF m
  <2>2. /\ wsm' \in Manager /\ wsm'.conn = m.conn /\ wsm'.late = wsm.late
        /\ wsm'.managed = wsm.managed \union {c}
        /\ wsm'.byIP[ip] = wsm.byIP[ip] \union {c}
        /\ \A a \in Addresses \ {ip} : wsm'.byIP[a] = wsm.byIP[a]
        /\ \A u \in Users :
             wsm'.byUser[u] = IF u = user THEN wsm.byUser[u] \union {c} ELSE wsm.byUser[u]
    <3> DEFINE ips == [wsm.byIP EXCEPT ![ip] = @ \union {c}]
               names == [u \in Users |-> IF u = user THEN wsm.byUser[u] \union {c}
                                        ELSE wsm.byUser[u]]
    <3>1. ips \in [Addresses -> SUBSET Conns] /\ names \in [Users -> SUBSET Conns]
      BY <1>1 DEF Manager
    <3>2. wsm' = [m EXCEPT !.managed = wsm.managed \union {c}, !.byIP = ips, !.byUser = names]
      BY <1>2, <2>1
    <3>3. /\ ips[ip] = wsm.byIP[ip] \union {c}
          /\ \A a \in Addresses \ {ip} : ips[a] = wsm.byIP[a]
      BY <1>1 DEF Manager
    <3>4. \A u \in Users :
            names[u] = IF u = user THEN wsm.byUser[u] \union {c} ELSE wsm.byUser[u]
      OBVIOUS
    <3>5. wsm.managed \union {c} \in SUBSET Conns
      BY <1>3
    <3> HIDE DEF ips, names
    <3>6. /\ wsm' \in Manager /\ wsm'.conn = m.conn /\ wsm'.late = m.late
          /\ wsm'.managed = wsm.managed \union {c} /\ wsm'.byIP = ips /\ wsm'.byUser = names
      BY <1>2, <3>1, <3>2, <3>5 DEF Manager
    <3> QED
      BY <1>2, <3>3, <3>4, <3>6
  <2>3. IndexedByIP(wsm')
    <3> SUFFICES ASSUME NEW a \in Addresses
                 PROVE  wsm'.byIP[a] = {d \in wsm'.managed : wsm'.conn[d].ip = a}
      BY DEF IndexedByIP
    <3>1. wsm.byIP[a] = {d \in wsm.managed : wsm.conn[d].ip = a}
      BY DEF Good, IndexedByIP
    <3> QED
      BY <1>2, <1>3, <2>2, <3>1
  <2>4. IndexedByUser(wsm')
    <3> SUFFICES ASSUME NEW u \in Users
                 PROVE  wsm'.byUser[u] \ wsm'.late
                          = {d \in wsm'.managed \ wsm'.late : wsm'.conn[d].user = u}
      BY DEF IndexedByUser
    <3>1. wsm.byUser[u] \ wsm.late = {d \in wsm.managed \ wsm.late : wsm.conn[d].user = u}
      BY DEF Good, IndexedByUser
    <3>2. /\ wsm'.conn[c].user = user
          /\ \A d \in wsm.managed : d # c /\ wsm'.conn[d].user = wsm.conn[d].user
      BY <1>2, <1>3, <2>2
    <3> HIDE DEF new
    <3>3. wsm'.byUser[u] = IF u = user THEN wsm.byUser[u] \union {c} ELSE wsm.byUser[u]
      BY <2>2
    <3>4. ASSUME NEW d
          PROVE  d \in wsm'.byUser[u] \ wsm'.late
                   <=> d \in wsm'.managed \ wsm'.late /\ wsm'.conn[d].user = u
      <4>1. d \in wsm.byUser[u] \ wsm.late
              <=> d \in wsm.managed \ wsm.late /\ wsm.conn[d].user = u
        BY <3>1
      <4>2. CASE d = c
        BY <2>2, <3>2, <3>3, <4>1, <4>2
      <4>3. CASE d # c
        BY <2>2, <3>2, <3>3, <4>1, <4>3
      <4> QED
        BY <4>2, <4>3
    <3> QED
      BY <3>4
  <2>5. Limited(wsm')
    <3>1. /\ IsFiniteSet(wsm.managed) /\ Cardinality(wsm.managed) < MaxConns
          /\ Cardinality(wsm.byIP[ip]) < MaxPerIP
      BY <1>5, ManagerCounts DEF Good, Limited, WM!Admits
    <3>2. wsm.byIP[ip] \subseteq wsm.managed
      BY DEF Good, IndexedByIP
    <3>3. IsFiniteSet(wsm.byIP[ip])
      BY <3>1, <3>2, FS_Subset
    <3>4. IsFiniteSet(wsm'.managed) /\ Cardinality(wsm'.managed) = Cardinality(wsm.managed) + 1
      BY <1>3, <2>2, <3>1, Grown
    <3>5. Cardinality(wsm'.byIP[ip]) = Cardinality(wsm.byIP[ip]) + 1
      <4>1. c \notin wsm.byIP[ip]
        BY <1>3, <3>2
      <4> QED
        BY <2>2, <3>3, <4>1, Grown
    <3>6. Cardinality(wsm.managed) \in Nat /\ Cardinality(wsm.byIP[ip]) \in Nat
      BY <3>1, <3>3, FS_CardinalityType
    <3>7. ASSUME NEW a \in Addresses PROVE Cardinality(wsm'.byIP[a]) <= MaxPerIP
      <4>1. CASE a = ip
        BY <4>1, <3>1, <3>5, <3>6 DEF WM!ConnectionsAssumption
      <4>2. CASE a # ip
        BY <4>2, <2>2 DEF Good, Limited
      <4> QED
        BY <4>1, <4>2
    <3>8. Cardinality(wsm'.managed) <= MaxConns
      BY <3>1, <3>4, <3>6 DEF WM!ConnectionsAssumption
    <3> QED
      BY <3>4, <3>7, <3>8 DEF Limited
  <2>6. Owned(wsm')
    BY <1>2, <1>3, <2>2 DEF Good, Owned
  <2> QED
    BY <2>2, <2>3, <2>4, <2>5, <2>6 DEF Good
<1> QED
  BY <1>4, <1>5

\* A step that leaves the map and the indexes alone keeps a manager good, when it
\* changes the user of late connections only and opens none.
LEMMA ConnGood ==
  ASSUME Good(wsm), wsm' \in Manager,
         wsm'.managed = wsm.managed, wsm'.byIP = wsm.byIP, wsm'.byUser = wsm.byUser,
         wsm.late \subseteq wsm'.late,
         \A c \in Conns :
           /\ wsm'.conn[c].ip = wsm.conn[c].ip
           /\ c \notin wsm'.late => wsm'.conn[c].user = wsm.conn[c].user
           /\ \/ wsm'.conn[c].st = wsm.conn[c].st
              \/ wsm.conn[c].st = "open" /\ wsm'.conn[c].st = "closing"
  PROVE  Good(wsm')
<1>1. wsm.managed \subseteq Conns
  BY DEF Good, Manager
<1>2. IndexedByIP(wsm')
  BY <1>1 DEF Good, IndexedByIP
<1>3. IndexedByUser(wsm')
  <2> SUFFICES ASSUME NEW u \in Users
               PROVE  wsm'.byUser[u] \ wsm'.late
                        = {d \in wsm'.managed \ wsm'.late : wsm'.conn[d].user = u}
    BY DEF IndexedByUser
  <2>1. wsm.byUser[u] \ wsm.late = {d \in wsm.managed \ wsm.late : wsm.conn[d].user = u}
    BY DEF Good, IndexedByUser
  <2> QED
    BY <1>1, <2>1
<1>4. Limited(wsm')
  BY DEF Good, Limited
<1>5. Owned(wsm')
  BY <1>1 DEF Good, Owned
<1> QED
  BY <1>2, <1>3, <1>4, <1>5 DEF Good

\* Every step keeps the manager good.
LEMMA NextGood == WM!ConnectionsAssumption /\ Good(wsm) /\ [WM!Next]_wsm => Good(wsm')
<1> SUFFICES ASSUME WM!ConnectionsAssumption, Good(wsm), [WM!Next]_wsm PROVE Good(wsm')
  OBVIOUS
<1>0. wsm \in Manager
  BY DEF Good
<1>1. ASSUME NEW c \in Conns, NEW ip \in Addresses, NEW u \in Users \union {WM!Nobody},
             WM!Accept(c, ip, u)
      PROVE  Good(wsm')
  BY <1>1, AcceptGood
<1>2. ASSUME NEW c \in Conns, NEW u \in Users, WM!Authenticate(c, u) PROVE Good(wsm')
  <2> DEFINE known == [wsm.conn[c] EXCEPT !.user = u, !.idle = FALSE]
  <2>1. wsm.conn[c] \in Conn
    BY <1>0 DEF Manager
  <2>2. /\ known \in Conn /\ known.ip = wsm.conn[c].ip /\ known.st = wsm.conn[c].st
    BY <2>1 DEF Conn
  <2>3. wsm' = [wsm EXCEPT !.conn = [wsm.conn EXCEPT ![c] = known], !.late = @ \union {c}]
    BY <1>2 DEF WM!Authenticate
  <2> HIDE DEF known
  <2>4. /\ wsm' \in Manager
        /\ wsm'.managed = wsm.managed /\ wsm'.byIP = wsm.byIP /\ wsm'.byUser = wsm.byUser
        /\ wsm'.late = wsm.late \union {c}
    BY <1>0, <2>2, <2>3 DEF Manager
  <2>5. wsm'.conn[c] = known /\ \A d \in Conns \ {c} : wsm'.conn[d] = wsm.conn[d]
    BY <1>0, <2>3 DEF Manager
  <2> QED
    BY <2>2, <2>4, <2>5, ConnGood
<1>3. ASSUME NEW c \in Conns, WM!Refuse(c) PROVE Good(wsm')
  <2>1. wsm' = WM!Close(wsm, {c})
    BY <1>3 DEF WM!Refuse
  <2> QED
    BY <1>0, <2>1, CloseKeeps, ConnGood
<1>4. ASSUME NEW c \in Conns, WM!GrowIdle(c) \/ WM!Activity(c) PROVE Good(wsm')
  <2>1. PICK b \in BOOLEAN : wsm' = [wsm EXCEPT !.conn[c].idle = b]
    BY <1>4 DEF WM!GrowIdle, WM!Activity
  <2> DEFINE seen == [wsm.conn[c] EXCEPT !.idle = b]
  <2>2. wsm.conn[c] \in Conn
    BY <1>0 DEF Manager
  <2>3. /\ seen \in Conn /\ seen.ip = wsm.conn[c].ip /\ seen.st = wsm.conn[c].st
        /\ seen.user = wsm.conn[c].user
    BY <2>2 DEF Conn
  <2>4. wsm' = [wsm EXCEPT !.conn = [wsm.conn EXCEPT ![c] = seen]]
    BY <2>1
  <2> HIDE DEF seen
  <2>5. /\ wsm' \in Manager
        /\ wsm'.managed = wsm.managed /\ wsm'.byIP = wsm.byIP /\ wsm'.byUser = wsm.byUser
        /\ wsm'.late = wsm.late
    BY <1>0, <2>3, <2>4 DEF Manager
  <2>6. wsm'.conn[c] = seen /\ \A d \in Conns \ {c} : wsm'.conn[d] = wsm.conn[d]
    BY <1>0, <2>4 DEF Manager
  <2> QED
    BY <2>3, <2>5, <2>6, ConnGood
<1>5. CASE WM!CleanupIdle
  <2>1. WM!Idle \in SUBSET Conns /\ wsm' = WM!Remove(wsm, WM!Idle)
    BY <1>0, <1>5 DEF WM!CleanupIdle, WM!Idle, Manager
  <2> QED
    BY <2>1, RemoveKeeps
<1>6. ASSUME NEW c \in Conns, WM!SocketClosed(c) PROVE Good(wsm')
  <2> DEFINE r == WM!Remove(wsm, {c})
             gone == [WM!NoConn EXCEPT !.st = "closed"]
  <2>1. Good(r) /\ c \notin r.managed
    BY RemoveKeeps
  <2>2. wsm' = [r EXCEPT !.conn[c] = gone]
    BY <1>6 DEF WM!SocketClosed
  <2>3. gone \in Conn /\ gone.st = "closed"
    BY DEF WM!NoConn, Conn
  <2> HIDE DEF r, gone
  <2>4. r \in Manager /\ r.managed \subseteq Conns
    BY <2>1 DEF Good, Manager
  <2>5. /\ wsm' \in Manager
        /\ wsm'.managed = r.managed /\ wsm'.byIP = r.byIP /\ wsm'.byUser = r.byUser
        /\ wsm'.late = r.late /\ wsm'.conn[c] = gone
        /\ \A d \in Conns \ {c} : wsm'.conn[d] = r.conn[d]
    BY <2>2, <2>3, <2>4 DEF Manager
  <2>6. IndexedByIP(wsm') /\ IndexedByUser(wsm')
    BY <2>1, <2>4, <2>5 DEF Good, IndexedByIP, IndexedByUser
  <2>7. Limited(wsm')
    BY <2>1, <2>5 DEF Good, Limited
  <2>8. Owned(wsm')
    BY <2>1, <2>3, <2>4, <2>5 DEF Good, Owned
  <2> QED
    BY <2>5, <2>6, <2>7, <2>8 DEF Good
<1>7. CASE WM!Shutdown
  <2> DEFINE r == WM!Remove(wsm, wsm.managed)
  <2>1. Good(r) /\ r.managed = {} /\ wsm.managed \subseteq Conns
    BY <1>0, RemoveKeeps DEF Manager
  <2>2. wsm' = [r EXCEPT !.ticking = FALSE, !.managed = {},
                  !.byIP = [a \in Addresses |-> {}], !.byUser = [u \in Users |-> {}]]
    BY <1>7 DEF WM!Shutdown
  <2> HIDE DEF r
  <2>3. r \in Manager
    BY <2>1 DEF Good
  <2>4. /\ wsm' \in Manager /\ wsm'.managed = {} /\ wsm'.late = r.late /\ wsm'.conn = r.conn
        /\ wsm'.byIP = [a \in Addresses |-> {}] /\ wsm'.byUser = [u \in Users |-> {}]
    BY <2>2, <2>3 DEF Manager
  <2>5. IndexedByIP(wsm') /\ IndexedByUser(wsm')
    BY <2>4 DEF IndexedByIP, IndexedByUser
  <2>6. Limited(wsm')
    BY <2>4, FS_EmptySet DEF Limited, WM!ConnectionsAssumption
  <2>7. Owned(wsm')
    BY <2>1, <2>4 DEF Good, Owned
  <2> QED
    BY <2>4, <2>5, <2>6, <2>7 DEF Good
<1>8. CASE UNCHANGED wsm
  BY <1>8
<1> QED
  BY <1>1, <1>2, <1>3, <1>4, <1>5, <1>6, <1>7, <1>8 DEF WM!Next

\* Connections that are accepted, authenticate late, are refused, grow idle, close
\* from either side and are shut down, in whichever order, leave a good manager.
LEMMA AlwaysGood == ASSUME WM!ConnectionsAssumption PROVE WM!Spec => []Good(wsm)
<1>1. WM!Init => Good(wsm)
  BY InitGood
<1>2. Good(wsm) /\ [WM!Next]_wsm => Good(wsm)'
  BY NextGood
<1> QED
  BY <1>1, <1>2, PTL DEF WM!Spec

\* The maps of addConnection() hold connections, and an index by address none the
\* map of connections lacks.
THEOREM ConnectionsTyped == ASSUME WM!ConnectionsAssumption PROVE WM!Spec => []WM!TypeOK
<1>1. Good(wsm) => WM!TypeOK
  BY DEF Good, Manager, IndexedByIP, WM!TypeOK
<1> QED
  BY <1>1, AlwaysGood, PTL

\* The index by address is exact and neither limit of addConnection() is passed.
THEOREM LimitsAreKept == ASSUME WM!ConnectionsAssumption PROVE WM!Spec => []WM!LimitsHold
<1>1. Good(wsm) => WM!LimitsHold
  BY ManagerCounts DEF Good, Limited, IndexedByIP, WM!LimitsHold
<1> QED
  BY <1>1, AlwaysGood, PTL

\* The index by user is exact but for the users that handleAuthentication() set.
THEOREM UserIndexIsExact == ASSUME WM!ConnectionsAssumption PROVE WM!Spec => []WM!UserIndexExact
<1>1. Good(wsm) => WM!UserIndexExact
  BY DEF Good, IndexedByUser, WM!UserIndexExact
<1> QED
  BY <1>1, AlwaysGood, PTL

\* A connection the manager does not hold is not open.
THEOREM OpenAreManaged == ASSUME WM!ConnectionsAssumption PROVE WM!Spec => []WM!OpenIsManaged
<1>1. Good(wsm) => WM!OpenIsManaged
  BY DEF Good, Owned, WM!OpenIsManaged
<1> QED
  BY <1>1, AlwaysGood, PTL

-----------------------------------------------------------------------------
(* The interceptors and the cache of the HTTP client.                      *)

HttpRequest ==
  [pc : {"new", "before", "cached", "running", "delay", "after", "answered", "failed", "lost"},
   pos : Nat \ {0}, ran : Seq(Nat), due : Seq(Nat), attempt : Nat, got : Nat,
   disturbed : BOOLEAN]

HttpType(c) ==
  c \in [hooks : [HC!Chains -> Seq(Nat)], made : Nat, version : Nat, cache : Nat,
         expired : BOOLEAN, req : [Requests -> HttpRequest]]

\* Sequence h begins with the elements of s.
Starts(s, h) == Len(s) <= Len(h) /\ \A i \in 1..Len(s) : s[i] = h[i]

\* The iteration of request x over array h has run what is in front of its place, and
\* what it found when it began is still there.
InPlace(x, h) == x.pos = Len(x.ran) + 1 /\ Starts(x.ran, h) /\ Starts(x.due, h)

\* Request x is where it should be in the arrays H, unless eject() disturbed it.
OnCourse(x, H) ==
  x.disturbed = FALSE =>
    (x.pc = "before" => InPlace(x, H["request"])) /\ (x.pc = "after" => InPlace(x, H["response"]))

\* A request was answered with version v.
WasAnswered(R, v) == \E r \in Requests : R[r].pc = "answered" /\ R[r].got = v

\* Version v in the cache, and what was answered from it, were answered before.
CacheKnown(R, v) ==
  /\ v # 0 => WasAnswered(R, v)
  /\ \A r \in Requests : R[r].pc = "cached" => WasAnswered(R, R[r].got)

HttpInv(c) ==
  /\ HttpType(c) /\ CacheKnown(c.req, c.cache)
  /\ \A r \in Requests : OnCourse(c.req[r], c.hooks)

\* The requests that leave a chain in the step from c to d have run all that is due.
Completes(c, d) ==
  \A r \in Requests :
    c.req[r].pc \in {"before", "after"} /\ d.req[r].pc \notin {c.req[r].pc, "failed"}
      /\ ~c.req[r].disturbed => HC!HasRun(c.req[r])

\* No request is answered from a cache that has expired in the step from c to d.
ServesFresh(c, d) ==
  \A r \in Requests : c.req[r].pc # "cached" /\ d.req[r].pc = "cached" => ~c.expired

\* What a step from c to d does.
HttpStep(c, d) == HttpInv(d) /\ Completes(c, d) /\ ServesFresh(c, d)

\* The requests R and S are in the same places, and S answered as R did.
SameAnswers(R, S) == \A r \in Requests : S[r].pc = R[r].pc /\ S[r].got = R[r].got

\* A state of the client d that differs from c in request r, which is y, and in the cache.
RequestMoves(c, d, r, y) ==
  /\ d.hooks = c.hooks /\ d.req = [c.req EXCEPT ![r] = y]
  /\ y \in HttpRequest /\ OnCourse(y, c.hooks) /\ c.req[r].pc # "answered"
  /\ y.pc = "cached" => c.cache # 0 /\ y.got = c.cache /\ ~c.expired
  /\ c.req[r].pc = "before" /\ y.pc \notin {"before", "failed"}
       => c.req[r].pos \notin DOMAIN c.hooks["request"]
  /\ c.req[r].pc = "after" /\ y.pc \notin {"after", "failed"}
       => c.req[r].pos \notin DOMAIN c.hooks["response"]
  /\ d.cache # 0 => d.cache = c.cache \/ (y.pc = "answered" /\ d.cache = y.got)

\* An array that grows still begins with what it began with.
LEMMA AppendStarts ==
  ASSUME NEW s \in Seq(Nat), NEW h \in Seq(Nat), NEW e \in Nat, Starts(s, h)
  PROVE  Starts(s, Append(h, e)) /\ Append(h, e) \in Seq(Nat)
<1>1. PICK k, l \in Nat : k = Len(s) /\ l = Len(h)
  BY LenProperties
<1>2. PICK g : g = Append(h, e)
  OBVIOUS
<1>a. k \in Nat /\ l \in Nat /\ k = Len(s) /\ l = Len(h)
  BY <1>1, LenProperties
<1>3. g \in Seq(Nat) /\ Len(g) = l + 1 /\ \A i \in 1..l : g[i] = h[i]
  BY <1>a, <1>2, AppendProperties
<1>4. k <= l /\ \A i \in 1..k : s[i] = h[i] /\ i \in 1..l
  BY <1>a DEF Starts
<1>5. k <= l + 1 /\ \A i \in 1..k : s[i] = g[i]
  BY <1>a, <1>3, <1>4
<1> QED
  BY <1>2, <1>3, <1>5, <1>a DEF Starts

\* Nothing is in front of every array.
LEMMA NothingStarts ==
  ASSUME NEW h \in Seq(Nat)
  PROVE  Starts(<<>>, h) /\ Starts(h, h) /\ <<>> \in Seq(Nat) /\ Len(<<>>) = 0
<1>1. PICK s \in Seq(Nat) : s = <<>> /\ Len(s) = 0
  BY EmptySeq
<1>2. Len(h) \in Nat
  BY LenProperties
<1> QED
  BY <1>1, <1>2 DEF Starts

\* The interceptor at the iteration's place has run.
LEMMA RunStarts ==
  ASSUME NEW s \in Seq(Nat), NEW h \in Seq(Nat), Starts(s, h), NEW p \in Nat,
         p = Len(s) + 1, p \in DOMAIN h
  PROVE  /\ Append(s, h[p]) \in Seq(Nat) /\ Starts(Append(s, h[p]), h)
         /\ p + 1 = Len(Append(s, h[p])) + 1
<1>1. PICK k \in Nat : k = Len(s)
  BY LenProperties
<1>2. PICK l \in Nat : l = Len(h)
  BY LenProperties
<1>3. p = k + 1 /\ p \in 1..l /\ h[p] \in Nat
  BY <1>1, <1>2, LenProperties, ElementOfSeq
<1>4. PICK e \in Nat : e = h[p]
  BY <1>3
<1>5. PICK g : g = Append(s, e)
  OBVIOUS
<1>6. g \in Seq(Nat) /\ Len(g) = k + 1 /\ g[k + 1] = e /\ \A i \in 1..k : g[i] = s[i]
  BY <1>1, <1>5, AppendProperties
<1>7. \A i \in 1..k : s[i] = h[i]
  BY <1>1 DEF Starts
<1>8. ASSUME NEW i \in 1..k + 1 PROVE g[i] = h[i]
  <2>1. i \in 1..k \/ i = k + 1
    BY <1>1
  <2> QED
    BY <1>3, <1>4, <1>6, <1>7, <2>1
<1>9. k + 1 <= l
  BY <1>3
<1> QED
  BY <1>3, <1>4, <1>5, <1>6, <1>8, <1>9, <1>2 DEF Starts

\* An iteration that is past the end of the array has run all it found there.
LEMMA PastTheEnd ==
  ASSUME NEW x \in HttpRequest, NEW h \in Seq(Nat), InPlace(x, h), x.pos \notin DOMAIN h
  PROVE  HC!HasRun(x)
<1>1. PICK d \in Seq(Nat), s \in Seq(Nat), p \in Nat \ {0} : d = x.due /\ s = x.ran /\ p = x.pos
  BY DEF HttpRequest
<1>2. PICK k \in Nat : k = Len(s)
  BY LenProperties
<1>3. PICK l \in Nat : l = Len(h)
  BY LenProperties
<1>4. PICK m \in Nat : m = Len(d)
  BY LenProperties
<1>5. p = k + 1 /\ k <= l /\ p \notin 1..l
  BY <1>1, <1>2, <1>3, LenProperties DEF InPlace, Starts
<1>6. k = l
  BY <1>5
<1>7. m <= k /\ \A i \in 1..m : d[i] = h[i]
  BY <1>1, <1>3, <1>4, <1>6 DEF InPlace, Starts
<1>8. \A i \in 1..k : s[i] = h[i]
  BY <1>1, <1>2 DEF InPlace, Starts
<1>9. \A i \in 1..m : d[i] = s[i] /\ i \in 1..k
  BY <1>7, <1>8
<1>10. DOMAIN d = 1..m /\ DOMAIN s = 1..k
  BY <1>2, <1>4, LenProperties
<1> QED
  BY <1>1, <1>9, <1>10 DEF HC!HasRun

\* Answers that were given stay given.
LEMMA AnswersStay ==
  ASSUME NEW R, NEW S, SameAnswers(R, S), NEW v, CacheKnown(R, v), NEW w, w = v \/ w = 0
  PROVE  CacheKnown(S, w)
<1>1. ASSUME NEW u, WasAnswered(R, u) PROVE WasAnswered(S, u)
  BY <1>1 DEF WasAnswered, SameAnswers
<1> QED
  BY <1>1 DEF CacheKnown, SameAnswers

\* A request that moves keeps the invariant.
LEMMA RequestKeeps ==
  ASSUME NEW c, HttpInv(c), NEW d, HttpType(d), NEW r \in Requests, NEW y,
         RequestMoves(c, d, r, y)
  PROVE  HttpStep(c, d)
<1>1. PICK R \in [Requests -> HttpRequest] : R = c.req
  BY DEF HttpInv, HttpType
<1>2. PICK S : S = [R EXCEPT ![r] = y] /\ S = d.req
  BY <1>1 DEF RequestMoves
<1>3. S[r] = y /\ \A q \in Requests : q # r => S[q] = R[q]
  BY <1>1, <1>2
<1>4. ASSUME NEW u, WasAnswered(R, u) PROVE WasAnswered(S, u)
  <2>1. PICK q \in Requests : R[q].pc = "answered" /\ R[q].got = u
    BY <1>4 DEF WasAnswered
  <2>2. q # r
    BY <1>1, <2>1 DEF RequestMoves
  <2> QED
    BY <1>3, <2>1, <2>2 DEF WasAnswered
<1>5. ASSUME NEW q \in Requests, S[q].pc = "cached" PROVE WasAnswered(S, S[q].got)
  <2>1. CASE q = r
    <3>1. c.cache # 0 /\ S[q].got = c.cache
      BY <1>3, <1>5, <2>1 DEF RequestMoves
    <3>2. WasAnswered(R, c.cache)
      BY <1>1, <3>1 DEF HttpInv, CacheKnown
    <3> QED
      BY <1>4, <3>1, <3>2
  <2>2. CASE q # r
    <3>1. WasAnswered(R, R[q].got)
      BY <1>1, <1>3, <1>5, <2>2 DEF HttpInv, CacheKnown
    <3> QED
      BY <1>3, <1>4, <2>2, <3>1
  <2> QED
    BY <2>1, <2>2
<1>6. d.cache # 0 => WasAnswered(S, d.cache)
  <2>1. CASE d.cache = c.cache
    BY <1>1, <1>4, <2>1 DEF HttpInv, CacheKnown
  <2>2. CASE y.pc = "answered" /\ d.cache = y.got
    BY <1>3, <2>2 DEF WasAnswered
  <2> QED
    BY <2>1, <2>2 DEF RequestMoves
<1>7. ASSUME NEW q \in Requests PROVE OnCourse(S[q], d.hooks)
  <2>1. OnCourse(R[q], c.hooks) /\ OnCourse(y, c.hooks) /\ d.hooks = c.hooks
    BY <1>1 DEF HttpInv, RequestMoves
  <2> QED
    BY <1>3, <2>1
<1>8. HttpInv(d)
  BY <1>2, <1>5, <1>6, <1>7 DEF HttpInv, CacheKnown
<1>9. Completes(c, d)
  <2> SUFFICES ASSUME NEW q \in Requests, R[q].pc \in {"before", "after"},
                      S[q].pc \notin {R[q].pc, "failed"}, ~R[q].disturbed
               PROVE  HC!HasRun(R[q])
    BY <1>1, <1>2 DEF Completes
  <2>1. q = r /\ S[q] = y
    BY <1>3
  <2>2. PICK h, g \in Seq(Nat) : h = c.hooks["request"] /\ g = c.hooks["response"]
    BY DEF HttpInv, HttpType, HC!Chains
  <2>3. h \in Seq(Nat) /\ g \in Seq(Nat)
    BY <2>2 DEF HttpInv, HttpType, HC!Chains
  <2>4. R[q] \in HttpRequest /\ R[q].disturbed = FALSE /\ OnCourse(R[q], c.hooks)
    BY <1>1 DEF HttpInv, HttpRequest
  <2>5. CASE R[q].pc = "before"
    <3>1. R[q].pos \notin DOMAIN h
      BY <1>1, <2>1, <2>2, <2>5 DEF RequestMoves
    <3>2. InPlace(R[q], h)
      BY <2>2, <2>4, <2>5 DEF OnCourse
    <3> QED
      BY <2>3, <2>4, <3>1, <3>2, PastTheEnd
  <2>6. CASE R[q].pc = "after"
    <3>1. R[q].pos \notin DOMAIN g
      BY <1>1, <2>1, <2>2, <2>6 DEF RequestMoves
    <3>2. InPlace(R[q], g)
      BY <2>2, <2>4, <2>6 DEF OnCourse
    <3> QED
      BY <2>3, <2>4, <3>1, <3>2, PastTheEnd
  <2> QED
    BY <2>5, <2>6
<1>10. ServesFresh(c, d)
  <2> SUFFICES ASSUME NEW q \in Requests, R[q].pc # "cached", S[q].pc = "cached"
               PROVE  ~c.expired
    BY <1>1, <1>2 DEF ServesFresh
  <2>1. S[q] = y
    BY <1>3
  <2> QED
    BY <2>1 DEF RequestMoves
<1> QED
  BY <1>8, <1>9, <1>10 DEF HttpStep

\* A request that enters a chain is at its beginning.
LEMMA IterateEnters ==
  ASSUME HttpType(hc), NEW x \in HttpRequest, NEW p \in {"before", "after"}
  PROVE  /\ HC!Iterate(x, p) \in HttpRequest /\ OnCourse(HC!Iterate(x, p), hc.hooks)
         /\ HC!Iterate(x, p).pc = p
<1>1. PICK h : h = hc.hooks[IF p = "before" THEN "request" ELSE "response"]
  OBVIOUS
<1>2. h \in Seq(Nat)
  BY <1>1 DEF HttpType, HC!Chains
<1>3. PICK e : e = <<>> /\ e \in Seq(Nat) /\ Len(e) = 0 /\ Starts(e, h) /\ Starts(h, h)
  BY <1>2, NothingStarts
<1>4. PICK y : y = HC!Iterate(x, p)
  OBVIOUS
<1>5. y = [x EXCEPT !.pc = p, !.pos = 1, !.ran = e, !.disturbed = FALSE, !.due = h]
  BY <1>1, <1>3, <1>4 DEF HC!Iterate
<1>6. y \in HttpRequest /\ y.pc = p /\ y.pos = 1 /\ y.ran = e /\ y.due = h
  <2>1. PICK a : a = [x EXCEPT !.pc = p, !.pos = 1]
    OBVIOUS
  <2>2. a \in HttpRequest /\ a.pc = p /\ a.pos = 1
    <3>1. PICK z : z = [x EXCEPT !.pc = p]
      OBVIOUS
    <3>2. z \in HttpRequest /\ z.pc = p
      BY <3>1 DEF HttpRequest
    <3>3. a = [z EXCEPT !.pos = 1] /\ 1 \in Nat \ {0}
      BY <2>1, <3>1
    <3> QED
      BY <3>2, <3>3 DEF HttpRequest
  <2>3. PICK b : b = [a EXCEPT !.ran = e, !.disturbed = FALSE]
    OBVIOUS
  <2>4. b \in HttpRequest /\ b.pc = p /\ b.pos = 1 /\ b.ran = e
    BY <1>3, <2>2, <2>3 DEF HttpRequest
  <2>5. y = [b EXCEPT !.due = h]
    BY <1>5, <2>1, <2>3
  <2> QED
    BY <1>2, <2>4, <2>5 DEF HttpRequest
<1>7. InPlace(y, h)
  BY <1>3, <1>6 DEF InPlace
<1>8. OnCourse(y, hc.hooks)
  BY <1>1, <1>6, <1>7 DEF OnCourse
<1> QED
  BY <1>4, <1>6, <1>8

\* A request that leaves the chains is in none, with the answer it has.
LEMMA LeaveEnds ==
  ASSUME NEW x \in HttpRequest, NEW p \in {"cached", "running", "answered", "failed"}
  PROVE  /\ HC!Leave(x, p) \in HttpRequest /\ HC!Leave(x, p).pc = p
         /\ HC!Leave(x, p).got = x.got
<1>1. PICK e \in Seq(Nat) : e = <<>>
  BY EmptySeq
<1>2. HC!Leave(x, p) = [x EXCEPT !.pc = p, !.pos = 1, !.ran = e, !.due = e, !.disturbed = FALSE]
  BY <1>1 DEF HC!Leave
<1>3. PICK a : a = [x EXCEPT !.pc = p, !.pos = 1]
  OBVIOUS
<1>4. a \in HttpRequest /\ a.pc = p /\ a.got = x.got
  <2>1. PICK z : z = [x EXCEPT !.pc = p]
    OBVIOUS
  <2>2. z \in HttpRequest /\ z.pc = p /\ z.got = x.got
    BY <2>1 DEF HttpRequest
  <2>3. a = [z EXCEPT !.pos = 1] /\ 1 \in Nat \ {0}
    BY <1>3, <2>1
  <2> QED
    BY <2>2, <2>3 DEF HttpRequest
<1>5. PICK b : b = [a EXCEPT !.ran = e, !.due = e]
  OBVIOUS
<1>6. b \in HttpRequest /\ b.pc = p /\ b.got = x.got
  BY <1>4, <1>5 DEF HttpRequest
<1>7. HC!Leave(x, p) = [b EXCEPT !.disturbed = FALSE]
  BY <1>2, <1>3, <1>5
<1> QED
  BY <1>6, <1>7 DEF HttpRequest

\* The state of the client is a record of its parts.
LEMMA HttpParts ==
  ASSUME HttpType(hc)
  PROVE  /\ hc.hooks \in [HC!Chains -> Seq(Nat)] /\ hc.made \in Nat /\ hc.version \in Nat
         /\ hc.cache \in Nat /\ hc.expired \in BOOLEAN /\ hc.req \in [Requests -> HttpRequest]
         /\ hc.hooks["request"] \in Seq(Nat) /\ hc.hooks["response"] \in Seq(Nat)
BY DEF HttpType, HC!Chains

\* The requests' own steps.
LEMMA RequestSteps ==
  ASSUME HttpInv(hc), NEW r \in Requests, HC!Request(r) \/ HC!Step(r)
  PROVE  HttpStep(hc, hc')
<1> USE DEF HC!Chain
<1>0. HttpType(hc)
  BY DEF HttpInv
<1>p. PICK x \in HttpRequest : x = hc.req[r]
  BY <1>0, HttpParts
<1>o. OnCourse(x, hc.hooks)
  BY <1>p DEF HttpInv
<1>m. ASSUME NEW y \in HttpRequest, hc' = [hc EXCEPT !.req[r] = y]
      PROVE  /\ HttpType(hc') /\ hc'.hooks = hc.hooks /\ hc'.req = [hc.req EXCEPT ![r] = y]
             /\ hc'.cache = hc.cache
  BY <1>0, <1>m DEF HttpType
<1>n. ASSUME NEW y \in HttpRequest, NEW v \in Nat,
             hc' = [hc EXCEPT !.req[r] = y, !.cache = v, !.expired = FALSE]
      PROVE  /\ HttpType(hc') /\ hc'.hooks = hc.hooks /\ hc'.req = [hc.req EXCEPT ![r] = y]
             /\ hc'.cache = v
  BY <1>0, <1>n DEF HttpType
<1>1. CASE HC!Request(r)
  <2>1. PICK y : y = HC!Iterate(x, "before")
    OBVIOUS
  <2>2. y \in HttpRequest /\ OnCourse(y, hc.hooks) /\ y.pc = "before"
    BY <1>0, <2>1, IterateEnters
  <2>3. hc' = [hc EXCEPT !.req[r] = y] /\ x.pc = "new"
    BY <1>1, <1>p, <2>1 DEF HC!Request
  <2>4. RequestMoves(hc, hc', r, y)
    BY <1>m, <1>p, <2>2, <2>3 DEF RequestMoves
  <2> QED
    BY <1>m, <2>2, <2>3, <2>4, RequestKeeps
<1>2. CASE HC!Lookup(r)
  <2>1. x.pc = "before" /\ x.pos \notin DOMAIN hc.hooks["request"]
    BY <1>2, <1>p DEF HC!Lookup
  <2>2. CASE hc.cache # 0 /\ ~hc.expired
    <3>1. PICK z : z = HC!Leave(x, "cached")
      OBVIOUS
    <3>2. z \in HttpRequest /\ z.pc = "cached"
      BY <3>1, LeaveEnds
    <3>3. PICK y : y = [z EXCEPT !.got = hc.cache]
      OBVIOUS
    <3>4. y \in HttpRequest /\ y.pc = "cached" /\ y.got = hc.cache
      BY <1>0, <3>2, <3>3, HttpParts DEF HttpRequest
    <3>5. hc' = [hc EXCEPT !.req[r] = y]
      BY <1>2, <1>p, <2>2, <3>1, <3>3 DEF HC!Lookup
    <3>6. OnCourse(y, hc.hooks)
      BY <3>4 DEF OnCourse
    <3>7. RequestMoves(hc, hc', r, y)
      BY <1>m, <1>p, <2>1, <2>2, <3>4, <3>5, <3>6 DEF RequestMoves
    <3> QED
      BY <1>m, <3>4, <3>5, <3>7, RequestKeeps
  <2>3. CASE ~(hc.cache # 0 /\ ~hc.expired)
    <3>1. PICK y : y = HC!Leave(x, "running")
      OBVIOUS
    <3>2. y \in HttpRequest /\ y.pc = "running"
      BY <3>1, LeaveEnds
    <3>3. hc' = [hc EXCEPT !.req[r] = y, !.cache = 0, !.expired = FALSE]
      BY <1>2, <1>p, <2>3, <3>1 DEF HC!Lookup
    <3>4. OnCourse(y, hc.hooks)
      BY <3>2 DEF OnCourse
    <3>5. HttpType(hc') /\ hc'.hooks = hc.hooks /\ hc'.req = [hc.req EXCEPT ![r] = y] /\ hc'.cache = 0
      BY <1>n, <3>2, <3>3
    <3>6. RequestMoves(hc, hc', r, y)
      BY <1>p, <2>1, <3>2, <3>4, <3>5 DEF RequestMoves
    <3> QED
      BY <3>5, <3>6, RequestKeeps
  <2> QED
    BY <2>2, <2>3
<1>3. CASE HC!Respond(r)
  <2>1. PICK z : z = [x EXCEPT !.got = hc.version]
    OBVIOUS
  <2>2. z \in HttpRequest
    BY <1>0, <2>1, HttpParts DEF HttpRequest
  <2>3. PICK y : y = HC!Iterate(z, "after")
    OBVIOUS
  <2>4. y \in HttpRequest /\ OnCourse(y, hc.hooks) /\ y.pc = "after"
    BY <1>0, <2>2, <2>3, IterateEnters
  <2>5. hc' = [hc EXCEPT !.req[r] = y] /\ x.pc = "running"
    BY <1>3, <1>p, <2>1, <2>3 DEF HC!Respond
  <2>6. RequestMoves(hc, hc', r, y)
    BY <1>m, <1>p, <2>4, <2>5 DEF RequestMoves
  <2> QED
    BY <1>m, <2>4, <2>5, <2>6, RequestKeeps
<1>4. CASE HC!Retry(r)
  <2>1. PICK y : y = [x EXCEPT !.pc = "running"]
    OBVIOUS
  <2>2. y \in HttpRequest /\ y.pc = "running" /\ OnCourse(y, hc.hooks)
    BY <2>1 DEF HttpRequest, OnCourse
  <2>3. hc' = [hc EXCEPT !.req[r] = y] /\ x.pc = "delay"
    BY <1>0, <1>4, <1>p, <2>1, HttpParts DEF HC!Retry
  <2>4. RequestMoves(hc, hc', r, y)
    BY <1>m, <1>p, <2>2, <2>3 DEF RequestMoves
  <2> QED
    BY <1>m, <2>2, <2>3, <2>4, RequestKeeps
<1>5. CASE HC!ResponseLost(r)
  <2>1. PICK y : y = [x EXCEPT !.pc = "lost"]
    OBVIOUS
  <2>2. y \in HttpRequest /\ y.pc = "lost" /\ OnCourse(y, hc.hooks)
    BY <2>1 DEF HttpRequest, OnCourse
  <2>3. hc' = [hc EXCEPT !.req[r] = y] /\ x.pc = "running"
    BY <1>0, <1>5, <1>p, <2>1, HttpParts DEF HC!ResponseLost
  <2>4. RequestMoves(hc, hc', r, y)
    BY <1>m, <1>p, <2>2, <2>3 DEF RequestMoves
  <2> QED
    BY <1>m, <2>2, <2>3, <2>4, RequestKeeps
<1>6. CASE HC!Answer(r)
  <2>1. x.pc = "after" /\ x.pos \notin DOMAIN hc.hooks["response"]
    BY <1>6, <1>p DEF HC!Answer
  <2>2. PICK y : y = HC!Leave(x, "answered")
    OBVIOUS
  <2>3. y \in HttpRequest /\ y.pc = "answered" /\ y.got = x.got /\ x.got \in Nat
    BY <2>2, LeaveEnds DEF HttpRequest
  <2>4. hc' = [hc EXCEPT !.req[r] = y, !.cache = x.got, !.expired = FALSE]
    BY <1>6, <1>p, <2>2 DEF HC!Answer
  <2>5. OnCourse(y, hc.hooks)
    BY <2>3 DEF OnCourse
  <2>6. HttpType(hc') /\ hc'.hooks = hc.hooks /\ hc'.req = [hc.req EXCEPT ![r] = y]
        /\ hc'.cache = x.got
    BY <1>n, <2>3, <2>4
  <2>7. RequestMoves(hc, hc', r, y)
    BY <1>p, <2>1, <2>3, <2>5, <2>6 DEF RequestMoves
  <2> QED
    BY <2>6, <2>7, RequestKeeps
<1>7. ASSUME NEW ok \in BOOLEAN, HC!Intercept(r, ok) PROVE HttpStep(hc, hc')
  <2>1. PICK h : h = hc.hooks[HC!Chain(r)]
    OBVIOUS
  <2>2. h \in Seq(Nat) /\ x.pc \in {"before", "after"} /\ x.pos \in DOMAIN h
    BY <1>0, <1>7, <1>p, <2>1, HttpParts DEF HC!Intercept
  <2>3. CASE ok
    <3>1. PICK y : y = [x EXCEPT !.pos = @ + 1, !.ran = Append(@, h[x.pos])]
      OBVIOUS
    <3>2. hc' = [hc EXCEPT !.req[r] = y]
      BY <1>7, <1>p, <2>1, <2>3, <3>1 DEF HC!Intercept
    <3>3. Append(x.ran, h[x.pos]) \in Seq(Nat)
      <4>1. x.pos \in 1..Len(h) /\ x.ran \in Seq(Nat)
        BY <2>2, LenProperties DEF HttpRequest
      <4>2. h[x.pos] \in Nat
        BY <2>2, <4>1, ElementOfSeq
      <4> QED
        BY <4>1, <4>2, AppendProperties
    <3>4. /\ y \in HttpRequest /\ y.pc = x.pc /\ y.pos = x.pos + 1 /\ y.due = x.due
          /\ y.ran = Append(x.ran, h[x.pos]) /\ y.disturbed = x.disturbed
      <4>1. PICK n \in Nat \ {0} : n = x.pos + 1
        BY DEF HttpRequest
      <4>2. PICK s \in Seq(Nat) : s = Append(x.ran, h[x.pos])
        BY <3>3
      <4>3. y = [x EXCEPT !.pos = n, !.ran = s]
        BY <3>1, <4>1, <4>2
      <4>4. PICK a : a = [x EXCEPT !.pos = n]
        OBVIOUS
      <4>5. /\ a \in HttpRequest /\ a.pc = x.pc /\ a.pos = n /\ a.due = x.due
            /\ a.disturbed = x.disturbed
        BY <4>4 DEF HttpRequest
      <4>6. y = [a EXCEPT !.ran = s]
        BY <4>3, <4>4
      <4>7. /\ y \in HttpRequest /\ y.pc = x.pc /\ y.pos = n /\ y.due = x.due
            /\ y.ran = s /\ y.disturbed = x.disturbed
        BY <4>5, <4>6 DEF HttpRequest
      <4> QED
        BY <4>1, <4>2, <4>7
    <3>5. ASSUME InPlace(x, h) PROVE InPlace(y, h)
      <4>1. x.ran \in Seq(Nat) /\ x.pos \in Nat
        BY DEF HttpRequest
      <4>2. Starts(Append(x.ran, h[x.pos]), h) /\ x.pos + 1 = Len(Append(x.ran, h[x.pos])) + 1
        BY <2>2, <3>5, <4>1, RunStarts DEF InPlace
      <4> QED
        BY <3>4, <3>5, <4>2 DEF InPlace
    <3>6. h = IF x.pc = "before" THEN hc.hooks["request"] ELSE hc.hooks["response"]
      BY <1>p, <2>1
    <3>7. OnCourse(y, hc.hooks)
      BY <1>o, <3>4, <3>5, <3>6 DEF OnCourse
    <3>8. RequestMoves(hc, hc', r, y)
      BY <1>m, <1>p, <2>2, <3>2, <3>4, <3>7 DEF RequestMoves
    <3> QED
      BY <1>m, <3>2, <3>4, <3>8, RequestKeeps
  <2>4. CASE ~ok
    <3>1. PICK y : y = HC!Leave(x, "failed")
      OBVIOUS
    <3>2. y \in HttpRequest /\ y.pc = "failed" /\ OnCourse(y, hc.hooks)
      BY <3>1, LeaveEnds DEF OnCourse
    <3>3. hc' = [hc EXCEPT !.req[r] = y]
      BY <1>7, <1>p, <2>4, <3>1 DEF HC!Intercept
    <3>4. RequestMoves(hc, hc', r, y)
      BY <1>m, <1>p, <2>2, <3>2, <3>3 DEF RequestMoves
    <3> QED
      BY <1>m, <3>2, <3>3, <3>4, RequestKeeps
  <2> QED
    BY <2>3, <2>4
<1>8. ASSUME NEW again \in BOOLEAN, HC!AttemptFails(r, again) PROVE HttpStep(hc, hc')
  <2>1. PICK n : n = x.attempt + 1
    OBVIOUS
  <2>2. PICK p : p = IF n >= HttpAttempts \/ ~again THEN "failed" ELSE "delay"
    OBVIOUS
  <2>3. PICK y : y = [x EXCEPT !.attempt = n, !.pc = p]
    OBVIOUS
  <2>4. y \in HttpRequest /\ y.pc = p /\ p \in {"failed", "delay"}
    <3>1. n \in Nat /\ p \in {"failed", "delay"}
      BY <2>1, <2>2 DEF HttpRequest
    <3> QED
      BY <2>3, <3>1 DEF HttpRequest
  <2>5. hc' = [hc EXCEPT !.req[r] = y] /\ x.pc = "running"
    BY <1>0, <1>8, <1>p, <2>1, <2>2, <2>3, HttpParts DEF HC!AttemptFails
  <2>6. OnCourse(y, hc.hooks)
    BY <2>4 DEF OnCourse
  <2>7. RequestMoves(hc, hc', r, y)
    BY <1>m, <1>p, <2>4, <2>5, <2>6 DEF RequestMoves
  <2> QED
    BY <1>m, <2>4, <2>5, <2>7, RequestKeeps
<1> QED
  BY <1>1, <1>2, <1>3, <1>4, <1>5, <1>6, <1>7, <1>8 DEF HC!Step

\* A step that moves no request on: c and d differ in arrays, made, version or cache.
LEMMA OthersKeep ==
  ASSUME NEW c, HttpInv(c), NEW d, HttpType(d), SameAnswers(c.req, d.req),
         d.cache = c.cache \/ d.cache = 0,
         \A q \in Requests : OnCourse(d.req[q], d.hooks)
  PROVE  HttpStep(c, d)
<1>1. CacheKnown(d.req, d.cache)
  BY AnswersStay DEF HttpInv
<1>2. Completes(c, d) /\ ServesFresh(c, d)
  BY DEF SameAnswers, Completes, ServesFresh
<1> QED
  BY <1>1, <1>2 DEF HttpInv, HttpStep

\* use() and eject().
LEMMA HookSteps ==
  ASSUME HttpInv(hc), NEW ch \in HC!Chains,
         HC!UseHook(ch) \/ \E id \in 1..MaxHooks : HC!Eject(ch, id)
  PROVE  HttpStep(hc, hc')
<1>1. HttpType(hc) /\ hc.hooks[ch] \in Seq(Nat)
  BY HttpParts DEF HttpInv
<1>2. CASE HC!UseHook(ch)
  <2>1. PICK n \in Nat : n = hc.made + 1
    BY <1>1, HttpParts
  <2>2. PICK g : g = Append(hc.hooks[ch], n)
    OBVIOUS
  <2>3. g \in Seq(Nat)
    BY <1>1, <2>2, AppendProperties
  <2>4. hc' = [hc EXCEPT !.made = n, !.hooks[ch] = g]
    BY <1>1, <1>2, <2>1, <2>2, HttpParts DEF HC!UseHook
  <2>5. /\ HttpType(hc') /\ hc'.hooks = [hc.hooks EXCEPT ![ch] = g] /\ hc'.req = hc.req
        /\ hc'.cache = hc.cache
    BY <1>1, <2>3, <2>4 DEF HttpType
  <2>6. ASSUME NEW x \in HttpRequest, NEW k \in HC!Chains, InPlace(x, hc.hooks[k])
        PROVE  InPlace(x, hc'.hooks[k])
    <3>1. CASE k = ch
      <4>1. x.ran \in Seq(Nat) /\ x.due \in Seq(Nat)
        BY DEF HttpRequest
      <4>2. Starts(x.ran, g) /\ Starts(x.due, g)
        BY <1>1, <2>1, <2>2, <2>6, <3>1, <4>1, AppendStarts DEF InPlace
      <4>3. hc'.hooks[k] = g
        BY <1>1, <2>5, <3>1, HttpParts
      <4> QED
        BY <2>6, <4>2, <4>3 DEF InPlace
    <3>2. CASE k # ch
      <4>1. hc'.hooks[k] = hc.hooks[k]
        BY <1>1, <2>5, <3>2, HttpParts
      <4> QED
        BY <2>6, <4>1
    <3> QED
      BY <3>1, <3>2
  <2>7. ASSUME NEW q \in Requests PROVE OnCourse(hc'.req[q], hc'.hooks)
    <3>1. PICK x \in HttpRequest : x = hc.req[q]
      BY <1>1, HttpParts
    <3>2. OnCourse(x, hc.hooks)
      BY <3>1 DEF HttpInv
    <3>3. OnCourse(x, hc'.hooks)
      BY <2>6, <3>2 DEF OnCourse, HC!Chains
    <3> QED
      BY <2>5, <3>1, <3>3
  <2>8. SameAnswers(hc.req, hc'.req)
    BY <2>5 DEF SameAnswers
  <2> QED
    BY <2>5, <2>7, <2>8, OthersKeep
<1>3. ASSUME NEW id \in 1..MaxHooks, HC!Eject(ch, id) PROVE HttpStep(hc, hc')
  <2>1. PICK g : g = RemoveAt(hc.hooks[ch], id)
    OBVIOUS
  <2>2. id \in DOMAIN hc.hooks[ch]
    BY <1>3 DEF HC!Eject
  <2>3. id \in 1..Len(hc.hooks[ch])
    BY <1>1, <2>2, LenProperties
  <2>4. g \in Seq(Nat)
    BY <1>1, <2>1, <2>3, RemoveAtType
  <2>5. PICK S : S = [r \in Requests |-> [hc.req[r] EXCEPT !.disturbed =
                        hc.req[r].disturbed \/ (hc.req[r].pc = "before" /\ ch = "request")
                          \/ (hc.req[r].pc = "after" /\ ch = "response")]]
    OBVIOUS
  <2>6. ASSUME NEW r \in Requests
        PROVE  /\ S[r] \in HttpRequest /\ S[r].pc = hc.req[r].pc /\ S[r].got = hc.req[r].got
               /\ S[r].pos = hc.req[r].pos /\ S[r].ran = hc.req[r].ran /\ S[r].due = hc.req[r].due
               /\ S[r].disturbed = FALSE =>
                    /\ hc.req[r].disturbed = FALSE
                    /\ S[r].pc = "before" => ch # "request"
                    /\ S[r].pc = "after" => ch # "response"
    <3>1. PICK x \in HttpRequest : x = hc.req[r]
      BY <1>1, HttpParts
    <3>2. PICK b \in BOOLEAN : b = (x.disturbed \/ (x.pc = "before" /\ ch = "request")
                                      \/ (x.pc = "after" /\ ch = "response"))
      OBVIOUS
    <3>3. S[r] = [x EXCEPT !.disturbed = b]
      BY <2>5, <3>1, <3>2
    <3>4. x.disturbed \in BOOLEAN
      BY DEF HttpRequest
    <3>5. b = FALSE => /\ x.disturbed = FALSE /\ (x.pc = "before" => ch # "request")
                       /\ (x.pc = "after" => ch # "response")
      BY <3>2, <3>4, Zenon
    <3>6. /\ S[r] \in HttpRequest /\ S[r].pc = x.pc /\ S[r].got = x.got /\ S[r].pos = x.pos
          /\ S[r].ran = x.ran /\ S[r].due = x.due /\ S[r].disturbed = b
      BY <3>3 DEF HttpRequest
    <3> QED
      BY <3>1, <3>5, <3>6
  <2>7. S \in [Requests -> HttpRequest]
    BY <2>5, <2>6
  <2>8. hc' = [hc EXCEPT !.hooks[ch] = g, !.req = S]
    BY <1>3, <2>1, <2>5 DEF HC!Eject, RemoveAt
  <2>9. /\ HttpType(hc') /\ hc'.hooks = [hc.hooks EXCEPT ![ch] = g] /\ hc'.req = S
        /\ hc'.cache = hc.cache
    BY <1>1, <2>4, <2>7, <2>8 DEF HttpType
  <2>10. \A k \in HC!Chains : k # ch => hc'.hooks[k] = hc.hooks[k]
    BY <1>1, <2>9, HttpParts
  <2>11. ASSUME NEW q \in Requests PROVE OnCourse(hc'.req[q], hc'.hooks)
    <3> SUFFICES ASSUME S[q].disturbed = FALSE
                 PROVE  /\ S[q].pc = "before" => InPlace(S[q], hc'.hooks["request"])
                        /\ S[q].pc = "after" => InPlace(S[q], hc'.hooks["response"])
      BY <2>9 DEF OnCourse
    <3>1. /\ hc.req[q].disturbed = FALSE
          /\ S[q].pc = "before" => hc'.hooks["request"] = hc.hooks["request"]
          /\ S[q].pc = "after" => hc'.hooks["response"] = hc.hooks["response"]
      BY <2>6, <2>10 DEF HC!Chains
    <3>2. OnCourse(hc.req[q], hc.hooks)
      BY DEF HttpInv
    <3> QED
      BY <2>6, <3>1, <3>2 DEF OnCourse, InPlace
  <2>12. SameAnswers(hc.req, hc'.req)
    BY <2>6, <2>9 DEF SameAnswers
  <2> QED
    BY <2>9, <2>11, <2>12, OthersKeep
<1> QED
  BY <1>2, <1>3

\* The cached entry expires, the cache is cleared, or the server moves on.
LEMMA WorldSteps ==
  ASSUME HttpInv(hc), HC!Expire \/ HC!ClearCache \/ HC!ServerUpdate
  PROVE  HttpStep(hc, hc')
<1>1. HttpType(hc)
  BY DEF HttpInv
<1>2. /\ HttpType(hc') /\ hc'.hooks = hc.hooks /\ hc'.req = hc.req
      /\ (hc'.cache = hc.cache \/ hc'.cache = 0)
  <2>1. CASE HC!Expire
    BY <1>1, <2>1 DEF HttpType, HC!Expire
  <2>2. CASE HC!ClearCache
    BY <1>1, <2>2 DEF HttpType, HC!ClearCache
  <2>3. CASE HC!ServerUpdate
    <3>1. hc' = [hc EXCEPT !.version = hc.version + 1] /\ hc.version + 1 \in Nat
      BY <1>1, <2>3, HttpParts DEF HC!ServerUpdate
    <3> QED
      BY <1>1, <3>1 DEF HttpType
  <2> QED
    BY <2>1, <2>2, <2>3
<1>3. SameAnswers(hc.req, hc'.req) /\ \A q \in Requests : OnCourse(hc'.req[q], hc'.hooks)
  BY <1>2 DEF HttpInv, SameAnswers
<1> QED
  BY <1>2, <1>3, OthersKeep

\* The invariant of the client, and what its steps do.
LEMMA HttpInvariant ==
  /\ HC!Init => HttpInv(hc)
  /\ HttpInv(hc) /\ [HC!Next]_hc => HttpStep(hc, hc')
<1>1. ASSUME HC!Init PROVE HttpInv(hc)
  <2>1. PICK e \in Seq(Nat) : e = <<>>
    BY EmptySeq
  <2>2. PICK n : n = [pc |-> "new", pos |-> 1, ran |-> e, due |-> e, attempt |-> 0, got |-> 0,
                      disturbed |-> FALSE]
    OBVIOUS
  <2>3. n \in HttpRequest /\ n.pc = "new"
    BY <2>2 DEF HttpRequest
  <2>4. PICK H, R : H = [ch \in HC!Chains |-> e] /\ R = [r \in Requests |-> n]
    OBVIOUS
  <2>5. H \in [HC!Chains -> Seq(Nat)] /\ R \in [Requests -> HttpRequest]
    BY <2>3, <2>4
  <2>6. hc = [hooks |-> H, made |-> 0, version |-> 1, cache |-> 0, expired |-> FALSE, req |-> R]
    BY <1>1, <2>1, <2>2, <2>4 DEF HC!Init, HC!NoReq
  <2>7. HttpType(hc) /\ hc.cache = 0 /\ hc.req = R
    BY <2>5, <2>6 DEF HttpType
  <2>8. CacheKnown(hc.req, hc.cache) /\ \A r \in Requests : OnCourse(hc.req[r], hc.hooks)
    BY <2>3, <2>4, <2>7 DEF CacheKnown, OnCourse
  <2> QED
    BY <2>7, <2>8 DEF HttpInv
<1>2. ASSUME HttpInv(hc), [HC!Next]_hc PROVE HttpStep(hc, hc')
  <2>1. CASE UNCHANGED hc
    BY <1>2, <2>1 DEF HttpStep, Completes, ServesFresh
  <2>2. CASE HC!Next
    <3>1. ASSUME NEW ch \in HC!Chains, HC!UseHook(ch) \/ \E id \in 1..MaxHooks : HC!Eject(ch, id)
          PROVE  HttpStep(hc, hc')
      BY <1>2, <3>1, HookSteps
    <3>2. ASSUME NEW r \in Requests, HC!Request(r) \/ HC!Step(r) PROVE HttpStep(hc, hc')
      BY <1>2, <3>2, RequestSteps
    <3>3. CASE HC!Expire \/ HC!ClearCache \/ HC!ServerUpdate
      BY <1>2, <3>3, WorldSteps
    <3> QED
      BY <2>2, <3>1, <3>2, <3>3, Zenon DEF HC!Next
  <2> QED
    BY <1>2, <2>1, <2>2
<1> QED
  BY <1>1, <1>2

\* What the invariant of the client says of its cache.
LEMMA HttpInvGives == HttpInv(hc) => HC!CachedWasAnswered
BY DEF HttpInv, CacheKnown, WasAnswered, HC!CachedWasAnswered
=============================================================================
