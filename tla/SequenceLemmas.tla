--------------------------- MODULE SequenceLemmas ---------------------------
(***************************************************************************)
(* What the operators on sequences that the models use return, for the    *)
(* proofs about the modules: RemoveAt and RemoveFirst of the community     *)
(* modules are the code's splice(index, 1), with an index that is known    *)
(* and with the one indexOf() or findIndex() finds.                        *)
(***************************************************************************)
EXTENDS Integers, SequencesExt, SequenceTheorems, FiniteSetTheorems, TLAPS

\* What is in a sequence over a set is in that set.
LEMMA ToSetType ==
  ASSUME NEW S, NEW s \in Seq(S)
  PROVE  ToSet(s) \subseteq S /\ \A k \in 1..Len(s) : s[k] \in S /\ s[k] \in ToSet(s)
<1>1. DOMAIN s = 1..Len(s) /\ \A k \in 1..Len(s) : s[k] \in S
  OBVIOUS
<1> QED
  BY <1>1 DEF ToSet

\* Append adds one element to the set of them.
LEMMA AppendToSet ==
  ASSUME NEW S, NEW s \in Seq(S), NEW x \in S
  PROVE  ToSet(Append(s, x)) = ToSet(s) \union {x}
<1>1. /\ DOMAIN s = 1..Len(s) /\ Len(s) \in Nat
      /\ DOMAIN Append(s, x) = 1..Len(s) + 1
      /\ \A k \in 1..Len(s) + 1 : Append(s, x)[k] = IF k = Len(s) + 1 THEN x ELSE s[k]
  BY AppendProperties
<1> QED
  BY <1>1 DEF ToSet

-----------------------------------------------------------------------------
(* RemoveAt.                                                               *)

\* Removing one position leaves a sequence over the same set.
LEMMA RemoveAtType ==
  ASSUME NEW S, NEW s \in Seq(S), NEW k \in 1..Len(s)
  PROVE  RemoveAt(s, k) \in Seq(S)
<1>1. SubSeq(s, 1, k - 1) \in Seq(S)
  BY SubSeqProperties
<1>2. SubSeq(s, k + 1, Len(s)) \in Seq(S)
  BY SubSeqProperties
<1> QED
  BY <1>1, <1>2, ConcatProperties DEF RemoveAt

\* Removing position k keeps what is before it and shifts what is after it.
LEMMA RemoveAtElements ==
  ASSUME NEW S, NEW s \in Seq(S), NEW k \in 1..Len(s)
  PROVE  /\ Len(RemoveAt(s, k)) = Len(s) - 1
         /\ \A j \in 1..Len(s) - 1 : RemoveAt(s, k)[j] = IF j < k THEN s[j] ELSE s[j + 1]
<1> DEFINE a == SubSeq(s, 1, k - 1)
           b == SubSeq(s, k + 1, Len(s))
<1>1. /\ a \in Seq(S) /\ Len(a) = k - 1
      /\ \A j \in 1..k - 1 : a[j] = s[j]
  BY SubSeqProperties
<1>2. /\ b \in Seq(S) /\ Len(b) = Len(s) - k
      /\ \A j \in 1..Len(s) - k : b[j] = s[k + j]
  BY SubSeqProperties
<1>3. RemoveAt(s, k) = a \o b
  BY DEF RemoveAt
<1> HIDE DEF a, b
<1>4. /\ Len(a \o b) = Len(a) + Len(b)
      /\ \A j \in 1..Len(a) + Len(b) : (a \o b)[j] = IF j <= Len(a) THEN a[j] ELSE b[j - Len(a)]
  BY <1>1, <1>2, ConcatProperties
<1>5. Len(s) \in Nat
  OBVIOUS
<1>6. Len(a) + Len(b) = Len(s) - 1
  BY <1>1, <1>2, <1>5
<1>7. ASSUME NEW j \in 1..Len(s) - 1
      PROVE  (a \o b)[j] = IF j < k THEN s[j] ELSE s[j + 1]
  <2>1. (a \o b)[j] = IF j <= Len(a) THEN a[j] ELSE b[j - Len(a)]
    BY <1>4, <1>6
  <2>2. CASE j < k
    BY <1>1, <2>1, <2>2
  <2>3. CASE ~(j < k)
    <3>1. j - Len(a) \in 1..Len(s) - k /\ k + (j - Len(a)) = j + 1
      BY <1>1, <1>5, <2>3
    <3> QED
      BY <1>1, <1>2, <2>1, <2>3, <3>1
  <2> QED
    BY <2>2, <2>3
<1> QED
  BY <1>3, <1>4, <1>6, <1>7

-----------------------------------------------------------------------------
(* RemoveFirst.                                                            *)

\* A set of natural numbers that is not empty has a least element.
LEMMA LeastElement ==
  ASSUME NEW I \in SUBSET Nat, I # {}
  PROVE  Min(I) \in I /\ \A j \in I : Min(I) <= j
<1> DEFINE T == {0..x : x \in I}
<1>1. T \subseteq FiniteSubsetsOf(Nat) /\ T # {}
  <2>1. \A x \in I : 0..x \in SUBSET Nat /\ IsFiniteSet(0..x)
    BY FS_Interval
  <2> QED
    BY <2>1 DEF FiniteSubsetsOf
<1>2. IsWellFoundedOn(StrictSubsetOrdering(Nat), FiniteSubsetsOf(Nat))
  BY FS_StrictSubsetOrderingWellFounded
<1>3. PICK t \in T : \A u \in T : <<u, t>> \notin StrictSubsetOrdering(Nat)
  BY <1>1, <1>2, WFMin
<1>4. PICK x \in I : t = 0..x
  OBVIOUS
<1>5. \A y \in I : x <= y
  <2> SUFFICES ASSUME NEW y \in I, y < x PROVE FALSE
    OBVIOUS
  <2>1. /\ 0..y \in T /\ 0..y \subseteq 0..x /\ 0..x \subseteq Nat
        /\ x \in 0..x /\ x \notin 0..y
    OBVIOUS
  <2> QED
    BY <2>1, <1>3, <1>4 DEF StrictSubsetOrdering
<1> QED
  BY <1>5 DEF Min

\* RemoveFirst removes the first position that holds e, when there is one.
LEMMA RemoveFirstPosition ==
  ASSUME NEW S, NEW s \in Seq(S), NEW e, \E i \in 1..Len(s) : s[i] = e
  PROVE  \E k \in 1..Len(s) : /\ s[k] = e
                              /\ \A j \in 1..k - 1 : s[j] # e
                              /\ RemoveFirst(s, e) = RemoveAt(s, k)
<1> DEFINE I == {i \in 1..Len(s) : s[i] = e}
<1>1. I \in SUBSET Nat /\ I # {}
  OBVIOUS
<1>2. RemoveFirst(s, e) = RemoveAt(s, Min(I))
  BY DEF RemoveFirst, SelectInSeq
<1>3. Min(I) \in I /\ \A j \in I : Min(I) <= j
  BY <1>1, LeastElement
<1>4. PICK k : k = Min(I)
  OBVIOUS
<1>5. k \in 1..Len(s) /\ s[k] = e
  BY <1>3, <1>4
<1>6. \A j \in 1..k - 1 : s[j] # e
  BY <1>3, <1>4, <1>5
<1> QED
  BY <1>2, <1>4, <1>5, <1>6

\* RemoveFirst leaves a sequence over the same set, every other element stays in
\* it, and nothing else comes into it.
LEMMA RemoveFirstKeeps ==
  ASSUME NEW S, NEW s \in Seq(S), NEW e
  PROVE  /\ RemoveFirst(s, e) \in Seq(S)
         /\ ToSet(RemoveFirst(s, e)) \subseteq ToSet(s)
         /\ ToSet(s) \ {e} \subseteq ToSet(RemoveFirst(s, e))
<1>1. CASE ~\E i \in 1..Len(s) : s[i] = e
  BY <1>1 DEF RemoveFirst
<1>2. CASE \E i \in 1..Len(s) : s[i] = e
  <2>1. PICK k \in 1..Len(s) : s[k] = e /\ RemoveFirst(s, e) = RemoveAt(s, k)
    BY <1>2, RemoveFirstPosition
  <2> DEFINE r == RemoveAt(s, k)
  <2>2. /\ r \in Seq(S) /\ Len(r) = Len(s) - 1
        /\ \A j \in 1..Len(s) - 1 : r[j] = IF j < k THEN s[j] ELSE s[j + 1]
    BY RemoveAtType, RemoveAtElements
  <2> HIDE DEF r
  <2>3. DOMAIN r = 1..Len(s) - 1 /\ DOMAIN s = 1..Len(s) /\ Len(s) \in Nat
    BY <2>2
  <2>4. ToSet(r) \subseteq ToSet(s)
    <3> SUFFICES ASSUME NEW j \in 1..Len(s) - 1 PROVE r[j] \in ToSet(s)
      BY <2>3 DEF ToSet
    <3>1. r[j] = s[j] \/ r[j] = s[j + 1]
      BY <2>2
    <3> QED
      BY <2>3, <3>1 DEF ToSet
  <2>5. ToSet(s) \ {e} \subseteq ToSet(r)
    <3> SUFFICES ASSUME NEW j \in 1..Len(s), s[j] # e PROVE s[j] \in ToSet(r)
      BY <2>3 DEF ToSet
    <3>1. CASE j < k
      <4>1. j \in 1..Len(s) - 1 /\ r[j] = s[j]
        BY <2>2, <3>1
      <4> QED
        BY <2>3, <4>1 DEF ToSet
    <3>2. CASE j > k
      <4>1. j - 1 \in 1..Len(s) - 1 /\ r[j - 1] = s[j]
        BY <2>2, <3>2
      <4> QED
        BY <2>3, <4>1 DEF ToSet
    <3> QED
      BY <2>1, <3>1, <3>2
  <2> QED
    BY <2>1, <2>2, <2>4, <2>5 DEF r
<1> QED
  BY <1>1, <1>2

-----------------------------------------------------------------------------
(* How often an element is in a sequence.                                  *)

Places(s, e) == {k \in 1..Len(s) : s[k] = e}

\* An element is in finitely many places, and in none exactly when it is not in
\* the sequence.
LEMMA PlacesFinite ==
  ASSUME NEW S, NEW s \in Seq(S), NEW e
  PROVE  /\ IsFiniteSet(Places(s, e)) /\ Cardinality(Places(s, e)) \in Nat
         /\ Cardinality(Places(s, e)) = 0 <=> ~\E k \in 1..Len(s) : s[k] = e
<1>1. IsFiniteSet(1..Len(s)) /\ Places(s, e) \in SUBSET (1..Len(s))
  BY FS_Interval DEF Places
<1>2. IsFiniteSet(Places(s, e))
  BY <1>1, FS_Subset
<1>3. Cardinality(Places(s, e)) \in Nat
  BY <1>2, FS_CardinalityType
<1>4. Cardinality(Places(s, e)) = 0 <=> Places(s, e) = {}
  BY <1>2, FS_EmptySet
<1> QED
  BY <1>2, <1>3, <1>4 DEF Places

\* Append adds one place for the element it appends.
LEMMA AppendPlaces ==
  ASSUME NEW S, NEW s \in Seq(S), NEW x \in S, NEW e
  PROVE  Cardinality(Places(Append(s, x), e))
           = Cardinality(Places(s, e)) + (IF x = e THEN 1 ELSE 0)
<1>1. /\ Len(Append(s, x)) = Len(s) + 1
      /\ \A k \in 1..Len(s) + 1 : Append(s, x)[k] = IF k = Len(s) + 1 THEN x ELSE s[k]
  BY AppendProperties
<1>2. CASE x = e
  <2>1. Places(Append(s, x), e) = Places(s, e) \union {Len(s) + 1}
    BY <1>1, <1>2 DEF Places
  <2>2. Len(s) + 1 \notin Places(s, e)
    BY DEF Places
  <2> QED
    BY <1>2, <2>1, <2>2, PlacesFinite, FS_AddElement
<1>3. CASE x # e
  <2>1. Places(Append(s, x), e) = Places(s, e)
    BY <1>1, <1>3 DEF Places
  <2> QED
    BY <1>3, <2>1, PlacesFinite
<1> QED
  BY <1>2, <1>3

\* RemoveAt takes one place away from the element it removes.
LEMMA RemoveAtPlaces ==
  ASSUME NEW S, NEW s \in Seq(S), NEW k \in 1..Len(s), NEW e
  PROVE  Cardinality(Places(RemoveAt(s, k), e))
           = Cardinality(Places(s, e)) - (IF s[k] = e THEN 1 ELSE 0)
<1> DEFINE r == RemoveAt(s, k)
           A == Places(r, e)
           B == Places(s, e) \ {k}
           f == [j \in A |-> IF j < k THEN j ELSE j + 1]
<1>1. /\ r \in Seq(S) /\ Len(r) = Len(s) - 1 /\ Len(s) \in Nat
      /\ \A j \in 1..Len(s) - 1 : r[j] = IF j < k THEN s[j] ELSE s[j + 1]
  BY RemoveAtType, RemoveAtElements
<1> HIDE DEF r
<1>2. \A j \in A : j \in 1..Len(s) - 1 /\ r[j] = e
  BY <1>1 DEF Places
<1>3. f \in [A -> B]
  <2> SUFFICES ASSUME NEW j \in A PROVE (IF j < k THEN j ELSE j + 1) \in B
    OBVIOUS
  <2>1. j \in 1..Len(s) - 1 /\ r[j] = e
    BY <1>2
  <2> QED
    BY <1>1, <2>1 DEF Places
<1>4. \A i, j \in A : f[i] = f[j] => i = j
  BY <1>2
<1>5. \A b \in B : \E j \in A : f[j] = b
  <2> SUFFICES ASSUME NEW b \in B PROVE \E j \in A : f[j] = b
    OBVIOUS
  <2>1. b \in 1..Len(s) /\ s[b] = e /\ b # k
    BY DEF Places
  <2>2. CASE b < k
    <3>1. b \in A
      BY <1>1, <2>1, <2>2 DEF Places
    <3> QED
      BY <2>2, <3>1
  <2>3. CASE b > k
    <3>1. b - 1 \in A /\ ~(b - 1 < k)
      BY <1>1, <2>1, <2>3 DEF Places
    <3> QED
      BY <2>1, <3>1
  <2> QED
    BY <2>1, <2>2, <2>3
<1>6. f \in Bijection(A, B)
  BY <1>3, <1>4, <1>5 DEF Bijection, Injection, Surjection, IsInjective
<1>7. IsFiniteSet(A) /\ IsFiniteSet(B)
  BY <1>1, PlacesFinite, FS_RemoveElement
<1>8. Cardinality(A) = Cardinality(B)
  BY <1>6, <1>7, FS_Bijection DEF ExistsBijection
<1>9. Cardinality(B) = IF k \in Places(s, e) THEN Cardinality(Places(s, e)) - 1
                                            ELSE Cardinality(Places(s, e))
  BY PlacesFinite, FS_RemoveElement
<1>10. k \in Places(s, e) <=> s[k] = e
  BY DEF Places
<1> QED
  BY <1>8, <1>9, <1>10, PlacesFinite DEF r

\* RemoveFirst takes one place away from an element that has one.
LEMMA RemoveFirstPlaces ==
  ASSUME NEW S, NEW s \in Seq(S), NEW x, \E i \in 1..Len(s) : s[i] = x, NEW e
  PROVE  Cardinality(Places(RemoveFirst(s, x), e))
           = Cardinality(Places(s, e)) - (IF x = e THEN 1 ELSE 0)
BY RemoveFirstPosition, RemoveAtPlaces

-----------------------------------------------------------------------------
(* Sequences without repetition.                                           *)

\* A sequence over a set is one over any larger set.
LEMMA WiderSeq ==
  ASSUME NEW S, NEW T, S \subseteq T, NEW s \in Seq(S)
  PROVE  s \in Seq(T)
BY SeqMonotonic

\* A sequence is over any set that has all its elements.
LEMMA SeqOfElements ==
  ASSUME NEW S, NEW s \in Seq(S), NEW T, ToSet(s) \subseteq T
  PROVE  s \in Seq(T)
<1>1. Len(s) \in Nat /\ s = [k \in 1..Len(s) |-> s[k]] /\ DOMAIN s = 1..Len(s)
  BY LenProperties
<1>2. \A k \in 1..Len(s) : s[k] \in T
  BY <1>1 DEF ToSet
<1> QED
  BY <1>1, <1>2, IsASeq

\* An element that is new to a sequence may be appended to it.
LEMMA AppendInjectively ==
  ASSUME NEW S, NEW s \in Seq(S), NEW x \in S, IsInjective(s), x \notin ToSet(s)
  PROVE  IsInjective(Append(s, x))
<1>1. /\ DOMAIN s = 1..Len(s) /\ Len(s) \in Nat
      /\ DOMAIN Append(s, x) = 1..Len(s) + 1
      /\ \A k \in 1..Len(s) + 1 : Append(s, x)[k] = IF k = Len(s) + 1 THEN x ELSE s[k]
  BY AppendProperties
<1> SUFFICES ASSUME NEW i \in 1..Len(s) + 1, NEW j \in 1..Len(s) + 1,
                    Append(s, x)[i] = Append(s, x)[j]
             PROVE  i = j
  BY <1>1 DEF IsInjective
<1>2. \A k \in 1..Len(s) : s[k] # x
  BY <1>1 DEF ToSet
<1> QED
  BY <1>1, <1>2 DEF IsInjective

\* Of a sequence without repetition RemoveFirst takes the element itself.
LEMMA RemoveInjectively ==
  ASSUME NEW S, NEW s \in Seq(S), NEW e \in ToSet(s), IsInjective(s)
  PROVE  /\ RemoveFirst(s, e) \in Seq(S)
         /\ IsInjective(RemoveFirst(s, e))
         /\ ToSet(RemoveFirst(s, e)) = ToSet(s) \ {e}
         /\ Len(RemoveFirst(s, e)) = Len(s) - 1
<1>1. Len(s) \in Nat /\ DOMAIN s = 1..Len(s) /\ \E i \in 1..Len(s) : s[i] = e
  BY DEF ToSet
<1>2. PICK k \in 1..Len(s) : s[k] = e /\ RemoveFirst(s, e) = RemoveAt(s, k)
  BY <1>1, RemoveFirstPosition
<1> DEFINE r == RemoveAt(s, k)
<1>3. /\ r \in Seq(S) /\ Len(r) = Len(s) - 1
      /\ \A j \in 1..Len(s) - 1 : r[j] = IF j < k THEN s[j] ELSE s[j + 1]
  BY RemoveAtType, RemoveAtElements
<1> HIDE DEF r
<1>4. DOMAIN r = 1..Len(s) - 1
  BY <1>3
<1>5. IsInjective(r)
  <2> SUFFICES ASSUME NEW i \in 1..Len(s) - 1, NEW j \in 1..Len(s) - 1, r[i] = r[j]
               PROVE  i = j
    BY <1>4 DEF IsInjective
  <2> DEFINE at(n) == IF n < k THEN n ELSE n + 1
  <2>1. /\ at(i) \in 1..Len(s) /\ at(j) \in 1..Len(s)
        /\ s[at(i)] = r[i] /\ s[at(j)] = r[j]
    BY <1>1, <1>3
  <2>2. at(i) = at(j)
    BY <1>1, <2>1 DEF IsInjective
  <2> QED
    BY <2>2
<1>6. e \notin ToSet(r)
  <2> SUFFICES ASSUME NEW j \in 1..Len(s) - 1, r[j] = e PROVE FALSE
    BY <1>4 DEF ToSet
  <2>1. PICK i \in 1..Len(s) : s[i] = e /\ i # k
    BY <1>1, <1>3
  <2> QED
    BY <1>1, <1>2, <2>1 DEF IsInjective
<1>7. ToSet(r) \subseteq ToSet(s) /\ ToSet(s) \ {e} \subseteq ToSet(r)
  BY <1>2, RemoveFirstKeeps DEF r
<1> QED
  BY <1>2, <1>3, <1>5, <1>6, <1>7 DEF r

\* Of a sequence without repetition RemoveFirst of the last element leaves what is
\* before it.
LEMMA RemoveLast ==
  ASSUME NEW S, NEW s \in Seq(S), IsInjective(s), s # <<>>
  PROVE  /\ Len(RemoveFirst(s, s[Len(s)])) = Len(s) - 1
         /\ \A j \in 1..Len(s) - 1 : RemoveFirst(s, s[Len(s)])[j] = s[j]
<1>1. Len(s) \in Nat \ {0} /\ DOMAIN s = 1..Len(s) /\ Len(s) \in 1..Len(s)
  BY EmptySeq, LenProperties
<1> DEFINE e == s[Len(s)]
<1>2. \E i \in 1..Len(s) : s[i] = e
  BY <1>1
<1> HIDE DEF e
<1>3. PICK k \in 1..Len(s) : s[k] = e /\ RemoveFirst(s, e) = RemoveAt(s, k)
  BY <1>2, RemoveFirstPosition
<1>4. k = Len(s)
  BY <1>1, <1>3 DEF IsInjective, e
<1>5. /\ Len(RemoveAt(s, k)) = Len(s) - 1
      /\ \A j \in 1..Len(s) - 1 : RemoveAt(s, k)[j] = IF j < k THEN s[j] ELSE s[j + 1]
  BY RemoveAtElements
<1> QED
  BY <1>1, <1>3, <1>4, <1>5 DEF e

\* The first element is the first one that is equal to it.
LEMMA TailIsRemoveFirst ==
  ASSUME NEW S, NEW s \in Seq(S), s # <<>>
  PROVE  Tail(s) = RemoveFirst(s, Head(s)) /\ Head(s) \in ToSet(s) /\ Tail(s) \in Seq(S)
<1>1. /\ Len(s) \in Nat \ {0} /\ DOMAIN s = 1..Len(s) /\ Head(s) = s[1]
      /\ Tail(s) \in Seq(S) /\ Len(Tail(s)) = Len(s) - 1
      /\ \A j \in 1..Len(s) - 1 : Tail(s)[j] = s[j + 1]
  BY HeadTailProperties, EmptySeq, LenProperties
<1>2. 1 \in 1..Len(s) /\ Head(s) \in ToSet(s)
  BY <1>1 DEF ToSet
<1>3. PICK k \in 1..Len(s) : /\ s[k] = Head(s)
                             /\ \A j \in 1..k - 1 : s[j] # Head(s)
                             /\ RemoveFirst(s, Head(s)) = RemoveAt(s, k)
  BY <1>1, <1>2, RemoveFirstPosition
<1>4. k = 1
  BY <1>1, <1>3
<1> DEFINE r == RemoveAt(s, 1)
<1>5. /\ r \in Seq(S) /\ Len(r) = Len(s) - 1
      /\ \A j \in 1..Len(s) - 1 : r[j] = IF j < 1 THEN s[j] ELSE s[j + 1]
  BY <1>2, RemoveAtType, RemoveAtElements
<1> HIDE DEF r
<1>6. \A j \in 1..Len(s) - 1 : r[j] = Tail(s)[j]
  BY <1>1, <1>5
<1>7. r = Tail(s)
  BY <1>1, <1>5, <1>6, SeqEqual
<1> QED
  BY <1>1, <1>2, <1>3, <1>4, <1>7 DEF r

\* A sequence written element by element.
LEMMA TabulatedType ==
  ASSUME NEW S, NEW n \in Nat, NEW s \in [1..n -> S]
  PROVE  s \in Seq(S) /\ Len(s) = n
OBVIOUS

\* A sequence is its front followed by its last element.
LEMMA FrontLastType ==
  ASSUME NEW S, NEW s \in Seq(S), s # <<>>
  PROVE  /\ Last(s) \in S /\ Front(s) \in Seq(S)
         /\ Len(s) \in Nat \ {0} /\ Len(Front(s)) = Len(s) - 1
         /\ Last(s) = s[Len(s)] /\ \A k \in 1..Len(s) - 1 : Front(s)[k] = s[k]
<1>1. Len(s) \in Nat \ {0}
  BY EmptySeq
<1>2. Last(s) = s[Len(s)]
  BY DEF Last
<1>3. Front(s) = SubSeq(s, 1, Len(s) - 1)
  BY DEF Front
<1>4. \A k \in 1..Len(s) - 1 : k \in 1..Len(s) /\ s[k] \in S
  BY <1>1
<1>5. /\ Front(s) \in Seq(S) /\ Len(Front(s)) = Len(s) - 1
      /\ \A k \in 1..Len(s) - 1 : Front(s)[k] = s[k]
  <2> DEFINE m == Len(s) - 1
  <2>1. m \in Nat /\ m - 1 + 1 = m /\ \A k \in 1..m : 1 + k - 1 = k
    BY <1>1
  <2>2. Front(s) = SubSeq(s, 1, m) /\ \A k \in 1..m : s[k] \in S
    BY <1>3, <1>4
  <2> HIDE DEF m
  <2>3. /\ SubSeq(s, 1, m) \in Seq(S)
        /\ Len(SubSeq(s, 1, m)) = m
        /\ \A k \in 1..m : SubSeq(s, 1, m)[k] = s[k]
    BY <2>1, <2>2, SubSeqProperties
  <2>4. /\ Front(s) \in Seq(S) /\ Len(Front(s)) = m
        /\ \A k \in 1..m : Front(s)[k] = s[k]
    BY <2>2, <2>3
  <2> QED
    BY <2>4 DEF m
<1> QED
  BY <1>1, <1>2, <1>5
=============================================================================
