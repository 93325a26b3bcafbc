-------------------------- MODULE SyncStoreProofs --------------------------
(***************************************************************************)
(* Proofs about the operators of SyncStore, for arrays of any width: the   *)
(* powers of two its slots are spaced by, the bound that overflows, and    *)
(* what HandleSync and TranslateDownstream do to an array that satisfies   *)
(* the invariants of DESIGN.md.                                            *)
(***************************************************************************)
EXTENDS SyncStore, FiniteSetTheorems, FunctionTheorems, WellFoundedInduction, TLAPS

(***************************************************************************)
(* Natural numbers.                                                        *)
(***************************************************************************)

\* A non-empty set of natural numbers has a least element.
LEMMA LeastNatural ==
    ASSUME NEW T, T \subseteq Nat, T # {}
    PROVE  \E x \in T : \A y \in T : x <= y
<1> DEFINE R == OpToRel(<, Nat)
<1>1. IsWellFoundedOn(R, Nat)
  BY NatLessThanWellFounded
<1>2. \A x, y \in Nat : y < x => <<y, x>> \in R
  BY DEF OpToRel
<1> HIDE DEF R
<1>3. PICK x \in T : \A y \in T : ~(<<y, x>> \in R)
  BY <1>1, WFMin
<1>4. \A y \in T : x <= y
  <2> TAKE y \in T
  <2>1. x \in Nat /\ y \in Nat /\ ~(<<y, x>> \in R)
    BY <1>3
  <2>2. ~(y < x)
    BY <1>2, <2>1
  <2> QED
    BY <2>1, <2>2
<1> QED
  BY <1>4

\* A power of two is the number of subsets of an interval; one more element
\* doubles it.
LEMMA PowerDoubles ==
    ASSUME NEW n \in Nat
    PROVE  2^(n + 1) = 2^n + 2^n /\ 2^n \in Nat
<1> DEFINE A == SUBSET (1 .. n)
           B == {U \cup {n + 1} : U \in A}
           f == [U \in A |-> U \cup {n + 1}]
<1>1. IsFiniteSet(1 .. n) /\ Cardinality(1 .. n) = n
  BY FS_Interval
<1>2. IsFiniteSet(1 .. n + 1) /\ Cardinality(1 .. n + 1) = n + 1
  BY FS_Interval
<1>3. IsFiniteSet(A) /\ Cardinality(A) = 2^n
  BY <1>1, FS_SUBSET
<1>4. Cardinality(SUBSET (1 .. n + 1)) = 2^(n + 1)
  BY <1>2, FS_SUBSET
<1>5. \A U \in A : n + 1 \notin U
  OBVIOUS
<1>6. f \in Bijection(A, B)
  <2>1. f \in Surjection(A, B)
    BY DEF Surjection
  <2>2. f \in Injection(A, B)
    <3>1. \A U, V \in A : f[U] = f[V] => U = V
      <4> TAKE U, V \in A
      <4> HAVE f[U] = f[V]
      <4>1. \A x \in 1 .. n : x \in U <=> x \in V
        BY <1>5
      <4> QED
        BY <4>1
    <3>2. f \in [A -> B] /\ DOMAIN f = A
      OBVIOUS
    <3> HIDE DEF f, A, B
    <3> QED
      BY <3>1, <3>2 DEF Injection, IsInjective
  <2> QED
    BY <2>1, <2>2 DEF Bijection
<1>7. IsFiniteSet(B) /\ Cardinality(B) = Cardinality(A)
  BY <1>3, <1>6, FS_Bijection DEF ExistsBijection
<1>8. A \cap B = {}
  BY <1>5
<1>9. SUBSET (1 .. n + 1) = A \cup B
  <2>1. ASSUME NEW U \in SUBSET (1 .. n + 1) PROVE U \in A \cup B
    <3>1. CASE n + 1 \in U
      <4>1. U \ {n + 1} \in A
        OBVIOUS
      <4>2. U = (U \ {n + 1}) \cup {n + 1}
        BY <3>1
      <4> QED
        BY <4>1, <4>2
    <3>2. CASE n + 1 \notin U
      <4>1. \A x \in U : x \in 1 .. n
        BY <3>2
      <4> QED
        BY <4>1
    <3> QED
      BY <3>1, <3>2
  <2>2. ASSUME NEW U \in A \cup B PROVE U \in SUBSET (1 .. n + 1)
    <3>1. \A V \in A : V \subseteq 1 .. n + 1
      OBVIOUS
    <3> QED
      BY <3>1, <2>2
  <2> QED
    BY <2>1, <2>2
<1> HIDE DEF A, B, f
<1>10. Cardinality(A \cup B) = Cardinality(A) + Cardinality(B) - Cardinality({})
  <2>1. Cardinality(A \cup B) = Cardinality(A) + Cardinality(B) - Cardinality(A \cap B)
    BY <1>3, <1>7, FS_Union
  <2> QED
    BY <1>8, <2>1
<1>11. Cardinality(A) \in Nat /\ Cardinality({}) = 0
  BY <1>3, FS_CardinalityType, FS_EmptySet
<1>12. Cardinality(A \cup B) = Cardinality(A) + Cardinality(A)
  BY <1>7, <1>10, <1>11
<1>13. 2^(n + 1) = Cardinality(A) + Cardinality(A)
  BY <1>4, <1>9, <1>12, Zenon
<1> QED
  BY <1>3, <1>11, <1>13, Zenon

\* Powers of two are positive.
LEMMA PowerPositive ==
    ASSUME NEW n \in Nat
    PROVE  2^n \in Nat /\ 2^n >= 1
<1> DEFINE T == {m \in Nat : ~(2^m >= 1)}
<1>1. T = {}
  <2> SUFFICES ASSUME T # {} PROVE FALSE
    OBVIOUS
  <2>1. PICK m \in T : \A k \in T : m <= k
    BY LeastNatural
  <2>2. m \in Nat /\ ~(2^m >= 1)
    OBVIOUS
  <2>3. m \in Nat /\ m # 0
    <3>1. 2^0 = 1
      OBVIOUS
    <3>2. m = 0 => 2^m = 1
      BY <3>1, Zenon
    <3> QED
      BY <2>2, <3>2
  <2>4. m - 1 \in Nat /\ m - 1 \notin T
    BY <2>1, <2>3
  <2>5. 2^(m - 1) >= 1
    BY <2>4
  <2>6. 2^((m - 1) + 1) = 2^(m - 1) + 2^(m - 1) /\ 2^(m - 1) \in Nat
    BY <2>4, PowerDoubles
  <2>7. (m - 1) + 1 = m
    BY <2>3
  <2> QED
    BY <2>5, <2>6, <2>7
<1> QED
  BY <1>1, PowerDoubles

\* A larger power of two is at least twice a smaller one.
LEMMA PowerGrows ==
    ASSUME NEW i \in Nat, NEW j \in Nat, i < j
    PROVE  2^i + 2^i <= 2^j
<1> DEFINE T == {m \in Nat : i < m /\ ~(2^i + 2^i <= 2^m)}
<1>1. T = {}
  <2> SUFFICES ASSUME T # {} PROVE FALSE
    OBVIOUS
  <2>1. PICK m \in T : \A k \in T : m <= k
    BY LeastNatural
  <2>2. m \in Nat /\ i < m
    OBVIOUS
  <2>3. m - 1 \in Nat /\ (m - 1) + 1 = m
    BY <2>2
  <2>4. 2^m = 2^(m - 1) + 2^(m - 1)
    BY <2>3, PowerDoubles
  <2>5. 2^i \in Nat /\ 2^(m - 1) \in Nat
    BY <2>3, PowerPositive
  <2>6. CASE m - 1 = i
    BY <2>4, <2>5, <2>6
  <2>7. CASE m - 1 # i
    <3>1. i < m - 1 /\ m - 1 \notin T
      BY <2>1, <2>2, <2>3, <2>7
    <3>2. 2^i + 2^i <= 2^(m - 1)
      BY <2>3, <3>1
    <3> QED
      BY <2>4, <2>5, <3>2
  <2> QED
    BY <2>6, <2>7
<1> QED
  BY <1>1

(***************************************************************************)
(* The bound of a slot.                                                    *)
(***************************************************************************)

\* Offsets are the non-negative numbers of Width bits.
LEMMA WrapFacts ==
    ASSUME NEW x \in Nat, x < 2^Width
    PROVE  Wrap(x) = IF x < 2^(Width - 1) THEN x ELSE x - 2^Width
<1> DEFINE h == 2^(Width - 1)
           m == 2^Width
<1>1. Width - 1 \in Nat /\ (Width - 1) + 1 = Width
  BY WidthAssumption
<1>2. h \in Nat /\ h >= 1 /\ m = h + h
  BY <1>1, PowerDoubles, PowerPositive
<1>3. Wrap(x) = ((x + h) % m) - h
  BY DEF Wrap
<1> HIDE DEF h, m
<1>4. CASE x < h
  <2>1. (x + h) % m = x + h
    BY <1>2, <1>4
  <2> QED
    BY <1>2, <1>3, <1>4, <2>1 DEF h
<1>5. CASE ~(x < h)
  <2>1. (x + h) % m = x + h - m
    BY <1>2, <1>5 DEF m
  <2> QED
    BY <1>2, <1>3, <1>5, <2>1 DEF h, m
<1> QED
  BY <1>4, <1>5

\* Offsets the arithmetic of the store can represent, and arrays of such syncs.
Representable == 0 .. 2^(Width - 1) - 1
IsArray(a) == /\ DOMAIN a = Slots
              /\ \A i \in Slots : a[i].up \in Representable

\* Slot i keeps its sync exactly when its bound does not overflow and the new sync
\* is within it: the wrapped comparison of the code decides the true one.
LEMMA KeepsFacts ==
    ASSUME NEW a, IsArray(a), NEW i \in 1 .. Width - 1, NEW up \in Representable
    PROVE  Keeps(a, i, up) <=> /\ a[i].up + 2^(i - 1) < 2^(Width - 1)
                               /\ up <= a[i].up + 2^(i - 1)
<1> DEFINE u == a[i].up
           q == 2^(i - 1)
           h == 2^(Width - 1)
           x == u + 2^i - 2^(i - 1)
<1>1. i - 1 \in Nat /\ (i - 1) + 1 = i /\ i - 1 < Width - 1 /\ Width - 1 \in Nat
      /\ (Width - 1) + 1 = Width /\ i \in Slots
  BY WidthAssumption DEF Slots
<1>2. q \in Nat /\ q >= 1 /\ 2^i = q + q
  BY <1>1, PowerDoubles, PowerPositive
<1>3. h \in Nat /\ q + q <= h /\ 2^Width = h + h
  BY <1>1, PowerDoubles, PowerPositive, PowerGrows
<1>4. u \in Nat /\ u < h /\ up \in Nat /\ up < h
  BY <1>1, <1>3 DEF IsArray, Representable
<1>5. x = u + q
  BY <1>2, <1>4
<1>6. x \in Nat /\ x < 2^Width
  BY <1>2, <1>3, <1>4, <1>5
<1>7. Wrap(x) = IF x < h THEN x ELSE x - 2^Width
  BY <1>6, WrapFacts
<1>8. Keeps(a, i, up) <=> Wrap(x) >= 0 /\ up <= Wrap(x)
  BY DEF Keeps
<1> HIDE DEF u, q, h, x
<1>9. CASE x < h
  BY <1>2, <1>3, <1>4, <1>5, <1>6, <1>7, <1>8, <1>9 DEF u, q, h
<1>10. CASE ~(x < h)
  <2>1. Wrap(x) \in Int /\ Wrap(x) < 0
    BY <1>2, <1>3, <1>4, <1>5, <1>6, <1>7, <1>10
  <2>2. ~Keeps(a, i, up)
    BY <1>8, <2>1
  <2>3. ~(u + q < h)
    BY <1>5, <1>10
  <2> QED
    BY <2>2, <2>3 DEF u, q, h
<1> QED
  BY <1>9, <1>10

(***************************************************************************)
(* HandleSync.                                                             *)
(***************************************************************************)

\* Invariants B and C of DESIGN.md for one array.
ArrayB(a) ==
    \A j \in Slots : \A i \in 0 .. j - 1 : a[i].up <= a[j].up + 2^j - 2^i
ArrayC(a) ==
    \A j \in Slots : \A i \in 0 .. j - 1 :
        a[i].up = a[j].up \/ a[i].up >= a[j].up + (IF i < 2 THEN 1 ELSE 2^(i - 2))

\* Slots are natural numbers with powers that grow.
LEMMA SlotFacts ==
    ASSUME NEW j \in Slots, NEW i \in 0 .. j - 1
    PROVE  /\ i \in Nat /\ j \in Nat /\ i < j /\ i \in Slots
           /\ 2^i \in Nat /\ 2^j \in Nat /\ 2^i >= 1 /\ 2^i + 2^i <= 2^j
<1>1. i \in Nat /\ j \in Nat /\ i < j /\ i \in Slots
  BY WidthAssumption DEF Slots
<1> QED
  BY <1>1, PowerPositive, PowerGrows

\* An array filled with one sync satisfies B and C.
LEMMA FillFacts ==
    ASSUME NEW sync, sync.up \in Representable
    PROVE  IsArray(Fill(sync)) /\ ArrayB(Fill(sync)) /\ ArrayC(Fill(sync))
<1>1. \A i \in Slots : Fill(sync)[i] = sync
  BY DEF Fill
<1>2. IsArray(Fill(sync))
  BY <1>1 DEF Fill, IsArray
<1>3. ASSUME NEW j \in Slots, NEW i \in 0 .. j - 1
      PROVE  /\ Fill(sync)[i].up = Fill(sync)[j].up
             /\ Fill(sync)[i].up <= Fill(sync)[j].up + 2^j - 2^i
  <2>1. i \in Slots /\ 2^i \in Nat /\ 2^j \in Nat /\ 2^i + 2^i <= 2^j
    BY SlotFacts
  <2>2. Fill(sync)[i] = sync /\ Fill(sync)[j] = sync /\ sync.up \in Int
    BY <1>1, <2>1 DEF Representable
  <2> QED
    BY <2>1, <2>2
<1> QED
  BY <1>2, <1>3 DEF ArrayB, ArrayC

\* Where a propagated array differs from the old one: below a slot that keeps its
\* sync, all of 1 .. i failed to.
LEMMA PropagateFacts ==
    ASSUME NEW a, IsArray(a), NEW sync, sync.up \in Representable
    PROVE  /\ IsArray(Propagate(a, sync))
           /\ \A i \in Slots :
                \/ /\ Propagate(a, sync)[i] = sync
                   /\ \A m \in 1 .. i : ~Keeps(a, m, sync.up)
                \/ /\ Propagate(a, sync)[i] = a[i]
                   /\ \E m \in 1 .. i : Keeps(a, m, sync.up)
<1>1. \A i \in Slots :
        Propagate(a, sync)[i] = IF \A m \in 1 .. i : ~Keeps(a, m, sync.up)
                                THEN sync ELSE a[i]
  BY DEF Propagate
<1>2. DOMAIN Propagate(a, sync) = Slots
  BY DEF Propagate
<1> QED
  BY <1>1, <1>2 DEF IsArray

\* Invariant B survives a propagated sync: the slot m that stops the propagation is
\* within 2^(m-1) of the new sync, and keeps its own distance to the slots above.
LEMMA PropagateKeepsB ==
    ASSUME NEW a, IsArray(a), ArrayB(a), NEW sync, sync.up \in Representable
    PROVE  ArrayB(Propagate(a, sync))
<1> DEFINE b == Propagate(a, sync)
<1>0. IsArray(b)
  BY PropagateFacts
<1>1. SUFFICES ASSUME NEW j \in Slots, NEW i \in 0 .. j - 1
               PROVE  b[i].up <= b[j].up + 2^j - 2^i
  BY DEF ArrayB
<1>2. /\ i \in Nat /\ j \in Nat /\ i < j /\ i \in Slots
      /\ 2^i \in Nat /\ 2^j \in Nat /\ 2^i >= 1 /\ 2^i + 2^i <= 2^j
  BY SlotFacts
<1>3. /\ b[i].up \in Int /\ b[j].up \in Int /\ a[i].up \in Int /\ a[j].up \in Int
      /\ sync.up \in Int
  BY <1>0, <1>2 DEF IsArray, Representable
<1>4. \/ b[i] = sync /\ \A m \in 1 .. i : ~Keeps(a, m, sync.up)
      \/ b[i] = a[i] /\ \E m \in 1 .. i : Keeps(a, m, sync.up)
  BY <1>2, PropagateFacts
<1>5. \/ b[j] = sync /\ \A m \in 1 .. j : ~Keeps(a, m, sync.up)
      \/ b[j] = a[j] /\ \E m \in 1 .. j : Keeps(a, m, sync.up)
  BY PropagateFacts
<1> HIDE DEF b
<1>6. CASE b[j] = sync /\ \A m \in 1 .. j : ~Keeps(a, m, sync.up)
  <2>1. \A m \in 1 .. i : m \in 1 .. j
    BY <1>2
  <2>2. b[i] = sync
    BY <1>4, <1>6, <2>1
  <2> QED
    BY <1>2, <1>3, <1>6, <2>2
<1>7. CASE b[i] = a[i] /\ b[j] = a[j]
  BY <1>7 DEF ArrayB
<1>8. CASE /\ b[i] = sync /\ b[j] = a[j]
           /\ \A m \in 1 .. i : ~Keeps(a, m, sync.up)
           /\ \E m \in 1 .. j : Keeps(a, m, sync.up)
  <2>1. PICK m \in 1 .. j : Keeps(a, m, sync.up)
    BY <1>8
  <2>2. m \in Nat /\ i < m /\ m - 1 \in Nat /\ m \in 1 .. Width - 1 /\ m \in Slots
    BY <1>2, <1>8, <2>1, WidthAssumption DEF Slots
  <2>3. sync.up <= a[m].up + 2^(m - 1) /\ a[m].up \in Int
    BY <2>1, <2>2, KeepsFacts DEF IsArray, Representable
  <2>4. 2^(m - 1) \in Nat /\ 2^m = 2^(m - 1) + 2^(m - 1)
    <3>1. (m - 1) + 1 = m
      BY <2>2
    <3> QED
      BY <2>2, <3>1, PowerDoubles
  <2>5. 2^i <= 2^(m - 1)
    <3>1. CASE i = m - 1
      BY <1>2, <3>1
    <3>2. CASE i # m - 1
      BY <1>2, <2>2, <2>4, <3>2, PowerGrows
    <3> QED
      BY <3>1, <3>2
  <2>6. a[m].up + 2^m <= a[j].up + 2^j
    <3>1. CASE m = j
      BY <1>2, <1>3, <3>1
    <3>2. CASE m # j
      <4>1. m \in 0 .. j - 1
        BY <1>2, <2>2, <3>2
      <4>2. a[m].up <= a[j].up + 2^j - 2^m
        BY <4>1 DEF ArrayB
      <4> QED
        BY <1>2, <1>3, <2>3, <2>4, <4>2
    <3> QED
      BY <3>1, <3>2
  <2> QED
    BY <1>2, <1>3, <1>8, <2>3, <2>4, <2>5, <2>6
<1> QED
  BY <1>4, <1>5, <1>6, <1>7, <1>8

\* Slots that satisfy C are in descending order of their source offsets.
LEMMA Descending ==
    ASSUME NEW a, IsArray(a), ArrayC(a), NEW j \in Slots, NEW i \in 0 .. j
    PROVE  i \in Slots /\ a[i].up \in Nat /\ a[j].up \in Nat /\ a[j].up <= a[i].up
<1>1. i \in Slots /\ i \in Nat /\ j \in Nat
  BY WidthAssumption DEF Slots
<1>2. a[i].up \in Nat /\ a[j].up \in Nat
  BY <1>1 DEF IsArray, Representable
<1>3. CASE i = j
  BY <1>1, <1>2, <1>3
<1>4. CASE i # j
  <2>1. i \in 0 .. j - 1
    BY <1>1, <1>4
  <2>2. a[i].up = a[j].up \/ a[i].up >= a[j].up + (IF i < 2 THEN 1 ELSE 2^(i - 2))
    BY <2>1 DEF ArrayC
  <2>3. CASE i < 2
    BY <1>1, <1>2, <2>2, <2>3
  <2>4. CASE ~(i < 2)
    <3>1. i - 2 \in Nat
      BY <1>1, <2>4
    <3>2. 2^(i - 2) \in Nat
      BY <3>1, PowerPositive
    <3> QED
      BY <1>1, <1>2, <2>2, <2>4, <3>2
  <2> QED
    BY <2>3, <2>4
<1> QED
  BY <1>3, <1>4

\* Invariant C survives a propagated sync that is not older than slot 0: a slot
\* that takes it was farther than its bound below it, or had a bound beyond the
\* largest offset, which the slot that stops the propagation had not.
LEMMA PropagateKeepsC ==
    ASSUME NEW a, IsArray(a), ArrayC(a), NEW sync, sync.up \in Representable,
           a[0].up <= sync.up
    PROVE  ArrayC(Propagate(a, sync))
<1> DEFINE b == Propagate(a, sync)
           gap(i) == IF i < 2 THEN 1 ELSE 2^(i - 2)
<1>1. SUFFICES ASSUME NEW j \in Slots, NEW i \in 0 .. j - 1
               PROVE  b[i].up = b[j].up \/ b[i].up >= b[j].up + gap(i)
  BY DEF ArrayC
<1>2. i \in Nat /\ j \in Nat /\ i < j /\ i \in Slots /\ j \in 1 .. Width - 1 /\ 0 \in Slots
  BY WidthAssumption DEF Slots
<1>3. \/ b[i] = sync /\ \A m \in 1 .. i : ~Keeps(a, m, sync.up)
      \/ b[i] = a[i] /\ \E m \in 1 .. i : Keeps(a, m, sync.up)
  BY <1>2, PropagateFacts
<1>4. \/ b[j] = sync /\ \A m \in 1 .. j : ~Keeps(a, m, sync.up)
      \/ b[j] = a[j] /\ \E m \in 1 .. j : Keeps(a, m, sync.up)
  BY PropagateFacts
<1> HIDE DEF b
<1>5. CASE b[j] = sync /\ \A m \in 1 .. j : ~Keeps(a, m, sync.up)
  <2>1. \A m \in 1 .. i : m \in 1 .. j
    BY <1>2
  <2> QED
    BY <1>3, <1>5, <2>1
<1>6. CASE b[i] = a[i] /\ b[j] = a[j]
  BY <1>6 DEF ArrayC
<1>7. CASE /\ b[i] = sync /\ b[j] = a[j]
           /\ \A m \in 1 .. i : ~Keeps(a, m, sync.up)
           /\ \E m \in 1 .. j : Keeps(a, m, sync.up)
  <2>1. PICK m \in 1 .. j : Keeps(a, m, sync.up)
    BY <1>7
  <2>2. m \in Nat /\ i < m /\ m - 1 \in Nat /\ m \in 1 .. Width - 1 /\ m \in Slots
        /\ m \in 0 .. j
    BY <1>2, <1>7, <2>1, WidthAssumption DEF Slots
  <2>3. a[j].up \in Nat /\ a[m].up \in Nat /\ a[j].up <= a[m].up
    BY <2>2, Descending
  <2>4. a[i].up \in Nat /\ a[0].up \in Nat /\ a[i].up <= a[0].up /\ a[m].up <= a[i].up
    <3>1. 0 \in 0 .. i /\ i \in 0 .. m
      BY <1>2, <2>2
    <3> QED
      BY <1>2, <2>2, <3>1, Descending
  <2>5. sync.up \in Nat /\ sync.up >= a[i].up
    BY <2>4 DEF Representable
  <2>6. CASE i = 0
    BY <1>7, <2>3, <2>4, <2>5, <2>6
  <2>7. CASE i # 0
    <3>1. i \in 1 .. Width - 1 /\ i - 1 \in Nat /\ i - 1 < m - 1 /\ Width - 1 \in Nat
      BY <1>2, <2>2, <2>7, WidthAssumption
    <3>2. 2^(i - 1) \in Nat /\ 2^(i - 1) >= 1 /\ 2^(m - 1) \in Nat
          /\ 2^(i - 1) + 2^(i - 1) <= 2^(m - 1) /\ 2^(Width - 1) \in Nat
      BY <2>2, <3>1, PowerPositive, PowerGrows
    <3>3. gap(i) \in Nat /\ gap(i) <= 2^(i - 1)
      <4>1. CASE i < 2
        BY <3>2, <4>1
      <4>2. CASE ~(i < 2)
        <5>1. i - 2 \in Nat /\ (i - 2) + 1 = i - 1
          BY <1>2, <4>2
        <5>2. 2^(i - 1) = 2^(i - 2) + 2^(i - 2) /\ 2^(i - 2) \in Nat
          BY <5>1, PowerDoubles
        <5> QED
          BY <4>2, <5>2
      <4> QED
        BY <4>1, <4>2
    <3>4. a[m].up + 2^(m - 1) < 2^(Width - 1)
      BY <2>1, <2>2, KeepsFacts
    <3>5. \/ ~(a[i].up + 2^(i - 1) < 2^(Width - 1))
          \/ ~(sync.up <= a[i].up + 2^(i - 1))
      <4>1. i \in 1 .. i
        BY <3>1
      <4>2. ~Keeps(a, i, sync.up)
        BY <1>7, <4>1
      <4> QED
        BY <3>1, <4>2, KeepsFacts
    <3>6. sync.up >= a[j].up + 2^(i - 1)
      BY <2>3, <2>4, <2>5, <3>2, <3>4, <3>5
    <3> HIDE DEF gap
    <3> QED
      BY <1>7, <2>3, <2>5, <3>2, <3>3, <3>6
  <2> QED
    BY <2>6, <2>7
<1> QED
  BY <1>3, <1>4, <1>5, <1>6, <1>7

\* HandleSync takes arrays that satisfy B and C to arrays that do, whether the sync
\* is the first, a rewind, one of the initial read or one to be propagated.
LEMMA HandleSyncFacts ==
    ASSUME NEW a, a = Absent \/ (IsArray(a) /\ ArrayB(a) /\ ArrayC(a)),
           NEW readToEnd \in BOOLEAN, NEW sync, sync.up \in Representable
    PROVE  LET b == HandleSync(a, readToEnd, sync) IN
           /\ IsArray(b) /\ ArrayB(b) /\ ArrayC(b)
           /\ \A i \in Slots : b[i] = sync \/ (a # Absent /\ b[i] = a[i])
<1>1. CASE HandleSync(a, readToEnd, sync) = Fill(sync)
  <2>1. \A i \in Slots : Fill(sync)[i] = sync
    BY DEF Fill
  <2> QED
    BY <1>1, <2>1, FillFacts
<1>2. CASE HandleSync(a, readToEnd, sync) # Fill(sync)
  <2>1. /\ a # Absent /\ ~(sync.up < a[0].up)
        /\ HandleSync(a, readToEnd, sync) = Propagate(a, sync)
    BY <1>2 DEF HandleSync
  <2>2. a[0].up <= sync.up
    <3>1. 0 \in Slots
      BY WidthAssumption DEF Slots
    <3> QED
      BY <2>1, <3>1 DEF IsArray, Representable
  <2> QED
    BY <2>1, <2>2, PropagateFacts, PropagateKeepsB, PropagateKeepsC
<1> QED
  BY <1>1, <1>2

\* HandleSync makes no sync up: it fills slots with what it was given or had.
LEMMA HandleSyncType ==
    ASSUME NEW S, NEW a, a = Absent \/ a \in [Slots -> S], NEW readToEnd, NEW sync \in S
    PROVE  HandleSync(a, readToEnd, sync) \in [Slots -> S]
<1>1. Fill(sync) \in [Slots -> S]
  BY DEF Fill
<1>2. a \in [Slots -> S] => Propagate(a, sync) \in [Slots -> S]
  BY DEF Propagate
<1> QED
  BY <1>1, <1>2 DEF HandleSync

(***************************************************************************)
(* TranslateDownstream.                                                    *)
(***************************************************************************)

\* A translation comes from a slot whose sync is not past the offset: the target
\* offset of the sync, or the one after it when the offset is past the sync.
LEMMA TranslateFacts ==
    ASSUME NEW a, IsArray(a), NEW up \in Int, ~(\A i \in Slots : a[i].up > up)
    PROVE  \E i \in Slots : /\ a[i].up <= up
                            /\ Translate(a, up) = a[i].down
                                                  + (IF a[i].up < up THEN 1 ELSE 0)
<1> DEFINE T == {i \in Slots : a[i].up <= up}
           k == LatestSlot(a, up)
<1>1. T \subseteq Nat /\ T # {}
  BY WidthAssumption DEF Slots, IsArray, Representable
<1>2. PICK i \in T : \A j \in T : i <= j
  BY <1>1, LeastNatural
<1>3. \A j \in 0 .. i - 1 : a[j].up > up
  <2> TAKE j \in 0 .. i - 1
  <2>1. j \in Slots /\ j < i
    BY <1>1, WidthAssumption DEF Slots
  <2>2. j \notin T
    BY <1>1, <1>2, <2>1
  <2> QED
    BY <2>1, <2>2 DEF IsArray, Representable
<1>4. k \in Slots /\ a[k].up <= up
  BY <1>2, <1>3 DEF LatestSlot
<1>5. Translate(a, up) = a[k].down + (IF a[k].up < up THEN 1 ELSE 0)
  BY DEF Translate
<1> HIDE DEF k
<1> QED
  BY <1>4, <1>5
=============================================================================
