---------------------------- MODULE NumberProofs ----------------------------
(***************************************************************************)
(* Numbers that the proofs of the components share: least and greatest     *)
(* elements, induction, and what SumFunctionOnSet computes for every       *)
(* finite set: the order in which the fold chooses the elements does not   *)
(* matter.  The arguments by induction take the set of good cases as a     *)
(* value: the natural numbers are well-founded, so a set of bad cases      *)
(* would have a least one.                                                 *)
(***************************************************************************)
EXTENDS Integers, FiniteSets, Functions, FiniteSetTheorems, WellFoundedInduction,
        TLAPS

\* A non-empty set of natural numbers has a least one: what induction needs.
LEMMA LeastNatural ==
    ASSUME NEW T \in SUBSET Nat, T # {}
    PROVE  \E x \in T : \A y \in T : x <= y
<1> DEFINE R == OpToRel(<, Nat)
<1>1. IsWellFoundedOn(R, Nat)
  BY NatLessThanWellFounded
<1>2. \A x, y \in Nat : x < y => <<x, y>> \in R
  BY DEF OpToRel
<1> HIDE DEF R
<1>3. PICK x \in T : \A y \in T : ~(<<y, x>> \in R)
  BY <1>1, WFMin
<1>4. x \in Nat /\ \A y \in T : y \in Nat /\ ~(y < x)
  BY <1>2, <1>3
<1>5. \A y \in T : x <= y
  BY <1>4
<1> QED
  BY <1>5

\* A set of natural numbers with an upper bound has a greatest one.
LEMMA GreatestNatural ==
    ASSUME NEW T \in SUBSET Nat, T # {}, NEW b \in Nat, \A x \in T : x <= b
    PROVE  \E x \in T : \A y \in T : x >= y
<1> DEFINE U == {n \in Nat : \A x \in T : x <= n}
<1>1. b \in U /\ U \in SUBSET Nat
  OBVIOUS
<1>2. PICK m \in U : \A y \in U : m <= y
  <2> HIDE DEF U
  <2> QED
    BY <1>1, LeastNatural
<1>3. m \in Nat /\ \A x \in T : x \in Nat /\ x <= m
  BY <1>2
<1>4. CASE m \in T
  BY <1>3, <1>4
<1>5. CASE m \notin T
  <2>1. \A x \in T : x <= m - 1
    BY <1>3, <1>5
  <2>2. m - 1 \in Nat
    <3>1. PICK x \in T : TRUE
      OBVIOUS
    <3> QED
      BY <1>3, <2>1, <3>1
  <2>3. m - 1 \in U
    BY <2>1, <2>2
  <2> QED
    BY <1>2, <1>3, <2>3
<1> QED
  BY <1>4, <1>5

\* Induction over the natural numbers, of a set G.
LEMMA NaturalsAreGood ==
    ASSUME NEW G, 0 \in G, \A n \in Nat : n \in G => n + 1 \in G
    PROVE  Nat \subseteq G
<1> SUFFICES ASSUME Nat \ G # {} PROVE FALSE
  OBVIOUS
<1>1. PICK x \in Nat \ G : \A y \in Nat \ G : x <= y
  BY LeastNatural
<1>2. x - 1 \in Nat /\ (x - 1) + 1 = x /\ ~(x <= x - 1)
  BY <1>1
<1> QED
  BY <1>1, <1>2

\* Induction over the subsets of a finite set D, of a set G of subsets.
LEMMA SubsetsAreGood ==
    ASSUME NEW D, IsFiniteSet(D), NEW G,
           \A s \in SUBSET D : (\A x \in s : s \ {x} \in G) => s \in G
    PROVE  SUBSET D \subseteq G
<1> SUFFICES ASSUME NEW bad \in SUBSET D, bad \notin G PROVE FALSE
  OBVIOUS
<1> DEFINE T == {n \in Nat : \E s \in SUBSET D : s \notin G /\ n = Cardinality(s)}
<1>1. \A s \in SUBSET D : IsFiniteSet(s) /\ Cardinality(s) \in Nat
  BY FS_Subset, FS_CardinalityType
<1>2. T # {} /\ T \in SUBSET Nat
  BY <1>1
<1>3. PICK n \in T : \A m \in T : n <= m
  <2> HIDE DEF T
  <2> QED
    BY <1>2, LeastNatural
<1>4. PICK s \in SUBSET D : s \notin G /\ n = Cardinality(s)
  BY <1>3
<1>5. PICK x \in s : s \ {x} \notin G
  BY <1>4
<1>6. s \ {x} \in SUBSET D
  OBVIOUS
<1>7. Cardinality(s \ {x}) = n - 1 /\ Cardinality(s \ {x}) \in Nat
  BY <1>1, <1>4, <1>6, FS_RemoveElement
<1>8. n - 1 \in T
  BY <1>5, <1>6, <1>7
<1>9. n \in Nat
  BY <1>3
<1> HIDE DEF T
<1> QED
  BY <1>3, <1>8, <1>9

-----------------------------------------------------------------------------
Pick(s) == CHOOSE x \in s : TRUE

\* The element the fold takes next is one of the set.
LEMMA PickFrom == ASSUME NEW s, s # {} PROVE Pick(s) \in s
BY Zenon DEF Pick

\* it is the iterator of the fold over the sets in dom.
Iterates(it, f, dom) ==
    it = [s \in dom |-> IF s = {} THEN 0 ELSE f[Pick(s)] + it[s \ {Pick(s)}]]

\* SumFunctionOnSet is the fold's iterator at the set.
LEMMA SumUnfolds ==
    ASSUME NEW f, NEW D
    PROVE  SumFunctionOnSet(f, D) = (CHOOSE it : Iterates(it, f, SUBSET D))[D]
BY Zenon DEF SumFunctionOnSet, FoldFunctionOnSet, MapThenFoldSet, Iterates, Pick

\* The fold has an iterator on the subsets of at most n elements.
LEMMA IteratorExists ==
    ASSUME NEW D, IsFiniteSet(D), NEW f
    PROVE  \E it : Iterates(it, f, SUBSET D)
<1> DEFINE Small(n) == {s \in SUBSET D : Cardinality(s) <= n}
           G == {n \in Nat : \E it : Iterates(it, f, Small(n))}
<1>1. \A s \in SUBSET D : IsFiniteSet(s) /\ Cardinality(s) \in Nat
  BY FS_Subset, FS_CardinalityType
<1>2. 0 \in G
  <2>1. Small(0) = {{}}
    BY <1>1, FS_EmptySet
  <2> DEFINE it == [s \in {{}} |-> 0]
  <2>2. Iterates(it, f, {{}})
    BY DEF Iterates
  <2> QED
    BY <2>1, <2>2
<1>3. ASSUME NEW n \in Nat, n \in G PROVE n + 1 \in G
  <2>1. PICK it : Iterates(it, f, Small(n))
    BY <1>3
  <2> DEFINE up == [s \in Small(n + 1) |->
                      IF s = {} THEN 0 ELSE f[Pick(s)] + it[s \ {Pick(s)}]]
  <2>2. \A s \in Small(n + 1) : s # {} => s \ {Pick(s)} \in Small(n)
    <3> SUFFICES ASSUME NEW s \in Small(n + 1), s # {}
                 PROVE  s \ {Pick(s)} \in Small(n)
      OBVIOUS
    <3>1. Pick(s) \in s
      BY PickFrom
    <3>2. Cardinality(s \ {Pick(s)}) = Cardinality(s) - 1
      BY <3>1, <1>1, FS_RemoveElement
    <3> QED
      BY <3>2, <1>1
  <2>3. \A s \in Small(n) : s \in Small(n + 1)
    BY <1>1
  <2>4. \A s \in Small(n) : up[s] = it[s]
    BY <2>1, <2>3 DEF Iterates
  <2>5. Iterates(up, f, Small(n + 1))
    BY <2>2, <2>4 DEF Iterates
  <2>6. n + 1 \in Nat
    OBVIOUS
  <2> HIDE DEF up, Small
  <2>7. \E j : Iterates(j, f, Small(n + 1))
    BY <2>5
  <2> QED
    BY <2>6, <2>7
<1>4. Nat \subseteq G
  <2> HIDE DEF G
  <2> QED
    BY <1>2, <1>3, NaturalsAreGood
<1>5. Cardinality(D) \in G
  BY <1>1, <1>4
<1>6. Small(Cardinality(D)) = SUBSET D
  BY FS_Subset
<1> QED
  BY <1>5, <1>6

\* The iterator that SumFunctionOnSet uses.
Iterator(f, D) == CHOOSE it : Iterates(it, f, SUBSET D)

\* The iterator of a finite set is defined on all its subsets.
LEMMA IteratorStep ==
    ASSUME NEW D, IsFiniteSet(D), NEW f, NEW s \in SUBSET D
    PROVE  Iterator(f, D)[s] = IF s = {} THEN 0
                               ELSE f[Pick(s)] + Iterator(f, D)[s \ {Pick(s)}]
<1> DEFINE it == Iterator(f, D)
<1>1. Iterates(it, f, SUBSET D)
  <2>1. \E i : Iterates(i, f, SUBSET D)
    BY IteratorExists
  <2> QED
    BY <2>1, Zenon DEF Iterator
<1> HIDE DEF it
<1>2. it[s] = IF s = {} THEN 0 ELSE f[Pick(s)] + it[s \ {Pick(s)}]
  BY <1>1, Zenon DEF Iterates
<1> QED
  BY <1>2 DEF it

\* It depends on the set and on the values in it, not on where they come from.
LEMMA IteratorLocal ==
    ASSUME NEW D, IsFiniteSet(D), NEW E \in SUBSET D, NEW f, NEW g,
           \A x \in E : f[x] = g[x], NEW s \in SUBSET E
    PROVE  Iterator(f, D)[s] = Iterator(g, E)[s]
<1> DEFINE G == {u \in SUBSET E : Iterator(f, D)[u] = Iterator(g, E)[u]}
<1>1. IsFiniteSet(E)
  BY FS_Subset
<1>2. ASSUME NEW u \in SUBSET E, \A x \in u : u \ {x} \in G PROVE u \in G
  <2>1. CASE u = {}
    BY <2>1, <1>1, IteratorStep
  <2>2. CASE u # {}
    <3>1. Pick(u) \in u
      BY <2>2, PickFrom
    <3>2. Iterator(f, D)[u \ {Pick(u)}] = Iterator(g, E)[u \ {Pick(u)}]
      BY <3>1, <1>2
    <3>3. Iterator(f, D)[u] = f[Pick(u)] + Iterator(f, D)[u \ {Pick(u)}]
      <4>1. u \in SUBSET D
        OBVIOUS
      <4> QED
        BY <4>1, <2>2, IteratorStep
    <3>4. Iterator(g, E)[u] = g[Pick(u)] + Iterator(g, E)[u \ {Pick(u)}]
      BY <2>2, <1>1, IteratorStep
    <3> QED
      BY <3>1, <3>2, <3>3, <3>4
  <2> QED
    BY <2>1, <2>2
<1>3. SUBSET E \subseteq G
  <2> HIDE DEF G
  <2> QED
    BY <1>1, <1>2, SubsetsAreGood
<1> QED
  BY <1>3

\* Values that are integers, or naturals, add up to one.
LEMMA IteratorInt ==
    ASSUME NEW D, IsFiniteSet(D), NEW f, \A x \in D : f[x] \in Int, NEW s \in SUBSET D
    PROVE  /\ Iterator(f, D)[s] \in Int
           /\ (\A x \in D : f[x] >= 0) => Iterator(f, D)[s] >= 0
<1> DEFINE G == {u \in SUBSET D :
                   /\ Iterator(f, D)[u] \in Int
                   /\ (\A x \in D : f[x] >= 0) => Iterator(f, D)[u] >= 0}
<1>1. ASSUME NEW u \in SUBSET D, \A x \in u : u \ {x} \in G PROVE u \in G
  <2>1. CASE u = {}
    <3>1. Iterator(f, D)[u] = 0
      BY <2>1, IteratorStep
    <3> QED
      BY <3>1
  <2>2. CASE u # {}
    <3>1. Pick(u) \in u
      BY <2>2, PickFrom
    <3>2. u \ {Pick(u)} \in G
      BY <3>1, <1>1
    <3>3. Iterator(f, D)[u] = f[Pick(u)] + Iterator(f, D)[u \ {Pick(u)}]
      BY <2>2, IteratorStep
    <3> QED
      BY <3>1, <3>2, <3>3
  <2> QED
    BY <2>1, <2>2
<1>2. SUBSET D \subseteq G
  <2> HIDE DEF G
  <2> QED
    BY <1>1, SubsetsAreGood
<1> QED
  BY <1>2

\* Any element may be taken out first.
LEMMA IteratorRemove ==
    ASSUME NEW D, IsFiniteSet(D), NEW f, \A x \in D : f[x] \in Int,
           NEW s \in SUBSET D, NEW x \in s
    PROVE  Iterator(f, D)[s] = f[x] + Iterator(f, D)[s \ {x}]
<1> DEFINE G == {u \in SUBSET D :
                   \A y \in u : Iterator(f, D)[u] = f[y] + Iterator(f, D)[u \ {y}]}
<1>1. ASSUME NEW u \in SUBSET D, \A y \in u : u \ {y} \in G, NEW y \in u
      PROVE  Iterator(f, D)[u] = f[y] + Iterator(f, D)[u \ {y}]
  <2> DEFINE p == Pick(u)
             I(v) == Iterator(f, D)[v]
  <2>1. p \in u /\ I(u) = f[p] + I(u \ {p})
    BY PickFrom, IteratorStep
  <2>2. CASE p = y
    BY <2>1, <2>2
  <2>3. CASE p # y
    <3> HIDE DEF p
    <3>1. I(u \ {p}) = f[y] + I((u \ {p}) \ {y})
      BY <1>1, <2>1, <2>3
    <3>2. I(u \ {y}) = f[p] + I((u \ {y}) \ {p})
      BY <1>1, <2>1, <2>3
    <3>3. (u \ {p}) \ {y} = (u \ {y}) \ {p}
      OBVIOUS
    <3>4. f[p] \in Int /\ f[y] \in Int
      BY <1>1, <2>1
    <3>5. I((u \ {y}) \ {p}) \in Int
      <4>1. (u \ {y}) \ {p} \in SUBSET D
        OBVIOUS
      <4> QED
        BY <4>1, IteratorInt
    <3> HIDE DEF I
    <3>6. I(u) = f[p] + (f[y] + I((u \ {y}) \ {p}))
      BY <2>1, <3>1, <3>3
    <3>7. f[y] + I(u \ {y}) = f[y] + (f[p] + I((u \ {y}) \ {p}))
      BY <3>2
    <3>8. I(u) = f[y] + I(u \ {y})
      BY <3>4, <3>5, <3>6, <3>7
    <3> QED
      BY <3>8 DEF I
  <2> QED
    BY <2>2, <2>3
<1>2. \A u \in SUBSET D : (\A y \in u : u \ {y} \in G) => u \in G
  BY <1>1
<1>3. SUBSET D \subseteq G
  <2> HIDE DEF G
  <2> QED
    BY <1>2, SubsetsAreGood
<1> QED
  BY <1>3

-----------------------------------------------------------------------------
(***************************************************************************)
(* The facts about sums.                                                   *)
(***************************************************************************)

\* The sum is the value of the iterator.
LEMMA SumIterator ==
    ASSUME NEW f, NEW D
    PROVE  SumFunctionOnSet(f, D) = Iterator(f, D)[D]
BY SumUnfolds DEF Iterator

\* A sum of integers is one, and a sum of naturals is one.
THEOREM SumInt ==
    ASSUME NEW D, IsFiniteSet(D), NEW f, \A x \in D : f[x] \in Int
    PROVE  /\ SumFunctionOnSet(f, D) \in Int
           /\ (\A x \in D : f[x] >= 0) => SumFunctionOnSet(f, D) >= 0
BY SumIterator, IteratorInt

\* Nothing adds up to 0.
THEOREM SumEmpty == ASSUME NEW f PROVE SumFunctionOnSet(f, {}) = 0
BY SumIterator, IteratorStep, FS_EmptySet

\* A sum is the value of any one element and the sum of the others.
THEOREM SumRemove ==
    ASSUME NEW D, IsFiniteSet(D), NEW f, \A x \in D : f[x] \in Int, NEW x \in D
    PROVE  SumFunctionOnSet(f, D) = f[x] + SumFunctionOnSet(f, D \ {x})
<1>1. Iterator(f, D)[D] = f[x] + Iterator(f, D)[D \ {x}]
  BY IteratorRemove
<1>2. Iterator(f, D)[D \ {x}] = Iterator(f, D \ {x})[D \ {x}]
  BY IteratorLocal
<1> QED
  BY <1>1, <1>2, SumIterator

\* It depends on the values in the set alone.
THEOREM SumCongruent ==
    ASSUME NEW D, IsFiniteSet(D), NEW f, NEW g, \A x \in D : f[x] = g[x]
    PROVE  SumFunctionOnSet(f, D) = SumFunctionOnSet(g, D)
<1>1. Iterator(f, D)[D] = Iterator(g, D)[D]
  BY IteratorLocal
<1> QED
  BY <1>1, SumIterator

\* Changing one value changes the sum by the difference.
LEMMA SumUpdate ==
    ASSUME NEW D, IsFiniteSet(D), NEW f, NEW g, NEW x \in D,
           \A y \in D : f[y] \in Int /\ g[y] \in Int,
           \A y \in D \ {x} : f[y] = g[y]
    PROVE  SumFunctionOnSet(g, D) = SumFunctionOnSet(f, D) + (g[x] - f[x])
<1>1. SumFunctionOnSet(f, D) = f[x] + SumFunctionOnSet(f, D \ {x})
  BY SumRemove
<1>2. SumFunctionOnSet(g, D) = g[x] + SumFunctionOnSet(g, D \ {x})
  BY SumRemove
<1>3. IsFiniteSet(D \ {x})
  BY FS_RemoveElement
<1>4. SumFunctionOnSet(f, D \ {x}) = SumFunctionOnSet(g, D \ {x})
  BY <1>3, SumCongruent
<1>5. SumFunctionOnSet(f, D \ {x}) \in Int
  BY <1>3, SumInt
<1> QED
  BY <1>1, <1>2, <1>4, <1>5

=============================================================================
