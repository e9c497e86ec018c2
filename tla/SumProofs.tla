------------------------------- MODULE SumProofs -------------------------------
(***************************************************************************)
(* Lemmas about the sums that the models take with MapThenSumSet and       *)
(* FoldFunction.  Both fold a function over a finite set in an order given *)
(* by CHOOSE; a sum of natural numbers is shown to be the number of units  *)
(* it adds, and its laws follow by induction over the subsets of that set. *)
(***************************************************************************)
EXTENDS FiniteSetsExt, Functions, FiniteSetTheorems, TLAPS

\* The sum of f over S.
Sum(f, S) == MapThenSumSet(LAMBDA x : f[x], S)

\* The fold that defines it, for every subset of S.
Iter(f, S) ==
  CHOOSE iter : iter = [s \in SUBSET S |->
    IF s = {} THEN 0 ELSE f[CHOOSE x \in s : TRUE] + iter[s \ {CHOOSE x \in s : TRUE}]]

\* What is counted: the units of f over S.
Units(f, S) == UNION {{x} \X (1..f[x]) : x \in S}

-----------------------------------------------------------------------------
(* Induction over the subsets of a finite set, those proved being a set.   *)

\* What passes from the sets with one element less to every subset of S holds for S.
LEMMA SubsetInduction ==
  ASSUME NEW S, IsFiniteSet(S), NEW Good,
         \A T \in SUBSET S : (\A x \in T : T \ {x} \in Good) => T \in Good
  PROVE  \A T \in SUBSET S : T \in Good
<1> DEFINE Bad == {T \in SUBSET S : T \notin Good}
<1>1. SUFFICES ASSUME Bad # {} PROVE FALSE
  OBVIOUS
<1>2. IsWellFoundedOn(StrictSubsetOrdering(S), FiniteSubsetsOf(S))
  BY FS_StrictSubsetOrderingWellFounded
<1>3. Bad \subseteq FiniteSubsetsOf(S)
  BY FS_FiniteSubsetsOfFinite
<1>4. \E T \in Bad : \A U \in Bad : ~ (<<U, T>> \in StrictSubsetOrdering(S))
  <2> HIDE DEF Bad
  <2> QED
    BY <1>1, <1>2, <1>3, WFMin
<1>5. PICK T \in Bad : \A U \in Bad : ~ (<<U, T>> \in StrictSubsetOrdering(S))
  BY <1>4
<1>6. ASSUME NEW x \in T PROVE T \ {x} \in Good
  <2>1. <<T \ {x}, T>> \in StrictSubsetOrdering(S)
    BY <1>6 DEF StrictSubsetOrdering
  <2> QED
    BY <1>5, <2>1
<1> QED
  BY <1>6

-----------------------------------------------------------------------------
(* A sum is a number of units.                                             *)

\* One element has as many units as its value.
LEMMA UnitsOfOne ==
  ASSUME NEW f, NEW x, f[x] \in Nat
  PROVE  IsFiniteSet({x} \X (1..f[x])) /\ Cardinality({x} \X (1..f[x])) = f[x]
<1>1. IsFiniteSet({x}) /\ Cardinality({x}) = 1
  BY FS_Singleton
<1>2. 1 \in Int /\ f[x] \in Int
  OBVIOUS
<1>3. IsFiniteSet(1..f[x]) /\ Cardinality(1..f[x]) = IF 1 > f[x] THEN 0 ELSE f[x] - 1 + 1
  BY <1>2, FS_Interval
<1>4. Cardinality(1..f[x]) = f[x]
  BY <1>3
<1>5. /\ IsFiniteSet({x} \X (1..f[x]))
      /\ Cardinality({x} \X (1..f[x])) = Cardinality({x}) * Cardinality(1..f[x])
  BY <1>1, <1>3, FS_Product
<1>6. 1 * f[x] = f[x]
  OBVIOUS
<1> QED
  BY <1>1, <1>4, <1>5, <1>6

\* There are finitely many units over a finite set.
LEMMA UnitsFinite ==
  ASSUME NEW S, IsFiniteSet(S), NEW f, \A x \in S : f[x] \in Nat,
         NEW T \in SUBSET S
  PROVE  IsFiniteSet(Units(f, T)) /\ Cardinality(Units(f, T)) \in Nat
<1> DEFINE part == [x \in T |-> {x} \X (1..f[x])]
           Parts == {{x} \X (1..f[x]) : x \in T}
<1>1. IsFiniteSet(T)
  BY FS_Subset
<1>2. part \in Surjection(T, Parts)
  BY DEF Surjection
<1>3. IsFiniteSet(Parts)
  BY <1>1, <1>2, FS_Surjection
<1>4. ASSUME NEW p \in Parts PROVE IsFiniteSet(p)
  BY <1>4, UnitsOfOne
<1>5. IsFiniteSet(UNION Parts)
  BY <1>3, <1>4, FS_UNION
<1> QED
  BY <1>5, FS_CardinalityType DEF Units

\* The units over a set are those of one element and those of the others.
LEMMA UnitsSplit ==
  ASSUME NEW S, IsFiniteSet(S), NEW f, \A x \in S : f[x] \in Nat,
         NEW T \in SUBSET S, NEW x \in T
  PROVE  Cardinality(Units(f, T)) = f[x] + Cardinality(Units(f, T \ {x}))
<1> DEFINE One == {x} \X (1..f[x])
           Rest == Units(f, T \ {x})
<1>1. Units(f, T) = One \union Rest
  BY DEF Units
<1>2. One \intersect Rest = {}
  BY DEF Units
<1>3. IsFiniteSet(One) /\ Cardinality(One) = f[x]
  BY UnitsOfOne
<1>4. IsFiniteSet(Rest) /\ Cardinality(Rest) \in Nat
  BY UnitsFinite
<1>5. f[x] \in Nat
  OBVIOUS
<1>6. Cardinality(One \union Rest)
        = Cardinality(One) + Cardinality(Rest) - Cardinality(One \intersect Rest)
  <2> HIDE DEF One, Rest
  <2> QED
    BY <1>3, <1>4, FS_Union
<1>7. Cardinality(One \union Rest) = f[x] + Cardinality(Rest)
  <2> HIDE DEF One, Rest
  <2>1. Cardinality(One \intersect Rest) = 0
    BY <1>2, FS_EmptySet, Zenon
  <2> QED
    BY <1>3, <1>4, <1>5, <1>6, <2>1
<1> QED
  BY <1>1, <1>7

\* The recursive definition of the fold has a solution: the number of units.
LEMMA IterUnfolds ==
  ASSUME NEW S, IsFiniteSet(S), NEW f, \A x \in S : f[x] \in Nat
  PROVE  \A s \in SUBSET S :
           Iter(f, S)[s] =
             IF s = {} THEN 0
             ELSE f[CHOOSE x \in s : TRUE] + Iter(f, S)[s \ {CHOOSE x \in s : TRUE}]
<1> DEFINE count == [s \in SUBSET S |-> Cardinality(Units(f, s))]
<1>1. ASSUME NEW s \in SUBSET S
      PROVE  count[s] = IF s = {} THEN 0
                        ELSE f[CHOOSE x \in s : TRUE] + count[s \ {CHOOSE x \in s : TRUE}]
  <2>1. CASE s = {}
    <3>1. Units(f, s) = {}
      BY <2>1 DEF Units
    <3> QED
      BY <2>1, <3>1, FS_EmptySet
  <2>2. CASE s # {}
    <3>1. PICK y \in s : y = CHOOSE x \in s : TRUE
      BY <2>2
    <3>2. Cardinality(Units(f, s)) = f[y] + Cardinality(Units(f, s \ {y}))
      BY UnitsSplit
    <3> QED
      BY <2>2, <3>1, <3>2
  <2> QED
    BY <2>1, <2>2
<1>2. count = [s \in SUBSET S |->
           IF s = {} THEN 0
           ELSE f[CHOOSE x \in s : TRUE] + count[s \ {CHOOSE x \in s : TRUE}]]
  BY <1>1
<1>3. \E iter : iter = [s \in SUBSET S |->
           IF s = {} THEN 0
           ELSE f[CHOOSE x \in s : TRUE] + iter[s \ {CHOOSE x \in s : TRUE}]]
  <2> HIDE DEF count
  <2> QED
    BY <1>2
<1>4. Iter(f, S) = [s \in SUBSET S |->
           IF s = {} THEN 0
           ELSE f[CHOOSE x \in s : TRUE] + Iter(f, S)[s \ {CHOOSE x \in s : TRUE}]]
  BY <1>3, Zenon DEF Iter
<1> QED
  BY <1>4

\* And no other solution.
LEMMA IterCounts ==
  ASSUME NEW S, IsFiniteSet(S), NEW f, \A x \in S : f[x] \in Nat
  PROVE  \A T \in SUBSET S : Iter(f, S)[T] = Cardinality(Units(f, T))
<1> DEFINE iter == Iter(f, S)
           Good == {T \in SUBSET S : iter[T] = Cardinality(Units(f, T))}
<1>1. \A s \in SUBSET S :
        iter[s] = IF s = {} THEN 0
                  ELSE f[CHOOSE x \in s : TRUE] + iter[s \ {CHOOSE x \in s : TRUE}]
  BY IterUnfolds
<1>2. ASSUME NEW T \in SUBSET S, \A x \in T : T \ {x} \in Good
      PROVE  T \in Good
  <2>1. CASE T = {}
    <3>1. Units(f, T) = {}
      BY <2>1 DEF Units
    <3> QED
      BY <1>1, <2>1, <3>1, FS_EmptySet
  <2>2. CASE T # {}
    <3>1. PICK y \in T : y = CHOOSE x \in T : TRUE
      BY <2>2
    <3>2. Cardinality(Units(f, T)) = f[y] + Cardinality(Units(f, T \ {y}))
      BY UnitsSplit
    <3> QED
      BY <1>1, <1>2, <2>2, <3>1, <3>2
  <2> QED
    BY <2>1, <2>2
<1> HIDE DEF Good
<1>3. \A T \in SUBSET S : T \in Good
  BY <1>2, SubsetInduction
<1> QED
  BY <1>3 DEF Good

\* The sum is what the fold returns for the whole set.
LEMMA SumIsIter ==
  ASSUME NEW S, NEW f
  PROVE  Sum(f, S) = Iter(f, S)[S]
BY DEF Sum, MapThenSumSet, MapThenFoldSet, Iter

\* A sum is the number of units.
LEMMA SumCounts ==
  ASSUME NEW S, IsFiniteSet(S), NEW f, \A x \in S : f[x] \in Nat
  PROVE  Sum(f, S) = Cardinality(Units(f, S))
BY IterCounts, SumIsIter

\* The fold of a function over its domain is the same sum.
LEMMA FoldIsSum ==
  ASSUME NEW f
  PROVE  FoldFunction(+, 0, f) = Sum(f, DOMAIN f)
<1>1. FoldFunction(+, 0, f) = Iter(f, DOMAIN f)[DOMAIN f]
  BY Zenon DEF FoldFunction, FoldFunctionOnSet, MapThenFoldSet, Iter
<1> QED
  BY <1>1, SumIsIter

-----------------------------------------------------------------------------
(* The laws of sums.                                                       *)

\* The sum over no elements is zero.
LEMMA SumEmpty ==
  ASSUME NEW f
  PROVE  Sum(f, {}) = 0
<1>1. Units(f, {}) = {}
  BY DEF Units
<1> QED
  BY <1>1, SumCounts, FS_EmptySet

\* One element can be taken out of a sum, whichever it is.
LEMMA SumSplit ==
  ASSUME NEW S, IsFiniteSet(S), NEW f, \A x \in S : f[x] \in Nat, NEW y \in S
  PROVE  Sum(f, S) = f[y] + Sum(f, S \ {y})
<1>1. Cardinality(Units(f, S)) = f[y] + Cardinality(Units(f, S \ {y}))
  BY UnitsSplit
<1>2. IsFiniteSet(S \ {y})
  BY FS_RemoveElement
<1> QED
  BY <1>1, <1>2, SumCounts

\* A sum of natural numbers is one.
LEMMA SumType ==
  ASSUME NEW S, IsFiniteSet(S), NEW f, \A x \in S : f[x] \in Nat
  PROVE  Sum(f, S) \in Nat
BY UnitsFinite, SumCounts

\* Only the values on the set count.
LEMMA SumEqual ==
  ASSUME NEW S, IsFiniteSet(S), NEW f, NEW g, \A x \in S : f[x] \in Nat /\ g[x] = f[x]
  PROVE  Sum(g, S) = Sum(f, S)
<1>1. Units(g, S) = Units(f, S)
  BY DEF Units
<1> QED
  BY <1>1, SumCounts

\* The sum of no days is none.
LEMMA SumZero ==
  ASSUME NEW S, IsFiniteSet(S), NEW f, \A x \in S : f[x] = 0
  PROVE  Sum(f, S) = 0
<1>1. Units(f, S) = {}
  BY DEF Units
<1> QED
  BY <1>1, SumCounts, FS_EmptySet

\* The sum of sums.
LEMMA SumAdd ==
  ASSUME NEW S, IsFiniteSet(S), NEW f, NEW g, NEW h,
         \A x \in S : f[x] \in Nat /\ g[x] \in Nat /\ h[x] = f[x] + g[x]
  PROVE  Sum(h, S) = Sum(f, S) + Sum(g, S)
<1> DEFINE Good == {T \in SUBSET S : Sum(h, T) = Sum(f, T) + Sum(g, T)}
<1>1. ASSUME NEW T \in SUBSET S, \A x \in T : T \ {x} \in Good
      PROVE  T \in Good
  <2>1. CASE T = {}
    BY <2>1, SumEmpty
  <2>2. CASE T # {}
    <3>1. PICK y \in T : TRUE
      BY <2>2
    <3>2. IsFiniteSet(T) /\ IsFiniteSet(T \ {y})
      BY FS_Subset, FS_RemoveElement
    <3>3. \A x \in T : f[x] \in Nat /\ g[x] \in Nat /\ h[x] \in Nat /\ h[x] = f[x] + g[x]
      OBVIOUS
    <3>4. /\ Sum(f, T) = f[y] + Sum(f, T \ {y})
          /\ Sum(g, T) = g[y] + Sum(g, T \ {y})
          /\ Sum(h, T) = h[y] + Sum(h, T \ {y})
      BY <3>2, <3>3, SumSplit
    <3>5. Sum(f, T \ {y}) \in Nat /\ Sum(g, T \ {y}) \in Nat
      BY <3>2, <3>3, SumType
    <3>6. Sum(h, T \ {y}) = Sum(f, T \ {y}) + Sum(g, T \ {y})
      BY <1>1, <3>1
    <3> HIDE DEF Good
    <3>7. Sum(h, T) = Sum(f, T) + Sum(g, T)
      BY <3>3, <3>4, <3>5, <3>6
    <3> QED
      BY <3>7 DEF Good
  <2> QED
    BY <2>1, <2>2
<1> HIDE DEF Good
<1>2. \A T \in SUBSET S : T \in Good
  BY <1>1, SubsetInduction
<1> QED
  BY <1>2 DEF Good

\* A sum over a larger set with one more element is larger by that much at least.
LEMMA SumLarger ==
  ASSUME NEW S, IsFiniteSet(S), NEW f, \A x \in S : f[x] \in Nat,
         NEW y \in S, NEW T \in SUBSET (S \ {y})
  PROVE  Sum(f, T) + f[y] <= Sum(f, S)
<1>1. IsFiniteSet(T) /\ IsFiniteSet(S \ {y})
  BY FS_Subset, FS_RemoveElement
<1>2. Sum(f, S) = f[y] + Sum(f, S \ {y})
  BY SumSplit
<1>3. Units(f, T) \in SUBSET Units(f, S \ {y})
  BY DEF Units
<1>4. IsFiniteSet(Units(f, S \ {y}))
  BY <1>1, UnitsFinite
<1>5. Cardinality(Units(f, T)) <= Cardinality(Units(f, S \ {y}))
  BY <1>3, <1>4, FS_Subset
<1>6. Sum(f, T) <= Sum(f, S \ {y})
  BY <1>1, <1>5, SumCounts
<1>7. Sum(f, T) \in Nat /\ Sum(f, S \ {y}) \in Nat
  BY <1>1, SumType
<1> QED
  BY <1>2, <1>6, <1>7

\* A sum of n numbers of at most k each is n * k at most.
LEMMA SumBounded ==
  ASSUME NEW S, IsFiniteSet(S), NEW k \in Nat, NEW f, \A x \in S : f[x] \in 0..k
  PROVE  Sum(f, S) <= Cardinality(S) * k
<1>1. Units(f, S) \in SUBSET (S \X (1..k))
  BY DEF Units
<1>2. IsFiniteSet(1..k) /\ Cardinality(1..k) = k
  BY FS_Interval
<1>3. IsFiniteSet(S \X (1..k)) /\ Cardinality(S \X (1..k)) = Cardinality(S) * k
  BY <1>2, FS_Product
<1>4. Cardinality(Units(f, S)) <= Cardinality(S) * k
  BY <1>1, <1>3, FS_Subset
<1> QED
  BY <1>4, SumCounts
=============================================================================
