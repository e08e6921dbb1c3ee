------------------------------ MODULE FoldTheorems ------------------------------
(***************************************************************************)
(* What the folds of the community modules compute, for every finite set.  *)
(* The library defines a fold by CHOOSE of a function that takes one       *)
(* element at a time from a set; that this function exists, and what it    *)
(* yields, is proved by induction over sets: of naturals (LeastNatural)    *)
(* and of the subsets of a finite set (SubsetsInduction).                  *)
(***************************************************************************)
EXTENDS FiniteSetsExt, Functions, Integers, FiniteSetTheorems, WellFoundedInduction, TLAPS

-------------------------------------------------------------------------------
(* Induction.                                                               *)

\* Every non-empty set of naturals has a least element.
LEMMA LeastNatural ==
    ASSUME NEW T, T \subseteq Nat, T # {}
    PROVE  \E n \in T : \A m \in T : n <= m
<1> DEFINE R == {p \in Nat \X Nat : p[1] < p[2]}
<1>1. IsWellFoundedOn(R, Nat)
  BY NatLessThanWellFounded DEF OpToRel
<1>2. \E n \in T : \A m \in T : ~(<<m, n>> \in R)
  <2> HIDE DEF R
  <2> QED
    BY <1>1, WFMin
<1>3. \A m, n \in Nat : <<m, n>> \in R <=> m < n
  OBVIOUS
<1> QED
  <2> HIDE DEF R
  <2>1. PICK n \in T : \A m \in T : ~(<<m, n>> \in R)
    BY <1>2
  <2>2. ASSUME NEW m \in T PROVE n <= m
    <3>1. m \in Nat /\ n \in Nat /\ ~(<<m, n>> \in R)
      BY <2>1
    <3>2. ~(m < n)
      BY <1>3, <3>1
    <3> QED
      BY <3>1, <3>2
  <2> QED
    BY <2>2

\* A set of subsets that holds the empty set, and every subset that one of its elements
\* can be taken from to give a subset it holds, holds them all.
LEMMA SubsetsInduction ==
    ASSUME NEW S, IsFiniteSet(S), NEW Good, {} \in Good,
           \A B \in SUBSET S : B # {} => \E x \in B : B \ {x} \in Good => B \in Good
    PROVE  \A B \in SUBSET S : B \in Good
<1> SUFFICES ASSUME NEW C \in SUBSET S, C \notin Good
             PROVE  FALSE
  OBVIOUS
<1> DEFINE Bad == (SUBSET S) \ Good
           T == {n \in Nat : \E B \in Bad : Cardinality(B) = n}
<1>1. \A B \in SUBSET S : IsFiniteSet(B) /\ Cardinality(B) \in Nat
  BY FS_Subset, FS_CardinalityType
<1>2. Cardinality(C) \in T
  BY <1>1
<1>3. PICK n \in T : \A m \in T : n <= m
  BY <1>2, LeastNatural
<1>4. PICK B \in Bad : Cardinality(B) = n
  BY <1>3
<1>5. B # {}
  <2> SUFFICES ASSUME B = {} PROVE FALSE
    OBVIOUS
  <2> QED
    OBVIOUS
<1>6. PICK x \in B : B \ {x} \in Good => B \in Good
  BY <1>5
<1>7. /\ IsFiniteSet(B \ {x}) /\ Cardinality(B \ {x}) = n - 1
      /\ B \ {x} \in SUBSET S
  BY <1>1, <1>4, FS_RemoveElement
<1>8. B \ {x} \in Good
  BY <1>1, <1>3, <1>7
<1> QED
  BY <1>6, <1>8

\* What holds of 0, and of every number up to n whose predecessor it holds of, holds of n.
LEMMA UpToInduction ==
    ASSUME NEW n \in Nat, NEW Good, 0 \in Good,
           \A k \in 1..n : k - 1 \in Good => k \in Good
    PROVE  n \in Good
<1> SUFFICES ASSUME n \notin Good PROVE FALSE
  OBVIOUS
<1> DEFINE T == {k \in 0..n : k \notin Good}
<1>1. T \subseteq Nat /\ T # {}
  OBVIOUS
<1>2. PICK k \in T : \A m \in T : k <= m
  <2> HIDE DEF T
  <2> QED
    BY <1>1, LeastNatural
<1>3. k \in 1..n /\ k - 1 \in 0..n /\ k - 1 \notin T
  BY <1>2
<1> QED
  BY <1>3

\* A non-empty set of the numbers up to n has a greatest element.
LEMMA GreatestUpTo ==
    ASSUME NEW n \in Nat, NEW s \in SUBSET (1..n), s # {}
    PROVE  \E x \in s : \A y \in s : y <= x
<1> DEFINE T == {n - x : x \in s}
<1>1. T \subseteq Nat /\ T # {}
  OBVIOUS
<1>2. PICK m \in T : \A k \in T : m <= k
  <2> HIDE DEF T
  <2> QED
    BY <1>1, LeastNatural
<1>3. PICK x \in s : m = n - x
  BY <1>2
<1>4. ASSUME NEW y \in s PROVE y <= x
  <2>1. n - y \in T
    OBVIOUS
  <2>2. n - x <= n - y
    BY <1>2, <1>3, <2>1
  <2>3. x \in Int /\ y \in Int
    OBVIOUS
  <2> HIDE DEF T
  <2> QED
    BY <2>2, <2>3
<1> QED
  BY <1>4

-------------------------------------------------------------------------------
(* Taking elements from a set one by one.                                   *)

\* taken[s] is the element taken from s, and step[s] what it adds to a value of V.
Takes(S, taken) == \A s \in SUBSET S : s # {} => taken[s] \in s

\* g starts with base and adds the elements in that order.
FoldsTo(g, S, base, taken, step) ==
    \A s \in SUBSET S : g[s] = IF s = {} THEN base ELSE step[s][g[s \ {taken[s]}]]

\* A finite set has such a function.
LEMMA FoldExists ==
    ASSUME NEW S, IsFiniteSet(S), NEW V, NEW base \in V, NEW taken, Takes(S, taken),
           NEW step \in [SUBSET S -> [V -> V]]
    PROVE  \E g \in [SUBSET S -> V] : FoldsTo(g, S, base, taken, step)
<1> DEFINE D(n) == {s \in SUBSET S : Cardinality(s) <= n}
           Fold(g, n) == /\ g \in [D(n) -> V]
                         /\ \A s \in D(n) :
                              g[s] = IF s = {} THEN base ELSE step[s][g[s \ {taken[s]}]]
           Missing == {n \in Nat : ~\E g : Fold(g, n)}
<1>1. \A s \in SUBSET S : IsFiniteSet(s) /\ Cardinality(s) \in Nat
  BY FS_Subset, FS_CardinalityType
<1>2. \E g : Fold(g, 0)
  <2>1. \A s \in D(0) : s = {}
    BY <1>1, FS_EmptySet
  <2>2. Fold([s \in D(0) |-> base], 0)
    BY <2>1
  <2> QED
    BY <2>2
<1>3. ASSUME NEW n \in Nat, NEW g, Fold(g, n) PROVE \E h : Fold(h, n + 1)
  <2> DEFINE h == [s \in D(n + 1) |-> IF s = {} THEN base ELSE step[s][g[s \ {taken[s]}]]]
  <2>1. ASSUME NEW s \in D(n + 1), s # {}
        PROVE  s \ {taken[s]} \in D(n) /\ s \ {taken[s]} \in D(n + 1)
    <3>1. taken[s] \in s
      BY <2>1 DEF Takes
    <3>2. Cardinality(s \ {taken[s]}) = Cardinality(s) - 1
      BY <1>1, <3>1, FS_RemoveElement
    <3> QED
      BY <1>1, <3>1, <3>2
  <2>2. \A s \in D(n) : s \in D(n + 1) /\ h[s] = g[s]
    <3>1. D(n) \subseteq D(n + 1)
      BY <1>1
    <3> QED
      BY <1>3, <3>1
  <2>3. h \in [D(n + 1) -> V]
    <3>1. \A s \in D(n + 1) : s # {} => step[s][g[s \ {taken[s]}]] \in V
      BY <1>3, <2>1
    <3> QED
      BY <3>1
  <2>4. \A s \in D(n + 1) : h[s] = IF s = {} THEN base ELSE step[s][h[s \ {taken[s]}]]
    BY <2>1, <2>2
  <2>5. Fold(h, n + 1)
    <3> HIDE DEF h
    <3> QED
      BY <2>3, <2>4
  <2> QED
    BY <2>5
<1>4. \A n \in Nat : \E g : Fold(g, n)
  <2> SUFFICES ASSUME Missing # {} PROVE FALSE
    OBVIOUS
  <2> HIDE DEF Fold, D
  <2>1. PICK n \in Missing : \A m \in Missing : n <= m
    BY LeastNatural
  <2>2. n # 0
    BY <1>2
  <2>3. n - 1 \in Nat /\ n - 1 \notin Missing
    BY <2>1, <2>2
  <2>4. PICK g : Fold(g, n - 1)
    BY <2>3
  <2>5. \E h : Fold(h, (n - 1) + 1)
    BY <1>3, <2>3, <2>4
  <2>6. (n - 1) + 1 = n
    BY <2>3
  <2> QED
    BY <2>1, <2>5, <2>6
<1>5. PICK g : Fold(g, Cardinality(S))
  BY <1>1, <1>4
<1>6. D(Cardinality(S)) = SUBSET S
  BY FS_Subset
<1>7. g \in [SUBSET S -> V]
  BY <1>5, <1>6
<1>8. \A s \in SUBSET S : g[s] = IF s = {} THEN base ELSE step[s][g[s \ {taken[s]}]]
  BY <1>5, <1>6
<1> QED
  BY <1>7, <1>8 DEF FoldsTo

-------------------------------------------------------------------------------
(* Sums over a finite set.                                                  *)

\* The function a sum is read from.
Sums(f, S) ==
    CHOOSE sums : sums = [s \in SUBSET S |->
        IF s = {} THEN 0
        ELSE f[CHOOSE x \in s : TRUE] + sums[s \ {CHOOSE x \in s : TRUE}]]

\* MapThenSumSet and SumFunction both compute it.
LEMMA SumsAre ==
    ASSUME NEW f, NEW S
    PROVE  MapThenSumSet(LAMBDA x : f[x], S) = Sums(f, S)[S]
BY DEF MapThenSumSet, MapThenFoldSet, Sums

LEMMA SumFunctionIs ==
    ASSUME NEW f
    PROVE  SumFunction(f) = Sums(f, DOMAIN f)[DOMAIN f]
BY DEF SumFunction, SumFunctionOnSet, FoldFunctionOnSet, MapThenFoldSet, Sums

\* The element a sum takes from a set first.
FirstOf(s) == CHOOSE x \in s : TRUE

LEMMA FirstOfIsIn ==
    ASSUME NEW s, s # {}
    PROVE  FirstOf(s) \in s
BY DEF FirstOf

LEMMA SumsUnfold ==
    ASSUME NEW S, IsFiniteSet(S), NEW f, \A x \in S : f[x] \in Int
    PROVE  /\ Sums(f, S)[{}] = 0
           /\ \A s \in SUBSET S :
                s # {} => Sums(f, S)[s] = f[FirstOf(s)] + Sums(f, S)[s \ {FirstOf(s)}]
<1> DEFINE taken == [s \in SUBSET S |-> CHOOSE x \in s : TRUE]
           step == [s \in SUBSET S |-> [v \in Int |-> IF s = {} THEN v ELSE f[taken[s]] + v]]
<1>1. Takes(S, taken)
  BY DEF Takes
<1>2. step \in [SUBSET S -> [Int -> Int]]
  <2>1. ASSUME NEW s \in SUBSET S, NEW v \in Int
        PROVE  (IF s = {} THEN v ELSE f[taken[s]] + v) \in Int
    <3>1. s # {} => f[taken[s]] \in Int
      BY <1>1 DEF Takes
    <3> HIDE DEF taken
    <3> QED
      BY <3>1
  <2> HIDE DEF taken
  <2> QED
    BY <2>1
<1>3. PICK g \in [SUBSET S -> Int] : FoldsTo(g, S, 0, taken, step)
  <2> DEFINE zero == 0
             V == Int
  <2>1. zero \in V
    OBVIOUS
  <2>2. step \in [SUBSET S -> [V -> V]]
    BY <1>2
  <2> HIDE DEF step, taken, zero, V
  <2>3. \E g \in [SUBSET S -> V] : FoldsTo(g, S, zero, taken, step)
    BY <1>1, <2>1, <2>2, FoldExists
  <2> QED
    BY <2>3 DEF zero, V
<1>4. ASSUME NEW s \in SUBSET S, s # {}
      PROVE  step[s][g[s \ {taken[s]}]] = f[CHOOSE x \in s : TRUE] + g[s \ {CHOOSE x \in s : TRUE}]
  <2>1. g[s \ {taken[s]}] \in Int /\ taken[s] = CHOOSE x \in s : TRUE
    BY <1>3
  <2> HIDE DEF taken
  <2> QED
    BY <1>4, <2>1
<1>5. g = [s \in SUBSET S |->
              IF s = {} THEN 0 ELSE f[CHOOSE x \in s : TRUE] + g[s \ {CHOOSE x \in s : TRUE}]]
  <2> HIDE DEF taken, step
  <2> QED
    BY <1>3, <1>4 DEF FoldsTo
<1>6. Sums(f, S) = [s \in SUBSET S |->
              IF s = {} THEN 0
              ELSE f[CHOOSE x \in s : TRUE] + Sums(f, S)[s \ {CHOOSE x \in s : TRUE}]]
  BY <1>5 DEF Sums
<1> QED
  BY <1>6 DEF FirstOf

LEMMA SumsType ==
    ASSUME NEW S, IsFiniteSet(S), NEW f, \A x \in S : f[x] \in Int
    PROVE  \A s \in SUBSET S : Sums(f, S)[s] \in Int
<1> DEFINE Good == {s \in SUBSET S : Sums(f, S)[s] \in Int}
<1>1. {} \in Good
  BY SumsUnfold
<1>2. ASSUME NEW B \in SUBSET S, B # {}
      PROVE  \E x \in B : B \ {x} \in Good => B \in Good
  <2> DEFINE x == FirstOf(B)
  <2>1. x \in B
    BY <1>2, FirstOfIsIn
  <2>2. Sums(f, S)[B] = f[x] + Sums(f, S)[B \ {x}]
    BY <1>2, SumsUnfold
  <2> HIDE DEF x
  <2> SUFFICES ASSUME B \ {x} \in Good PROVE B \in Good
    BY <2>1
  <2> QED
    BY <2>1, <2>2
<1>3. \A B \in SUBSET S : B \in Good
  <2> HIDE DEF Good
  <2> QED
    BY <1>1, <1>2, SubsetsInduction
<1> QED
  BY <1>3

\* To add d to one term is to add d to every sum it is part of.
LEMMA SumsChange ==
    ASSUME NEW S, IsFiniteSet(S), NEW f, \A x \in S : f[x] \in Int,
           NEW p \in S, NEW d \in Int,
           NEW h, h[p] = f[p] + d, \A x \in S \ {p} : h[x] = f[x]
    PROVE  \A s \in SUBSET S : Sums(h, S)[s] = Sums(f, S)[s] + (IF p \in s THEN d ELSE 0)
<1> DEFINE Add(s) == IF p \in s THEN d ELSE 0
           Good == {s \in SUBSET S : Sums(h, S)[s] = Sums(f, S)[s] + Add(s)}
<1>1. \A x \in S : h[x] \in Int
  OBVIOUS
<1>2. {} \in Good
  <2>1. Sums(h, S)[{}] = 0 /\ Sums(f, S)[{}] = 0
    BY <1>1, SumsUnfold
  <2> QED
    BY <2>1
<1>3. ASSUME NEW B \in SUBSET S, B # {}
      PROVE  \E x \in B : B \ {x} \in Good => B \in Good
  <2> DEFINE x == FirstOf(B)
  <2>1. x \in B
    BY <1>3, FirstOfIsIn
  <2>2. /\ Sums(f, S)[B] = f[x] + Sums(f, S)[B \ {x}]
        /\ Sums(h, S)[B] = h[x] + Sums(h, S)[B \ {x}]
    BY <1>1, <1>3, SumsUnfold
  <2>3. Sums(f, S)[B \ {x}] \in Int /\ Sums(h, S)[B \ {x}] \in Int
    BY <1>1, SumsType
  <2> HIDE DEF x
  <2>4. Add(B) = Add(B \ {x}) + (IF x = p THEN d ELSE 0) /\ Add(B \ {x}) \in Int
    BY <2>1
  <2>5. f[x] \in Int /\ h[x] = f[x] + (IF x = p THEN d ELSE 0)
    BY <2>1
  <2> HIDE DEF Add
  <2> SUFFICES ASSUME B \ {x} \in Good PROVE B \in Good
    BY <2>1
  <2> QED
    BY <2>2, <2>3, <2>4, <2>5
<1>4. \A B \in SUBSET S : B \in Good
  <2> HIDE DEF Good
  <2> QED
    BY <1>2, <1>3, SubsetsInduction
<1> QED
  BY <1>4

\* A sum of naturals that are at most b is at most b for every term.
LEMMA SumsBound ==
    ASSUME NEW S, IsFiniteSet(S), NEW b \in Nat, NEW f, \A x \in S : f[x] \in 0..b
    PROVE  \A s \in SUBSET S : Sums(f, S)[s] \in 0..(Cardinality(s) * b)
<1> DEFINE Good == {s \in SUBSET S : Sums(f, S)[s] \in 0..(Cardinality(s) * b)}
<1>1. \A x \in S : f[x] \in Int
  OBVIOUS
<1>2. {} \in Good
  <2>1. Sums(f, S)[{}] = 0
    BY <1>1, SumsUnfold
  <2> QED
    BY <2>1, FS_EmptySet
<1>3. ASSUME NEW B \in SUBSET S, B # {}
      PROVE  \E x \in B : B \ {x} \in Good => B \in Good
  <2> DEFINE x == FirstOf(B)
  <2>1. x \in B
    BY <1>3, FirstOfIsIn
  <2>2. Sums(f, S)[B] = f[x] + Sums(f, S)[B \ {x}]
    BY <1>1, <1>3, SumsUnfold
  <2> HIDE DEF x
  <2>3. IsFiniteSet(B) /\ Cardinality(B) \in Nat
    BY FS_Subset, FS_CardinalityType
  <2>4. Cardinality(B \ {x}) = Cardinality(B) - 1 /\ Cardinality(B \ {x}) \in Nat
    BY <2>1, <2>3, FS_RemoveElement, FS_CardinalityType
  <2> SUFFICES ASSUME B \ {x} \in Good PROVE B \in Good
    BY <2>1
  <2> DEFINE k == Cardinality(B \ {x})
             v == Sums(f, S)[B \ {x}]
  <2>5. v \in 0..(k * b) /\ k \in Nat /\ f[x] \in 0..b /\ Cardinality(B) = k + 1
    BY <2>1, <2>3, <2>4
  <2>6. f[x] + v \in 0..((k + 1) * b)
    <3> HIDE DEF k, v
    <3>1. (k + 1) * b = k * b + b /\ k * b \in Nat
      BY <2>5
    <3> QED
      BY <2>5, <3>1
  <2> QED
    BY <2>2, <2>5, <2>6
<1>4. \A B \in SUBSET S : B \in Good
  <2> HIDE DEF Good
  <2> QED
    BY <1>2, <1>3, SubsetsInduction
<1> QED
  BY <1>4

-------------------------------------------------------------------------------
(* Products over a finite set.                                              *)

\* The function a product is read from.
Products(f, S) ==
    CHOOSE products : products = [s \in SUBSET S |->
        IF s = {} THEN 1
        ELSE f[CHOOSE x \in s : TRUE] * products[s \ {CHOOSE x \in s : TRUE}]]

LEMMA ProductsAre ==
    ASSUME NEW f
    PROVE  FoldFunction(LAMBDA m, n : m * n, 1, f) = Products(f, DOMAIN f)[DOMAIN f]
BY DEF FoldFunction, FoldFunctionOnSet, MapThenFoldSet, Products

\* A product of positive numbers is positive.
LEMMA ProductsPositive ==
    ASSUME NEW S, IsFiniteSet(S), NEW f, \A x \in S : f[x] \in Nat \ {0}
    PROVE  \A s \in SUBSET S : Products(f, S)[s] \in Nat \ {0}
<1> DEFINE taken == [s \in SUBSET S |-> CHOOSE x \in s : TRUE]
           V == Nat \ {0}
           one == 1
           step == [s \in SUBSET S |-> [v \in V |-> IF s = {} THEN v ELSE f[taken[s]] * v]]
<1>1. Takes(S, taken)
  BY DEF Takes
<1>2. step \in [SUBSET S -> [V -> V]]
  <2>1. ASSUME NEW s \in SUBSET S, NEW v \in V
        PROVE  (IF s = {} THEN v ELSE f[taken[s]] * v) \in V
    <3>1. s # {} => f[taken[s]] \in V
      BY <1>1 DEF Takes
    <3> HIDE DEF taken
    <3>2. \A a, b \in V : a * b \in V
      OBVIOUS
    <3> QED
      BY <3>1, <3>2
  <2> HIDE DEF taken, V
  <2> QED
    BY <2>1
<1>3. PICK g \in [SUBSET S -> V] : FoldsTo(g, S, one, taken, step)
  <2>1. one \in V
    OBVIOUS
  <2> HIDE DEF step, taken, one, V
  <2> QED
    BY <1>1, <1>2, <2>1, FoldExists
<1>4. ASSUME NEW s \in SUBSET S, s # {}
      PROVE  step[s][g[s \ {taken[s]}]] = f[CHOOSE x \in s : TRUE] * g[s \ {CHOOSE x \in s : TRUE}]
  <2>1. g[s \ {taken[s]}] \in V /\ taken[s] = CHOOSE x \in s : TRUE
    BY <1>3
  <2> HIDE DEF taken, V
  <2> QED
    BY <1>4, <2>1
<1>5. g = [s \in SUBSET S |->
              IF s = {} THEN 1 ELSE f[CHOOSE x \in s : TRUE] * g[s \ {CHOOSE x \in s : TRUE}]]
  <2> HIDE DEF taken, step, V
  <2> QED
    BY <1>3, <1>4 DEF FoldsTo, one
<1>6. Products(f, S) = [s \in SUBSET S |->
              IF s = {} THEN 1
              ELSE f[CHOOSE x \in s : TRUE] * Products(f, S)[s \ {CHOOSE x \in s : TRUE}]]
  BY <1>5 DEF Products
<1> DEFINE Good == {s \in SUBSET S : Products(f, S)[s] \in V}
<1>7. {} \in Good
  BY <1>6
<1>8. ASSUME NEW B \in SUBSET S, B # {}
      PROVE  \E x \in B : B \ {x} \in Good => B \in Good
  <2> DEFINE x == CHOOSE y \in B : TRUE
  <2>1. x \in B
    BY <1>8
  <2>2. Products(f, S)[B] = f[x] * Products(f, S)[B \ {x}]
    BY <1>6, <1>8
  <2> HIDE DEF x
  <2> SUFFICES ASSUME B \ {x} \in Good PROVE B \in Good
    BY <2>1
  <2>3. f[x] \in V /\ Products(f, S)[B \ {x}] \in V
    BY <2>1
  <2>4. \A a, b \in V : a * b \in V
    OBVIOUS
  <2> QED
    BY <2>2, <2>3, <2>4
<1>9. \A B \in SUBSET S : B \in Good
  <2> HIDE DEF Good
  <2> QED
    BY <1>7, <1>8, SubsetsInduction
<1> QED
  BY <1>9
=============================================================================
