------------------------------ MODULE SumFacts -------------------------------
(***************************************************************************)
(* What MapThenSumSet computes: the sum of the values of a function over a *)
(* finite set, whatever the order in which its elements are chosen.        *)
(***************************************************************************)
EXTENDS Integers, FiniteSets, FiniteSetsExt, FiniteSetTheorems, TLAPS

Sum(f, S) == MapThenSumSet(LAMBDA x : f[x], S)

(* The element MapThenSumSet takes first.                                  *)
Pick(s) == CHOOSE x \in s : TRUE

(* g[s] is the sum of f over s, for every subset s of S.                   *)
IsSum(g, f, S) ==
    g = [s \in SUBSET S |-> IF s = {} THEN 0 ELSE f[Pick(s)] + g[s \ {Pick(s)}]]

(* The community module's definition, down to its recursive function.      *)
LEMMA SumUnfolded == \A f, S : Sum(f, S) = (CHOOSE g : IsSum(g, f, S))[S]
  BY Zenon DEF Sum, MapThenSumSet, MapThenFoldSet, IsSum, Pick

(* Induction on the subsets of a finite set, as a fact about a set of them. *)
LEMMA SubsetInduction ==
    ASSUME NEW S, IsFiniteSet(S), NEW Good,
           \A T \in SUBSET S : (\A U \in SUBSET T : U # T => U \in Good) => T \in Good
    PROVE  \A T \in SUBSET S : T \in Good
<1> DEFINE Bad == {T \in SUBSET S : T \notin Good}
<1>1. Bad \subseteq FiniteSubsetsOf(S)
  BY FS_Subset DEF FiniteSubsetsOf
<1>2. SUFFICES ASSUME Bad # {} PROVE FALSE
  OBVIOUS
<1>3. PICK T \in Bad : \A U \in Bad : ~(<<U, T>> \in StrictSubsetOrdering(S))
  <2>1. IsWellFoundedOn(StrictSubsetOrdering(S), FiniteSubsetsOf(S))
    BY FS_StrictSubsetOrderingWellFounded
  <2> HIDE DEF Bad
  <2> QED
    BY <1>1, <1>2, <2>1, WFMin
<1>4. \A U \in SUBSET T : U # T => U \in Good
  BY <1>3 DEF StrictSubsetOrdering
<1> QED
  BY <1>3, <1>4

(* What is taken first is an element.                                      *)
LEMMA PickIn == \A s : s # {} => Pick(s) \in s
  BY DEF Pick

(* One unfolding of the recursion.                                         *)
LEMMA SumAt ==
    ASSUME NEW S, NEW f, NEW g, IsSum(g, f, S), NEW T \in SUBSET S
    PROVE  g[T] = IF T = {} THEN 0 ELSE f[Pick(T)] + g[T \ {Pick(T)}]
  BY Zenon DEF IsSum

(* The function depends only on the values of f on the set summed.         *)
LEMMA SumAgree ==
    ASSUME NEW S, IsFiniteSet(S), NEW A, NEW B, S \subseteq A, S \subseteq B,
           NEW f, NEW e, \A x \in S : f[x] = e[x],
           NEW g, IsSum(g, f, A), NEW h, IsSum(h, e, B)
    PROVE  g[S] = h[S]
<1> DEFINE Good == {T \in SUBSET S : g[T] = h[T]}
<1>1. ASSUME NEW T \in SUBSET S, \A U \in SUBSET T : U # T => U \in Good
      PROVE  T \in Good
  <2> HIDE DEF Good
  <2>1. T \in SUBSET A /\ T \in SUBSET B
    OBVIOUS
  <2>2. g[T] = IF T = {} THEN 0 ELSE f[Pick(T)] + g[T \ {Pick(T)}]
    BY <2>1, SumAt
  <2>3. h[T] = IF T = {} THEN 0 ELSE e[Pick(T)] + h[T \ {Pick(T)}]
    BY <2>1, SumAt
  <2> USE DEF Good
  <2>4. CASE T = {}
    BY <2>2, <2>3, <2>4
  <2>5. CASE T # {}
    <3>1. Pick(T) \in S /\ T \ {Pick(T)} \in Good
      BY <1>1, <2>5, PickIn
    <3> QED
      BY <2>2, <2>3, <2>5, <3>1
  <2> QED
    BY <2>4, <2>5
<1>2. \A T \in SUBSET S : T \in Good
  <2> HIDE DEF Good
  <2> QED
    BY <1>1, SubsetInduction
<1> QED
  BY <1>2

(* There is such a function, so the CHOOSE in the definition finds one.    *)
LEMMA SumExists ==
    ASSUME NEW S, IsFiniteSet(S), NEW f
    PROVE  \E g : IsSum(g, f, S)
<1> DEFINE Good == {T \in SUBSET S : \E g : IsSum(g, f, T)}
<1>1. ASSUME NEW T \in SUBSET S, \A U \in SUBSET T : U # T => U \in Good
      PROVE  T \in Good
  <2> DEFINE at[U \in SUBSET T] == CHOOSE g : IsSum(g, f, U)
             step(U) == IF U = {} THEN 0 ELSE f[Pick(U)] + at[U \ {Pick(U)}][U \ {Pick(U)}]
             sum == [U \in SUBSET T |-> step(U)]
  <2>1. \A U \in SUBSET T : U # T => IsSum(at[U], f, U)
    BY <1>1
  <2>2. \A U \in SUBSET T : U # {} => U \ {Pick(U)} \in SUBSET T /\ U \ {Pick(U)} # T
    BY PickIn
  <2>3. ASSUME NEW U \in SUBSET T, U # T PROVE sum[U] = at[U][U]
    <3>1. at[U][U] = IF U = {} THEN 0 ELSE f[Pick(U)] + at[U][U \ {Pick(U)}]
      <4>1. IsSum(at[U], f, U) /\ U \in SUBSET U
        BY <2>1, <2>3
      <4> HIDE DEF at
      <4> QED
        BY <4>1, SumAt
    <3>2. CASE U = {}
      BY <3>1, <3>2
    <3>3. CASE U # {}
      <4> DEFINE V == U \ {Pick(U)}
      <4>1. V \in SUBSET T /\ V # T /\ V \subseteq U /\ IsFiniteSet(V)
        BY <2>2, <3>3, FS_Subset
      <4>2. IsSum(at[U], f, U) /\ IsSum(at[V], f, V)
        BY <2>1, <2>3, <4>1
      <4> HIDE DEF at, V
      <4>3. at[U][V] = at[V][V]
        BY <4>1, <4>2, SumAgree
      <4> QED
        BY <3>1, <3>3, <4>3 DEF V
    <3> QED
      BY <3>2, <3>3
  <2>4. \A U \in SUBSET T : sum[U] = IF U = {} THEN 0 ELSE f[Pick(U)] + sum[U \ {Pick(U)}]
    <3> HIDE DEF at
    <3> QED
      BY <2>2, <2>3
  <2>5. IsSum(sum, f, T)
    <3> HIDE DEF step
    <3>1. sum = [U \in SUBSET T |-> sum[U]]
      OBVIOUS
    <3> HIDE DEF sum
    <3> QED
      BY <2>4, <3>1 DEF IsSum
  <2> QED
    BY <2>5
<1>2. \A T \in SUBSET S : T \in Good
  <2> HIDE DEF Good
  <2> QED
    BY <1>1, SubsetInduction
<1> QED
  BY <1>2

(***************************************************************************)
(* What the users of this module cite.                                     *)
(***************************************************************************)
(* Equal terms have equal sums.                                            *)
LEMMA SumSame ==
    ASSUME NEW S, IsFiniteSet(S), NEW f, NEW e, \A x \in S : f[x] = e[x]
    PROVE  Sum(f, S) = Sum(e, S)
<1> DEFINE g == CHOOSE g : IsSum(g, f, S)
           h == CHOOSE h : IsSum(h, e, S)
<1>1. IsSum(g, f, S) /\ IsSum(h, e, S)
  BY SumExists
<1>2. Sum(f, S) = g[S] /\ Sum(e, S) = h[S]
  BY SumUnfolded
<1> HIDE DEF g, h
<1> QED
  BY <1>1, <1>2, SumAgree

(* No terms.                                                               *)
LEMMA SumEmpty == \A f : Sum(f, {}) = 0
<1> SUFFICES ASSUME NEW f PROVE Sum(f, {}) = 0
  OBVIOUS
<1> DEFINE g == CHOOSE g : IsSum(g, f, {})
<1>1. IsSum(g, f, {})
  BY SumExists, FS_EmptySet
<1>2. Sum(f, {}) = g[{}]
  BY SumUnfolded
<1> HIDE DEF g
<1>3. {} \in SUBSET {}
  OBVIOUS
<1>4. g[{}] = 0
  BY <1>1, <1>3, SumAt
<1> QED
  BY <1>2, <1>4

(* The element chosen first is one term of the sum.                        *)
LEMMA SumPick ==
    ASSUME NEW S, IsFiniteSet(S), S # {}, NEW f
    PROVE  Sum(f, S) = f[Pick(S)] + Sum(f, S \ {Pick(S)})
<1> DEFINE R == S \ {Pick(S)}
           g == CHOOSE g : IsSum(g, f, S)
           h == CHOOSE h : IsSum(h, f, R)
<1>1. IsFiniteSet(R) /\ R \subseteq S /\ S \in SUBSET S
  BY FS_Subset
<1> HIDE DEF R
<1>2. IsSum(g, f, S) /\ IsSum(h, f, R)
  BY <1>1, SumExists
<1>3. Sum(f, S) = g[S] /\ Sum(f, R) = h[R]
  BY SumUnfolded
<1> HIDE DEF g, h
<1>4. g[S] = f[Pick(S)] + g[R]
  BY <1>1, <1>2, SumAt DEF R
<1>5. g[R] = h[R]
  BY <1>1, <1>2, SumAgree
<1> QED
  BY <1>3, <1>4, <1>5 DEF R

(* A sum of naturals is one.                                               *)
LEMMA SumNat ==
    ASSUME NEW S, IsFiniteSet(S), NEW f, \A x \in S : f[x] \in Nat
    PROVE  Sum(f, S) \in Nat
<1> DEFINE Good == {T \in SUBSET S : Sum(f, T) \in Nat}
<1>1. ASSUME NEW T \in SUBSET S, \A U \in SUBSET T : U # T => U \in Good
      PROVE  T \in Good
  <2>1. CASE T = {}
    BY <2>1, SumEmpty
  <2>2. CASE T # {}
    <3>1. IsFiniteSet(T) /\ Pick(T) \in T
      BY <2>2, FS_Subset, PickIn
    <3>2. Sum(f, T) = f[Pick(T)] + Sum(f, T \ {Pick(T)})
      BY <2>2, <3>1, SumPick
    <3>3. Sum(f, T \ {Pick(T)}) \in Nat
      BY <1>1, <3>1
    <3> QED
      BY <3>1, <3>2, <3>3
  <2> QED
    BY <2>1, <2>2
<1>2. \A T \in SUBSET S : T \in Good
  <2> HIDE DEF Good
  <2> QED
    BY <1>1, SubsetInduction
<1> QED
  BY <1>2

(* Any element may be taken first.                                         *)
LEMMA SumRemove ==
    ASSUME NEW S, IsFiniteSet(S), NEW f, \A x \in S : f[x] \in Nat, NEW x \in S
    PROVE  Sum(f, S) = f[x] + Sum(f, S \ {x})
<1> DEFINE Good == {T \in SUBSET S : \A y \in T : Sum(f, T) = f[y] + Sum(f, T \ {y})}
<1>1. ASSUME NEW T \in SUBSET S, \A U \in SUBSET T : U # T => U \in Good
      PROVE  T \in Good
  <2> SUFFICES ASSUME NEW y \in T PROVE Sum(f, T) = f[y] + Sum(f, T \ {y})
    OBVIOUS
  <2> DEFINE p == Pick(T)
  <2>1. IsFiniteSet(T) /\ p \in T
    BY FS_Subset, PickIn
  <2>2. Sum(f, T) = f[p] + Sum(f, T \ {p})
    BY <2>1, SumPick
  <2>3. CASE y = p
    BY <2>2, <2>3
  <2>4. CASE y # p
    <3> HIDE DEF p
    <3> DEFINE R == (T \ {p}) \ {y}
    <3>1. T \ {p} \in Good /\ T \ {y} \in Good
      BY <1>1, <2>1
    <3>2. Sum(f, T \ {p}) = f[y] + Sum(f, R)
      BY <2>4, <3>1
    <3>3. R = (T \ {y}) \ {p}
      OBVIOUS
    <3>4. Sum(f, T \ {y}) = f[p] + Sum(f, R)
      BY <2>1, <2>4, <3>1, <3>3
    <3>5. Sum(f, R) \in Nat /\ f[p] \in Nat /\ f[y] \in Nat
      BY <2>1, SumNat, FS_Subset
    <3> HIDE DEF R
    <3> QED
      BY <2>2, <3>2, <3>4, <3>5
  <2> QED
    BY <2>3, <2>4
<1>2. \A T \in SUBSET S : T \in Good
  <2> HIDE DEF Good
  <2> QED
    BY <1>1, SubsetInduction
<1> QED
  BY <1>2

(* One value changed changes the sum by as much.                           *)
LEMMA SumChange ==
    ASSUME NEW S, IsFiniteSet(S), NEW x \in S,
           NEW f, \A y \in S : f[y] \in Nat,
           NEW e, \A y \in S : e[y] \in Nat,
           \A y \in S \ {x} : e[y] = f[y]
    PROVE  Sum(e, S) = Sum(f, S) - f[x] + e[x]
<1>1. IsFiniteSet(S \ {x})
  BY FS_Subset
<1>2. Sum(f, S \ {x}) = Sum(e, S \ {x})
  BY <1>1, SumSame
<1>3. Sum(f, S \ {x}) \in Nat
  BY <1>1, SumNat
<1>4. Sum(f, S) = f[x] + Sum(f, S \ {x}) /\ Sum(e, S) = e[x] + Sum(e, S \ {x})
  BY SumRemove
<1> QED
  BY <1>2, <1>3, <1>4

(* A part of a sum is no larger than the sum.                              *)
LEMMA SumPart ==
    ASSUME NEW S, IsFiniteSet(S), NEW f, \A x \in S : f[x] \in Nat, NEW P \in SUBSET S
    PROVE  Sum(f, P) <= Sum(f, S)
<1> DEFINE Good == {T \in SUBSET S : \A U \in SUBSET T : Sum(f, U) <= Sum(f, T)}
<1>1. ASSUME NEW T \in SUBSET S, \A U \in SUBSET T : U # T => U \in Good
      PROVE  T \in Good
  <2> SUFFICES ASSUME NEW U \in SUBSET T PROVE Sum(f, U) <= Sum(f, T)
    OBVIOUS
  <2>1. \A V \in SUBSET T : Sum(f, V) \in Nat
    BY SumNat, FS_Subset
  <2>2. CASE U = T
    BY <2>1, <2>2
  <2>3. CASE U # T
    <3>1. PICK x \in T : x \notin U
      BY <2>3
    <3>2. T \ {x} \in Good /\ U \in SUBSET (T \ {x})
      BY <1>1, <3>1
    <3>3. Sum(f, U) <= Sum(f, T \ {x})
      BY <3>2
    <3>4. Sum(f, T) = f[x] + Sum(f, T \ {x})
      BY SumRemove, FS_Subset
    <3>5. f[x] \in Nat /\ Sum(f, T \ {x}) \in Nat /\ Sum(f, U) \in Nat
      BY <2>1
    <3> QED
      BY <3>3, <3>4, <3>5
  <2> QED
    BY <2>2, <2>3
<1>2. \A T \in SUBSET S : T \in Good
  <2> HIDE DEF Good
  <2> QED
    BY <1>1, SubsetInduction
<1> QED
  BY <1>2

(* A sum whose terms are q, or q + 1 on K.                                 *)
LEMMA SumTwoValues ==
    ASSUME NEW S, IsFiniteSet(S), NEW K \in SUBSET S, NEW q \in Nat, NEW f,
           \A x \in S : f[x] = IF x \in K THEN q + 1 ELSE q
    PROVE  Sum(f, S) = q * Cardinality(S) + Cardinality(K)
<1> DEFINE Good == {T \in SUBSET S :
                      Sum(f, T) = q * Cardinality(T) + Cardinality(T \cap K)}
<1>1. ASSUME NEW T \in SUBSET S, \A U \in SUBSET T : U # T => U \in Good
      PROVE  T \in Good
  <2>1. CASE T = {}
    <3>1. T \cap K = {} /\ Sum(f, T) = 0 /\ Cardinality(T) = 0
      BY <2>1, SumEmpty, FS_EmptySet
    <3> QED
      BY <3>1, <2>1
  <2>2. CASE T # {}
    <3>1. PICK x \in T : TRUE
      BY <2>2
    <3> DEFINE R == T \ {x}
    <3>2. IsFiniteSet(T) /\ IsFiniteSet(R) /\ IsFiniteSet(T \cap K) /\ IsFiniteSet(R \cap K)
      BY FS_Subset
    <3>3. R \in Good
      BY <1>1
    <3>4. Sum(f, R) = q * Cardinality(R) + Cardinality(R \cap K)
      BY <3>3
    <3>5. Sum(f, T) = f[x] + Sum(f, R)
      BY <3>2, SumRemove
    <3>6. Cardinality(T) = Cardinality(R) + 1 /\ Cardinality(R) \in Nat
      BY <3>2, FS_RemoveElement, FS_CardinalityType
    <3>7. /\ Cardinality(R \cap K) \in Nat
          /\ Cardinality(T \cap K) = Cardinality(R \cap K) + (IF x \in K THEN 1 ELSE 0)
      <4>1. R \cap K = (T \cap K) \ {x}
        OBVIOUS
      <4>2. Cardinality(T \cap K) \in Nat /\ Cardinality(R \cap K) \in Nat
        BY <3>2, FS_CardinalityType
      <4>3. Cardinality((T \cap K) \ {x}) = IF x \in T \cap K THEN Cardinality(T \cap K) - 1
                                            ELSE Cardinality(T \cap K)
        BY <3>2, FS_RemoveElement
      <4>4. x \in T \cap K <=> x \in K
        OBVIOUS
      <4> DEFINE a == Cardinality(T \cap K)
                 b == Cardinality(R \cap K)
      <4>5. b = IF x \in K THEN a - 1 ELSE a
        BY <4>1, <4>3, <4>4
      <4>6. a \in Nat /\ b \in Nat
        BY <4>2
      <4> HIDE DEF a, b
      <4>7. b \in Nat /\ a = b + (IF x \in K THEN 1 ELSE 0)
        BY <4>5, <4>6
      <4> QED
        BY <4>7 DEF a, b
    <3>8. f[x] = q + (IF x \in K THEN 1 ELSE 0)
      OBVIOUS
    <3> HIDE DEF R
    <3>9. \A n \in Nat : q * (n + 1) = q * n + q /\ q * n \in Nat
      OBVIOUS
    <3>10. Sum(f, T) = q * Cardinality(T) + Cardinality(T \cap K)
      BY <3>4, <3>5, <3>6, <3>7, <3>8, <3>9
    <3> QED
      BY <3>10
  <2> QED
    BY <2>1, <2>2
<1>2. \A T \in SUBSET S : T \in Good
  <2> HIDE DEF Good
  <2> QED
    BY <1>1, SubsetInduction
<1>3. S \cap K = K
  OBVIOUS
<1> QED
  BY <1>2, <1>3
=============================================================================
