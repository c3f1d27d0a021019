------------------------------- MODULE SumFacts -------------------------------
(***************************************************************************)
(* Sums over finite sets, for the modules that add up shares or money:     *)
(* what SumFunctionOnSet(f, S) of the community module Functions is when S *)
(* is empty, loses or gains an element, and how two sums compare.          *)
(*                                                                         *)
(* SumFunctionOnSet is defined as a fold, a CHOOSE of a function that      *)
(* solves a recursion over the subsets of S.  The first part shows that    *)
(* the recursion has a solution, by induction over the subsets.  Induction *)
(* is stated over a set, SubsetInduction, and not over a predicate.        *)
(***************************************************************************)
EXTENDS Integers, Functions, FiniteSetTheorems, TLAPS

(* A set of subsets that holds a subset whenever it holds all the smaller  *)
(* ones holds every subset: the strict order of finite subsets is well     *)
(* founded.                                                                *)
LEMMA SubsetInduction ==
  ASSUME NEW S, IsFiniteSet(S), NEW G,
         \A T \in SUBSET S : (\A U \in SUBSET T : U # T => U \in G) => T \in G
  PROVE  SUBSET S \subseteq G
<1> DEFINE Rest == (SUBSET S) \ G
<1>1. SUFFICES ASSUME Rest # {} PROVE FALSE
  OBVIOUS
<1>2. PICK T \in Rest : \A U \in Rest : ~(<<U, T>> \in StrictSubsetOrdering(S))
  <2>1. Rest \subseteq FiniteSubsetsOf(S)
    BY FS_FiniteSubsetsOfFinite
  <2> HIDE DEF Rest
  <2>2. QED
    BY ONLY <1>1, <2>1, FS_StrictSubsetOrderingWellFounded, WFMin
<1>3. \A U \in SUBSET T : U # T => U \in G
  BY <1>2 DEF StrictSubsetOrdering
<1>4. QED
  BY <1>3

(* One step of the recursion of a sum, and a function that solves it on    *)
(* the subsets of S.                                                       *)
Pick(s) == CHOOSE x \in s : TRUE
SumStep(f, g, s) == IF s = {} THEN 0 ELSE f[Pick(s)] + g[s \ {Pick(s)}]
Sums(f, g, S) == \A s \in SUBSET S : g[s] = SumStep(f, g, s)

(* What is picked from a set is in it.                                     *)
LEMMA PickIn == ASSUME NEW s, s # {} PROVE Pick(s) \in s
BY DEF Pick

(* Two solutions agree on the whole set.                                   *)
LEMMA SumsAgree ==
  ASSUME NEW f, NEW S, IsFiniteSet(S), NEW g, NEW h, Sums(f, g, S), Sums(f, h, S)
  PROVE  g[S] = h[S]
<1> DEFINE G == {T \in SUBSET S : g[T] = h[T]}
<1>1. ASSUME NEW T \in SUBSET S, \A U \in SUBSET T : U # T => U \in G
      PROVE  T \in G
  <2>1. CASE T = {}
    BY <2>1 DEF Sums, SumStep
  <2>2. CASE T # {}
    <3>1. Pick(T) \in T
      BY <2>2, PickIn
    <3>2. T \ {Pick(T)} \in G
      BY <1>1, <3>1
    <3>3. QED
      BY <2>2, <3>2 DEF Sums, SumStep
  <2>3. QED
    BY <2>1, <2>2
<1> HIDE DEF G
<1>2. SUBSET S \subseteq G
  BY <1>1, SubsetInduction
<1>3. QED
  BY <1>2 DEF G

(* The sum is the value of a chosen solution (Functions, Folds).           *)
LEMMA SumFunctionOnSetDef ==
  ASSUME NEW f, NEW S
  PROVE  SumFunctionOnSet(f, S) = (CHOOSE g : g = [s \in SUBSET S |-> SumStep(f, g, s)])[S]
BY DEF SumFunctionOnSet, FoldFunctionOnSet, MapThenFoldSet, SumStep, Pick

(* The solution on a set holds on its subsets.                             *)
LEMMA SumsBelow ==
  ASSUME NEW f, NEW S, NEW g, Sums(f, g, S), NEW T \in SUBSET S
  PROVE  Sums(f, g, T)
BY DEF Sums

(* There is a solution: the solutions on the smaller sets, put together.   *)
LEMMA SumsExist ==
  ASSUME NEW f, NEW S, IsFiniteSet(S)
  PROVE  \E g : Sums(f, g, S)
<1> DEFINE G == {T \in SUBSET S : \E g : Sums(f, g, T)}
<1>1. ASSUME NEW T \in SUBSET S, \A U \in SUBSET T : U # T => U \in G
      PROVE  T \in G
  <2> DEFINE sol == [U \in SUBSET T |-> CHOOSE g : Sums(f, g, U)]
             val == [U \in SUBSET T |-> sol[U][U]]
             h == [s \in SUBSET T |-> SumStep(f, val, s)]
  <2>1. ASSUME NEW U \in SUBSET T, U # T
        PROVE  Sums(f, sol[U], U)
    BY <1>1, <2>1
  <2>2. ASSUME NEW U \in SUBSET T, U # T
        PROVE  h[U] = val[U]
    <3>1. val[U] = SumStep(f, sol[U], U)
      BY <2>1, <2>2 DEF Sums
    <3>2. CASE U = {}
      BY <3>1, <3>2 DEF SumStep
    <3>3. CASE U # {}
      <4> DEFINE V == U \ {Pick(U)}
      <4>1. Pick(U) \in U
        BY <3>3, PickIn
      <4>2. V \in SUBSET T /\ V # T /\ V \in SUBSET U /\ V \in SUBSET S
        BY <4>1
      <4>3. Sums(f, sol[V], V) /\ Sums(f, sol[U], V)
        BY <2>1, <2>2, <4>2, SumsBelow
      <4>4. IsFiniteSet(V)
        BY <4>2, FS_Subset
      <4>5. sol[V][V] = sol[U][V]
        BY ONLY <4>3, <4>4, SumsAgree
      <4>6. val[V] = sol[U][V]
        BY <4>2, <4>5
      <4>7. QED
        BY <3>1, <3>3, <4>2, <4>6 DEF SumStep
    <3>4. QED
      BY <3>2, <3>3
  <2>3. ASSUME NEW s \in SUBSET T
        PROVE  h[s] = SumStep(f, h, s)
    <3>1. CASE s = {}
      BY <3>1 DEF SumStep
    <3>2. CASE s # {}
      <4>1. Pick(s) \in s
        BY <3>2, PickIn
      <4>2. h[s \ {Pick(s)}] = val[s \ {Pick(s)}]
        BY <2>2, <4>1
      <4>3. QED
        BY <3>2, <4>2 DEF SumStep
    <3>3. QED
      BY <3>1, <3>2
  <2>4. QED
    BY <2>3 DEF Sums
<1> HIDE DEF G
<1>2. SUBSET S \subseteq G
  BY <1>1, SubsetInduction
<1>3. QED
  BY <1>2 DEF G

(* The sum is the value of a solution.                                     *)
LEMMA SumSolution ==
  ASSUME NEW f, NEW S, IsFiniteSet(S)
  PROVE  \E g : Sums(f, g, S) /\ SumFunctionOnSet(f, S) = g[S]
<1>1. PICK g : Sums(f, g, S)
  BY SumsExist
<1> DEFINE h == [s \in SUBSET S |-> g[s]]
           it == CHOOSE k : k = [s \in SUBSET S |-> SumStep(f, k, s)]
<1>2. h = [s \in SUBSET S |-> SumStep(f, h, s)]
  <2>1. ASSUME NEW s \in SUBSET S
        PROVE  g[s] = SumStep(f, h, s)
    <3>1. CASE s = {}
      BY <1>1, <3>1 DEF SumStep, Sums
    <3>2. CASE s # {}
      <4>1. s \ {Pick(s)} \in SUBSET S
        OBVIOUS
      <4>2. QED
        BY <1>1, <3>2, <4>1 DEF SumStep, Sums
    <3>3. QED
      BY <3>1, <3>2
  <2>2. QED
    BY <2>1
<1> HIDE DEF h
<1>3. it = [s \in SUBSET S |-> SumStep(f, it, s)]
  BY <1>2
<1>4. SumFunctionOnSet(f, S) = it[S]
  BY SumFunctionOnSetDef
<1> HIDE DEF it
<1>5. Sums(f, it, S)
  BY <1>3 DEF Sums
<1>6. QED
  BY <1>4, <1>5

-----------------------------------------------------------------------------
(* What the proofs about the models use.                                   *)

(* An empty sum is 0.                                                      *)
LEMMA SumEmpty == ASSUME NEW f PROVE SumFunctionOnSet(f, {}) = 0
<1>1. PICK g : Sums(f, g, {}) /\ SumFunctionOnSet(f, {}) = g[{}]
  BY SumSolution, FS_EmptySet
<1>2. QED
  BY <1>1 DEF Sums, SumStep

(* The recursion takes away the element it picks.                          *)
LEMMA SumPicks ==
  ASSUME NEW f, NEW S, IsFiniteSet(S), S # {}
  PROVE  SumFunctionOnSet(f, S) = f[Pick(S)] + SumFunctionOnSet(f, S \ {Pick(S)})
<1> DEFINE T == S \ {Pick(S)}
<1>1. PICK g : Sums(f, g, S) /\ SumFunctionOnSet(f, S) = g[S]
  BY SumSolution
<1>2. IsFiniteSet(T) /\ T \in SUBSET S
  BY FS_Subset
<1>3. PICK h : Sums(f, h, T) /\ SumFunctionOnSet(f, T) = h[T]
  BY <1>2, SumSolution
<1>4. g[T] = h[T]
  <2>1. Sums(f, g, T)
    BY <1>1, <1>2, SumsBelow
  <2>2. QED
    BY ONLY <1>2, <1>3, <2>1, SumsAgree
<1>5. g[S] = f[Pick(S)] + g[T]
  BY <1>1 DEF Sums, SumStep
<1>6. QED
  BY <1>1, <1>3, <1>4, <1>5

(* A sum of integers is an integer.                                        *)
LEMMA SumIsInt ==
  ASSUME NEW f, NEW S, IsFiniteSet(S), \A x \in S : f[x] \in Int
  PROVE  SumFunctionOnSet(f, S) \in Int
<1> DEFINE G == {T \in SUBSET S : SumFunctionOnSet(f, T) \in Int}
<1>1. ASSUME NEW T \in SUBSET S, \A U \in SUBSET T : U # T => U \in G
      PROVE  T \in G
  <2>1. CASE T = {}
    BY <2>1, SumEmpty
  <2>2. CASE T # {}
    <3>1. Pick(T) \in T /\ IsFiniteSet(T)
      BY <2>2, PickIn, FS_Subset
    <3>2. T \ {Pick(T)} \in G
      BY <1>1, <3>1
    <3>3. QED
      BY <2>2, <3>1, <3>2, SumPicks
  <2>3. QED
    BY <2>1, <2>2
<1> HIDE DEF G
<1>2. SUBSET S \subseteq G
  BY <1>1, SubsetInduction
<1>3. QED
  BY <1>2 DEF G

(* Any element may be taken away instead.                                  *)
LEMMA SumRemove ==
  ASSUME NEW f, NEW S, IsFiniteSet(S), \A x \in S : f[x] \in Int, NEW y \in S
  PROVE  SumFunctionOnSet(f, S) = f[y] + SumFunctionOnSet(f, S \ {y})
<1> DEFINE Total(T) == SumFunctionOnSet(f, T)
           G == {T \in SUBSET S : \A x \in T : Total(T) = f[x] + Total(T \ {x})}
<1>1. ASSUME NEW T \in SUBSET S, \A U \in SUBSET T : U # T => U \in G
      PROVE  T \in G
  <2>1. SUFFICES ASSUME NEW x \in T PROVE Total(T) = f[x] + Total(T \ {x})
    OBVIOUS
  <2>2. /\ IsFiniteSet(T) /\ T # {}
        /\ Pick(T) \in T
        /\ IsFiniteSet(T \ {x}) /\ IsFiniteSet(T \ {Pick(T)})
    BY PickIn, FS_Subset
  <2>3. Total(T) = f[Pick(T)] + Total(T \ {Pick(T)})
    BY <2>2, SumPicks
  <2>4. CASE x = Pick(T)
    BY <2>3, <2>4
  <2>5. CASE x # Pick(T)
    <3> DEFINE U == T \ {x, Pick(T)}
    <3>1. T \ {Pick(T)} \in G /\ T \ {x} \in G
      BY <1>1, <2>2
    <3>2. (T \ {Pick(T)}) \ {x} = U /\ (T \ {x}) \ {Pick(T)} = U
      OBVIOUS
    <3>3. Total(T \ {Pick(T)}) = f[x] + Total(U)
      BY <2>5, <3>1, <3>2
    <3>4. Total(T \ {x}) = f[Pick(T)] + Total(U)
      BY <2>2, <2>5, <3>1, <3>2
    <3>5. IsFiniteSet(U) /\ \A z \in U : f[z] \in Int
      BY <2>2, FS_Subset
    <3>6. Total(U) \in Int /\ f[x] \in Int /\ f[Pick(T)] \in Int
      BY <2>2, <3>5, SumIsInt
    <3> HIDE DEF Total, U
    <3>7. QED
      BY <2>3, <3>3, <3>4, <3>6
  <2>6. QED
    BY <2>4, <2>5
<1> HIDE DEF G
<1>2. SUBSET S \subseteq G
  BY <1>1, SubsetInduction
<1>3. QED
  BY <1>2 DEF G

(* An element may be added.                                                *)
LEMMA SumAdd ==
  ASSUME NEW f, NEW S, IsFiniteSet(S), NEW y, y \notin S, \A x \in S \cup {y} : f[x] \in Int
  PROVE  SumFunctionOnSet(f, S \cup {y}) = f[y] + SumFunctionOnSet(f, S)
<1>1. IsFiniteSet(S \cup {y}) /\ (S \cup {y}) \ {y} = S
  BY FS_AddElement
<1>2. QED
  BY <1>1, SumRemove

(* Summands that are at most others add up to at most their sum.           *)
LEMMA SumAtMost ==
  ASSUME NEW f, NEW g, NEW S, IsFiniteSet(S),
         \A x \in S : f[x] \in Int /\ g[x] \in Int /\ f[x] <= g[x]
  PROVE  SumFunctionOnSet(f, S) <= SumFunctionOnSet(g, S)
<1> DEFINE G == {T \in SUBSET S : SumFunctionOnSet(f, T) <= SumFunctionOnSet(g, T)}
<1>1. ASSUME NEW T \in SUBSET S, \A U \in SUBSET T : U # T => U \in G
      PROVE  T \in G
  <2>1. CASE T = {}
    BY <2>1, SumEmpty
  <2>2. CASE T # {}
    <3> DEFINE U == T \ {Pick(T)}
    <3>1. Pick(T) \in T /\ IsFiniteSet(T) /\ IsFiniteSet(U)
      BY <2>2, PickIn, FS_Subset
    <3>2. U \in G
      BY <1>1, <3>1
    <3>3. SumFunctionOnSet(f, U) \in Int /\ SumFunctionOnSet(g, U) \in Int
      BY <3>1, SumIsInt
    <3>4. /\ SumFunctionOnSet(f, T) = f[Pick(T)] + SumFunctionOnSet(f, U)
          /\ SumFunctionOnSet(g, T) = g[Pick(T)] + SumFunctionOnSet(g, U)
      BY <2>2, <3>1, SumPicks
    <3>5. QED
      BY <3>1, <3>2, <3>3, <3>4
  <2>3. QED
    BY <2>1, <2>2
<1> HIDE DEF G
<1>2. SUBSET S \subseteq G
  BY <1>1, SubsetInduction
<1>3. QED
  BY <1>2 DEF G

(* Nothing is lost by leaving summands out, when none is negative.         *)
LEMMA SumOfFewer ==
  ASSUME NEW f, NEW S, IsFiniteSet(S), NEW T \in SUBSET S, \A x \in S : f[x] \in Nat
  PROVE  SumFunctionOnSet(f, T) <= SumFunctionOnSet(f, S)
<1> DEFINE Total(U) == SumFunctionOnSet(f, U)
           G == {U \in SUBSET S : Total(U \cap T) <= Total(U)}
<1>1. ASSUME NEW V \in SUBSET S, \A U \in SUBSET V : U # V => U \in G
      PROVE  V \in G
  <2>1. CASE V = {}
    <3>1. V \cap T = V /\ Total(V) = 0
      BY <2>1, SumEmpty
    <3>2. QED
      BY <3>1
  <2>2. CASE V # {}
    <3> DEFINE y == Pick(V)
               U == V \ {y}
    <3>1. y \in V /\ y \in S /\ IsFiniteSet(V) /\ IsFiniteSet(V \cap T) /\ U \in G
      BY <1>1, <2>2, PickIn, FS_Subset
    <3>2. IsFiniteSet(U) /\ IsFiniteSet(U \cap T)
      BY <3>1, FS_Subset
    <3>3. f[y] \in Nat /\ Total(V) = f[y] + Total(U)
      BY <2>2, <3>1, SumPicks
    <3>4. Total(U \cap T) \in Int /\ Total(U) \in Int /\ Total(U \cap T) <= Total(U)
      BY <3>1, <3>2, SumIsInt
    <3>5. Total(V \cap T) \in {Total(U \cap T), f[y] + Total(U \cap T)}
      <4>1. CASE y \in T
        <5>1. (V \cap T) \ {y} = U \cap T /\ y \in V \cap T
          BY <3>1, <4>1
        <5>2. QED
          BY <3>1, <5>1, SumRemove
      <4>2. CASE y \notin T
        <5>1. V \cap T = U \cap T
          BY <4>2
        <5>2. QED
          BY <5>1
      <4>3. QED
        BY <4>1, <4>2
    <3> HIDE DEF Total, y, U
    <3>6. Total(V \cap T) <= Total(V)
      BY <3>3, <3>4, <3>5
    <3>7. QED
      BY <3>6 DEF Total
  <2>3. QED
    BY <2>1, <2>2
<1> HIDE DEF G
<1>2. SUBSET S \subseteq G
  BY <1>1, SubsetInduction
<1>3. S \cap T = T
  OBVIOUS
<1>4. QED
  BY <1>2, <1>3 DEF G

(* Equal summands have equal sums.                                         *)
LEMMA SumSame ==
  ASSUME NEW f, NEW g, NEW S, IsFiniteSet(S), \A x \in S : f[x] \in Int /\ f[x] = g[x]
  PROVE  SumFunctionOnSet(f, S) = SumFunctionOnSet(g, S)
<1>1. SumFunctionOnSet(f, S) \in Int /\ SumFunctionOnSet(g, S) \in Int
  BY SumIsInt
<1>2. SumFunctionOnSet(f, S) <= SumFunctionOnSet(g, S)
  BY SumAtMost
<1>3. SumFunctionOnSet(g, S) <= SumFunctionOnSet(f, S)
  BY SumAtMost
<1>4. QED
  BY <1>1, <1>2, <1>3
=============================================================================
