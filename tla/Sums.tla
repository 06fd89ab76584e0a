-------------------------------- MODULE Sums --------------------------------
(***************************************************************************)
(* What the proofs need of sums over a finite set: MapThenSumSet, which    *)
(* the modules of the registration use for SUM(credits), obeys the laws of *)
(* a sum whatever order it adds in.  The induction over finite sets is     *)
(* made with least counterexamples.                                        *)
(***************************************************************************)
EXTENDS Integers, FiniteSetsExt, FiniteSetTheorems, TLAPS

\* The sum of the weights w[x] of the elements of S.
SumOver(w, S) == MapThenSumSet(LAMBDA x : w[x], S)

\* The element the fold takes out first.
First(S) == CHOOSE x \in S : TRUE

\* g is the function the fold computes over the subsets of U.
IsFold(w, U, g) ==
    g = [T \in SUBSET U |-> IF T = {} THEN 0 ELSE w[First(T)] + g[T \ {First(T)}]]

\* Induction over finite sets: a nonempty set of subsets of a finite set has a
\* member none of whose proper subsets is in it.
LEMMA LeastSubset ==
    ASSUME NEW U, IsFiniteSet(U), NEW B \in SUBSET (SUBSET U), B # {}
    PROVE  \E T \in B : \A V \in B : V \subseteq T => V = T
  <1>1. IsWellFoundedOn(StrictSubsetOrdering(U), SUBSET U)
    BY FS_StrictSubsetOrderingWellFounded, FS_FiniteSubsetsOfFinite
  <1>2. \E T \in B : \A V \in B : ~ (<<V, T>> \in StrictSubsetOrdering(U))
    BY <1>1, WFMin
  <1>3. ASSUME NEW T \in B, NEW V \in B, V \subseteq T, V # T
        PROVE  <<V, T>> \in StrictSubsetOrdering(U)
    BY <1>3 DEF StrictSubsetOrdering
  <1>4. QED
    BY <1>2, <1>3

\* A nonempty finite set of natural numbers has a greatest element.
LEMMA GreatestNatural ==
    ASSUME NEW N, N \subseteq Nat, N # {}, IsFiniteSet(N)
    PROVE  \E m \in N : \A n \in N : n <= m
  <1> DEFINE B == {T \in SUBSET N : T # {} /\ \A n \in T, m \in N : m >= n => m \in T}
  <1>1. PICK T \in B : \A V \in B : V \subseteq T => V = T
    <2>1. B \in SUBSET (SUBSET N)
      OBVIOUS
    <2>2. N \in B
      OBVIOUS
    <2> HIDE DEF B
    <2>3. B # {}
      BY <2>2
    <2>4. IsFiniteSet(N)
      OBVIOUS
    <2>5. QED
      BY ONLY <2>1, <2>3, <2>4, LeastSubset
  <1>2. PICK m \in T : TRUE
    BY <1>1
  <1>3. ASSUME NEW n \in N, n > m PROVE FALSE
    <2> DEFINE V == {k \in N : k >= n}
    <2>1. V \in B
      BY <1>3
    <2>2. V \subseteq T
      <3> SUFFICES ASSUME NEW k \in V PROVE k \in T
        OBVIOUS
      <3>1. k \in N /\ k >= m
        BY <1>1, <1>2, <1>3
      <3>2. QED
        BY <3>1, <1>1, <1>2
    <2>3. m \notin V
      BY <1>1, <1>2, <1>3
    <2> HIDE DEF V, B
    <2>4. QED
      BY <2>1, <2>2, <2>3, <1>1, <1>2
  <1>4. QED
    BY <1>1, <1>2, <1>3

-----------------------------------------------------------------------------
(* The fold.                                                                *)

\* MapThenSumSet evaluates the recursive function of its definition.
LEMMA SumUnfolds ==
    ASSUME NEW w, NEW S
    PROVE  SumOver(w, S) = (CHOOSE g : IsFold(w, S, g))[S]
  BY DEF SumOver, MapThenSumSet, MapThenFoldSet, IsFold, First

\* The fold's recursive equation.
LEMMA FoldStep ==
    ASSUME NEW w, NEW U, NEW g, IsFold(w, U, g), NEW T \in SUBSET U
    PROVE  g[T] = IF T = {} THEN 0 ELSE w[First(T)] + g[T \ {First(T)}]
  BY DEF IsFold

LEMMA FirstIn == ASSUME NEW S, S # {} PROVE First(S) \in S
  BY DEF First

\* Two folds agree where both are defined.
LEMMA FoldUnique ==
    ASSUME NEW w, NEW U, IsFiniteSet(U), NEW V, NEW g, NEW h,
           IsFold(w, U, g), IsFold(w, V, h), NEW S \in SUBSET (U \cap V)
    PROVE  g[S] = h[S]
  <1> DEFINE B == {T \in SUBSET (U \cap V) : g[T] # h[T]}
  <1> SUFFICES ASSUME B # {} PROVE FALSE
    OBVIOUS
  <1>1. IsFiniteSet(U \cap V) /\ B \in SUBSET (SUBSET (U \cap V))
    BY FS_Intersection
  <1>2. PICK T \in B : \A W \in B : W \subseteq T => W = T
    <2> HIDE DEF B
    <2>1. QED
      BY <1>1, LeastSubset
  <1>3. T # {} => T \ {First(T)} \notin B
    BY <1>2, FirstIn
  <1>4. T # {} => g[T \ {First(T)}] = h[T \ {First(T)}]
    BY <1>2, <1>3
  <1>5. T \in SUBSET U /\ T \in SUBSET V
    BY <1>2
  <1>6. g[T] = IF T = {} THEN 0 ELSE w[First(T)] + g[T \ {First(T)}]
    BY <1>5, FoldStep
  <1>7. h[T] = IF T = {} THEN 0 ELSE w[First(T)] + h[T \ {First(T)}]
    BY <1>5, FoldStep
  <1>8. QED
    BY <1>2, <1>4, <1>6, <1>7

\* Over a finite set the fold exists.
LEMMA FoldExists ==
    ASSUME NEW w, NEW U, IsFiniteSet(U)
    PROVE  \E g : IsFold(w, U, g)
  <1> DEFINE Defined(T) == \E g : IsFold(w, T, g)
             B == {T \in SUBSET U : ~ Defined(T)}
  <1> SUFFICES ASSUME B # {} PROVE FALSE
    OBVIOUS
  <1>1. PICK T \in B : \A W \in B : W \subseteq T => W = T
    <2>1. B \in SUBSET (SUBSET U)
      OBVIOUS
    <2> HIDE DEF B
    <2>2. QED
      BY <2>1, LeastSubset
  <1>2. \A W \in SUBSET T : W # T => Defined(W)
    BY <1>1
  <1> DEFINE g == [W \in SUBSET T |->
                     IF W = T /\ T # {} THEN w[First(T)] + SumOver(w, T \ {First(T)})
                     ELSE SumOver(w, W)]
  <1>3. ASSUME NEW W \in SUBSET T, W # T \/ T = {}
        PROVE  SumOver(w, W) = IF W = {} THEN 0 ELSE w[First(W)] + SumOver(w, W \ {First(W)})
    <2>1. PICK h : h = CHOOSE f : IsFold(w, W, f)
      OBVIOUS
    <2>2. IsFold(w, W, h)
      <3>1. CASE W # T
        BY <1>2, <2>1, <3>1
      <3>2. CASE W = T /\ T = {}
        <4>1. IsFold(w, W, [V \in SUBSET W |-> 0])
          BY <3>2 DEF IsFold
        <4>2. QED
          BY <4>1, <2>1
      <3>3. QED
        BY <1>3, <3>1, <3>2
    <2>3. SumOver(w, W) = h[W]
      BY <2>1, SumUnfolds
    <2>4. h[W] = IF W = {} THEN 0 ELSE w[First(W)] + h[W \ {First(W)}]
      BY <2>2, FoldStep
    <2>5. ASSUME W # {} PROVE h[W \ {First(W)}] = SumOver(w, W \ {First(W)})
      <3> DEFINE V == W \ {First(W)}
      <3>1. V \in SUBSET T /\ V # T /\ V \in SUBSET W
        BY <2>5, FirstIn
      <3>2. PICK k : k = CHOOSE f : IsFold(w, V, f)
        OBVIOUS
      <3>3. IsFold(w, V, k)
        BY <3>1, <3>2, <1>2
      <3>4. IsFiniteSet(W)
        BY FS_Subset, <1>1
      <3>5. h[V] = k[V]
        BY <2>2, <3>1, <3>3, <3>4, FoldUnique
      <3>6. QED
        BY <3>2, <3>5, SumUnfolds
    <2>6. QED
      BY <2>3, <2>4, <2>5
  <1>4. IsFold(w, T, g)
    <2>1. ASSUME NEW W \in SUBSET T
          PROVE  g[W] = IF W = {} THEN 0 ELSE w[First(W)] + g[W \ {First(W)}]
      <3>1. W # {} => /\ W \ {First(W)} \in SUBSET T
                      /\ W \ {First(W)} # T
        BY FirstIn
      <3>2. W # {} => g[W \ {First(W)}] = SumOver(w, W \ {First(W)})
        BY <3>1
      <3>3. CASE W = T /\ T # {}
        BY <3>2, <3>3
      <3>4. CASE W # T \/ T = {}
        BY <3>2, <3>4, <1>3
      <3>5. QED
        BY <3>3, <3>4
    <2>2. QED
      BY <2>1 DEF IsFold
  <1>5. QED
    BY <1>1, <1>4

\* The sum over a finite set is the sum over the rest and the first element.
LEMMA SumStep ==
    ASSUME NEW w, NEW S, IsFiniteSet(S)
    PROVE  SumOver(w, S) = IF S = {} THEN 0 ELSE w[First(S)] + SumOver(w, S \ {First(S)})
  <1>1. PICK g : g = CHOOSE f : IsFold(w, S, f)
    OBVIOUS
  <1>2. IsFold(w, S, g)
    BY <1>1, FoldExists
  <1>3. SumOver(w, S) = g[S]
    BY <1>1, SumUnfolds
  <1>4. g[S] = IF S = {} THEN 0 ELSE w[First(S)] + g[S \ {First(S)}]
    BY <1>2 DEF IsFold
  <1>5. ASSUME S # {} PROVE g[S \ {First(S)}] = SumOver(w, S \ {First(S)})
    <2> DEFINE V == S \ {First(S)}
    <2>1. PICK k : k = CHOOSE f : IsFold(w, V, f)
      OBVIOUS
    <2>2. IsFiniteSet(V)
      BY FS_Subset
    <2>3. IsFold(w, V, k)
      BY <2>1, <2>2, FoldExists
    <2>4. V \in SUBSET (S \cap V)
      OBVIOUS
    <2>5. g[V] = k[V]
      BY <1>2, <2>3, <2>4, FoldUnique
    <2>6. QED
      BY <2>1, <2>5, SumUnfolds
  <1>6. QED
    BY <1>3, <1>4, <1>5

-----------------------------------------------------------------------------
(* The laws of the sum.                                                     *)

\* Nothing sums to zero.
LEMMA SumEmpty == ASSUME NEW w PROVE SumOver(w, {}) = 0
  BY SumStep, FS_EmptySet

\* A finite sum of natural numbers is a natural number.
LEMMA SumType ==
    ASSUME NEW C, NEW w \in [C -> Nat], NEW S \in SUBSET C, IsFiniteSet(S)
    PROVE  SumOver(w, S) \in Nat
  <1> DEFINE B == {T \in SUBSET S : SumOver(w, T) \notin Nat}
  <1> SUFFICES ASSUME B # {} PROVE FALSE
    OBVIOUS
  <1>1. PICK T \in B : \A W \in B : W \subseteq T => W = T
    <2>1. B \in SUBSET (SUBSET S)
      OBVIOUS
    <2> HIDE DEF B
    <2>2. QED
      BY <2>1, LeastSubset
  <1>2. IsFiniteSet(T)
    BY <1>1, FS_Subset
  <1>3. SumOver(w, T) = IF T = {} THEN 0 ELSE w[First(T)] + SumOver(w, T \ {First(T)})
    BY <1>2, SumStep
  <1>4. T # {} => First(T) \in C /\ SumOver(w, T \ {First(T)}) \in Nat
    BY <1>1, FirstIn
  <1>5. T # {} => w[First(T)] \in Nat
    BY <1>4
  <1>6. SumOver(w, T) \in Nat
    BY <1>3, <1>4, <1>5
  <1>7. QED
    BY <1>1, <1>6

\* The sum does not depend on which element is taken out first.
LEMMA SumRemove ==
    ASSUME NEW C, NEW w \in [C -> Nat], NEW S \in SUBSET C, IsFiniteSet(S), NEW x \in S
    PROVE  SumOver(w, S) = w[x] + SumOver(w, S \ {x})
  <1> DEFINE Agrees(T) == \A y \in T : SumOver(w, T) = w[y] + SumOver(w, T \ {y})
             B == {T \in SUBSET S : ~ Agrees(T)}
  <1> SUFFICES ASSUME B # {} PROVE FALSE
    OBVIOUS
  <1>1. PICK T \in B : \A W \in B : W \subseteq T => W = T
    <2>1. B \in SUBSET (SUBSET S)
      OBVIOUS
    <2> HIDE DEF B
    <2>2. QED
      BY <2>1, LeastSubset
  <1>2. PICK y \in T : SumOver(w, T) # w[y] + SumOver(w, T \ {y})
    BY <1>1
  <1> DEFINE f == First(T)
             R == (T \ {f}) \ {y}
  <1>3. IsFiniteSet(T) /\ T \subseteq S /\ f \in T
    BY <1>1, <1>2, FirstIn, FS_Subset
  <1>4. SumOver(w, T) = w[f] + SumOver(w, T \ {f})
    BY <1>2, <1>3, SumStep
  <1>5. y # f
    BY <1>2, <1>4
  <1>6. Agrees(T \ {f}) /\ Agrees(T \ {y})
    BY <1>1, <1>2, <1>3
  <1>7. SumOver(w, T \ {f}) = w[y] + SumOver(w, R)
    BY <1>2, <1>5, <1>6
  <1>8. SumOver(w, T \ {y}) = w[f] + SumOver(w, R)
    <2>1. (T \ {y}) \ {f} = R
      OBVIOUS
    <2>2. f \in T \ {y}
      BY <1>3, <1>5
    <2>3. QED
      BY <1>6, <2>1, <2>2
  <1>9. w[y] \in Nat /\ w[f] \in Nat /\ SumOver(w, R) \in Nat
    <2>1. R \in SUBSET C /\ IsFiniteSet(R)
      BY <1>3, FS_Subset
    <2>2. QED
      BY <1>2, <1>3, <2>1, SumType
  <1>10. QED
    BY <1>2, <1>4, <1>7, <1>8, <1>9

\* Adding a new element adds its weight.
LEMMA SumAdd ==
    ASSUME NEW C, NEW w \in [C -> Nat], NEW S \in SUBSET C, IsFiniteSet(S),
           NEW x \in C, x \notin S
    PROVE  SumOver(w, S \cup {x}) = SumOver(w, S) + w[x]
  <1>1. IsFiniteSet(S \cup {x}) /\ S \cup {x} \in SUBSET C /\ (S \cup {x}) \ {x} = S
    BY FS_AddElement
  <1>2. SumOver(w, S \cup {x}) = w[x] + SumOver(w, (S \cup {x}) \ {x})
    BY <1>1, SumRemove
  <1>3. SumOver(w, S) \in Nat /\ w[x] \in Nat
    BY SumType
  <1>4. SumOver(w, S \cup {x}) = w[x] + SumOver(w, S)
    BY <1>1, <1>2, Zenon
  <1>5. QED
    BY <1>3, <1>4
=============================================================================
