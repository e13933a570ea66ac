----------------------------- MODULE FiniteSums -----------------------------
(***************************************************************************)
(* Facts about finite sets of numbers and about sums over finite sets, for  *)
(* the proofs about the components.  The provers have no induction; a       *)
(* smallest counterexample takes its place, which exists because the finite *)
(* sets are well ordered by strict inclusion.                               *)
(***************************************************************************)
EXTENDS Integers, Functions, FiniteSetTheorems, TLAPS

\* A set of numbers has a least one: the initial segments are finite sets, which
\* strict inclusion orders well.
LEMMA LeastOf ==
    ASSUME NEW S, S \subseteq Nat, S # {}
    PROVE  \E x \in S : \A y \in S : x <= y
<1> DEFINE Upto == {0..n : n \in S}
<1>1. Upto \subseteq FiniteSubsetsOf(Nat) /\ Upto # {}
  <2>1. \A n \in Nat : IsFiniteSet(0..n) /\ 0..n \in SUBSET Nat
    BY FS_Interval
  <2> QED
    BY <2>1 DEF FiniteSubsetsOf
<1>2. IsWellFoundedOn(StrictSubsetOrdering(Nat), FiniteSubsetsOf(Nat))
  BY FS_StrictSubsetOrderingWellFounded
<1>3. \E U \in Upto : \A V \in Upto : ~(<<V, U>> \in StrictSubsetOrdering(Nat))
  <2> HIDE DEF Upto
  <2> QED
    BY <1>1, <1>2, WFMin
<1>4. PICK x \in S : \A y \in S : ~(<<0..y, 0..x>> \in StrictSubsetOrdering(Nat))
  BY <1>3
<1>5. ASSUME NEW y \in S, y < x
      PROVE  <<0..y, 0..x>> \in StrictSubsetOrdering(Nat)
  <2>1. x \in Nat /\ y \in Nat /\ x \in 0..x /\ x \notin 0..y /\ 0..y \subseteq 0..x
    BY <1>5
  <2>2. 0..y \in SUBSET Nat /\ 0..x \in SUBSET Nat
    BY <2>1
  <2> QED
    BY <2>1, <2>2 DEF StrictSubsetOrdering
<1>6. \A y \in S : ~(y < x)
  BY <1>4, <1>5
<1>7. x \in Nat /\ \A y \in S : y \in Nat
  OBVIOUS
<1>8. \A y \in S : x <= y
  BY <1>6, <1>7
<1> QED
  BY <1>8

\* A finite interval's subsets have a greatest element too.
LEMMA GreatestOf ==
    ASSUME NEW n \in Nat, NEW S \in SUBSET (0..n), S # {}
    PROVE  \E x \in S : \A y \in S : y <= x
<1> DEFINE T == {n - y : y \in S}
<1>1. T \subseteq Nat /\ T # {}
  <2>1. \A y \in S : n - y \in Nat
    OBVIOUS
  <2>2. \E y \in S : TRUE
    OBVIOUS
  <2> QED
    BY <2>1, <2>2
<1>2. PICK m \in T : \A u \in T : m <= u
  <2> HIDE DEF T
  <2> QED
    BY <1>1, LeastOf
<1>3. PICK x \in S : m = n - x
  OBVIOUS
<1>4. \A y \in S : n - x <= n - y
  BY <1>2, <1>3
<1>5. \A y \in S : y <= x
  <2>1. ASSUME NEW y \in S
        PROVE  y <= x
    <3>1. x \in Nat /\ y \in Nat /\ n - x <= n - y
      BY <1>4
    <3> QED
      BY <3>1
  <2> QED
    BY <2>1
<1> QED
  BY <1>5

\* A set of finite sets has a minimal one.
LEMMA MinimalSet ==
    ASSUME NEW S, IsFiniteSet(S), NEW W \in SUBSET (SUBSET S), W # {}
    PROVE  \E U \in W : \A V \in W : V \subseteq U => V = U
<1>1. W \subseteq FiniteSubsetsOf(S)
  BY FS_FiniteSubsetsOfFinite
<1>2. IsWellFoundedOn(StrictSubsetOrdering(S), FiniteSubsetsOf(S))
  BY FS_StrictSubsetOrderingWellFounded
<1>3. PICK U \in W : \A V \in W : ~(<<V, U>> \in StrictSubsetOrdering(S))
  BY <1>1, <1>2, WFMin
<1>4. ASSUME NEW V \in W, V \subseteq U, V # U
      PROVE  FALSE
  BY <1>3, <1>4 DEF StrictSubsetOrdering
<1> QED
  BY <1>4

-----------------------------------------------------------------------------
\* The sum of SumFunctionOnSet(f, S) is computed by a function g on the subsets of S.
Pick(s) == CHOOSE x \in s : TRUE
Adds(f, S, g) ==
    g = [s \in SUBSET S |-> IF s = {} THEN 0 ELSE f[Pick(s)] + g[s \ {Pick(s)}]]

LEMMA AddsStep ==
    ASSUME NEW f, NEW S, NEW g, Adds(f, S, g), NEW U \in SUBSET S
    PROVE  /\ U = {} => g[U] = 0
           /\ U # {} => g[U] = f[Pick(U)] + g[U \ {Pick(U)}]
<1> DEFINE e == [s \in SUBSET S |-> IF s = {} THEN 0 ELSE f[Pick(s)] + g[s \ {Pick(s)}]]
<1>1. g = e
  BY DEF Adds
<1>2. e[U] = IF U = {} THEN 0 ELSE f[Pick(U)] + g[U \ {Pick(U)}]
  OBVIOUS
<1> HIDE DEF e
<1> QED
  BY <1>1, <1>2

LEMMA PickIn ==
    ASSUME NEW U, U # {}
    PROVE  Pick(U) \in U
BY DEF Pick

\* Where two of these functions are both defined they agree.
LEMMA AddsUnique ==
    ASSUME NEW f, NEW S, NEW T, IsFiniteSet(S), NEW g, NEW h, Adds(f, S, g), Adds(f, T, h)
    PROVE  \A U \in SUBSET (S \cap T) : g[U] = h[U]
<1> DEFINE Bad == {U \in SUBSET (S \cap T) : g[U] # h[U]}
<1>1. SUFFICES ASSUME Bad # {}
               PROVE  FALSE
  OBVIOUS
<1>2. PICK U \in Bad : \A V \in Bad : V \subseteq U => V = U
  <2>1. Bad \in SUBSET (SUBSET S)
    OBVIOUS
  <2> HIDE DEF Bad
  <2> QED
    BY <1>1, <2>1, MinimalSet
<1>3. U \in SUBSET S /\ U \in SUBSET T /\ g[U] # h[U]
  OBVIOUS
<1>4. U # {}
  BY <1>3, AddsStep
<1>5. Pick(U) \in U
  BY <1>4, PickIn
<1>6. g[U \ {Pick(U)}] = h[U \ {Pick(U)}]
  BY <1>2, <1>3, <1>5
<1>7. g[U] = f[Pick(U)] + g[U \ {Pick(U)}] /\ h[U] = f[Pick(U)] + h[U \ {Pick(U)}]
  BY <1>3, <1>4, AddsStep
<1> QED
  BY <1>3, <1>6, <1>7

LEMMA AddsExists ==
    ASSUME NEW f, NEW S, IsFiniteSet(S)
    PROVE  \E g : Adds(f, S, g)
<1> DEFINE Bad == {U \in SUBSET S : ~\E g : Adds(f, U, g)}
<1>1. SUFFICES ASSUME Bad # {}
               PROVE  FALSE
  OBVIOUS
<1>2. PICK U \in Bad : \A V \in Bad : V \subseteq U => V = U
  <2>1. Bad \in SUBSET (SUBSET S)
    OBVIOUS
  <2> HIDE DEF Bad
  <2> QED
    BY <1>1, <2>1, MinimalSet
<1>3. U \in SUBSET S /\ ~\E g : Adds(f, U, g)
  OBVIOUS
<1> DEFINE G(V) == CHOOSE g : Adds(f, V, g)
<1>4. ASSUME NEW V \in SUBSET U, V # U
      PROVE  Adds(f, V, G(V)) /\ IsFiniteSet(V)
  <2>1. \E g : Adds(f, V, g)
    BY <1>2, <1>3, <1>4
  <2>2. IsFiniteSet(V)
    BY <1>3, FS_Subset
  <2> QED
    BY <2>1, <2>2
<1> DEFINE g == [s \in SUBSET U |-> IF s = {} THEN 0
                                    ELSE f[Pick(s)] + G(s \ {Pick(s)})[s \ {Pick(s)}]]
<1> HIDE DEF G
<1>5. ASSUME NEW V \in SUBSET U, V # U
      PROVE  g[V] = G(V)[V]
  <2>1. Adds(f, V, G(V)) /\ IsFiniteSet(V) /\ V \in SUBSET V
    BY <1>4, <1>5
  <2>2. CASE V = {}
    <3>1. g[V] = 0
      BY <2>2
    <3>2. G(V)[V] = 0
      <4> HIDE DEF g
      <4> QED
        BY <2>1, <2>2, AddsStep
    <3> QED
      BY <3>1, <3>2
  <2>3. CASE V # {}
    <3> DEFINE R == V \ {Pick(V)}
    <3>1. Pick(V) \in V
      BY <2>3, PickIn
    <3>2. g[V] = f[Pick(V)] + G(R)[R]
      BY <2>3
    <3> HIDE DEF g
    <3>3. R \in SUBSET U /\ R # U /\ R \subseteq V
      BY <1>5, <3>1
    <3>4. Adds(f, R, G(R))
      BY <1>4, <3>3
    <3>5. G(V)[V] = f[Pick(V)] + G(V)[R]
      BY <2>1, <2>3, AddsStep
    <3>6. R \in SUBSET (V \cap R)
      BY <3>3
    <3> HIDE DEF R
    <3>7. G(V)[R] = G(R)[R]
      BY <2>1, <3>4, <3>6, AddsUnique
    <3> QED
      BY <3>2, <3>5, <3>7
  <2> QED
    BY <2>2, <2>3
<1>6. Adds(f, U, g)
  <2> DEFINE e == [s \in SUBSET U |-> IF s = {} THEN 0 ELSE f[Pick(s)] + g[s \ {Pick(s)}]]
  <2>1. ASSUME NEW s \in SUBSET U
        PROVE  g[s] = e[s]
    <3>1. CASE s = {}
      BY <3>1
    <3>2. CASE s # {}
      <4>1. Pick(s) \in s
        BY <3>2, PickIn
      <4>2. s \ {Pick(s)} \in SUBSET U /\ s \ {Pick(s)} # U
        BY <4>1
      <4>3. g[s \ {Pick(s)}] = G(s \ {Pick(s)})[s \ {Pick(s)}]
        <5> HIDE DEF g
        <5> QED
          BY <1>5, <4>2
      <4>4. g[s] = f[Pick(s)] + G(s \ {Pick(s)})[s \ {Pick(s)}]
        BY <3>2
      <4>5. e[s] = f[Pick(s)] + g[s \ {Pick(s)}]
        <5> HIDE DEF g
        <5> QED
          BY <3>2
      <4> HIDE DEF e, g
      <4> QED
        BY <4>3, <4>4, <4>5
    <3> QED
      BY <3>1, <3>2
  <2>2. g = [s \in SUBSET U |-> g[s]] /\ e = [s \in SUBSET U |-> e[s]]
    OBVIOUS
  <2>3. g = e
    <3> HIDE DEF g, e
    <3> QED
      BY <2>1, <2>2
  <2> HIDE DEF g
  <2> QED
    BY <2>3 DEF Adds
<1> QED
  BY <1>3, <1>6

-----------------------------------------------------------------------------
\* A sum is taken apart at one element.
LEMMA SumStep ==
    ASSUME NEW f, NEW S, IsFiniteSet(S)
    PROVE  /\ S = {} => SumFunctionOnSet(f, S) = 0
           /\ S # {} => SumFunctionOnSet(f, S)
                          = f[Pick(S)] + SumFunctionOnSet(f, S \ {Pick(S)})
<1> DEFINE G(T) == CHOOSE g : Adds(f, T, g)
<1>1. \A T : SumFunctionOnSet(f, T) = G(T)[T]
  BY DEF SumFunctionOnSet, FoldFunctionOnSet, MapThenFoldSet, Adds, Pick
<1>2. \A T : IsFiniteSet(T) => Adds(f, T, G(T))
  BY AddsExists
<1> HIDE DEF G
<1>3. S = {} => G(S)[S] = 0
  BY <1>2, AddsStep
<1>4. ASSUME S # {}
      PROVE  G(S)[S] = f[Pick(S)] + G(S \ {Pick(S)})[S \ {Pick(S)}]
  <2> DEFINE R == S \ {Pick(S)}
  <2>1. IsFiniteSet(R) /\ R \in SUBSET (S \cap R)
    BY FS_Subset
  <2>2. G(S)[S] = f[Pick(S)] + G(S)[R]
    BY <1>2, <1>4, AddsStep
  <2> HIDE DEF R
  <2>3. G(S)[R] = G(R)[R]
    BY <1>2, <2>1, AddsUnique
  <2> QED
    BY <2>2, <2>3 DEF R
<1> QED
  BY <1>1, <1>3, <1>4

\* A sum of numbers is a number.
LEMMA SumType ==
    ASSUME NEW f, NEW S, IsFiniteSet(S), \A x \in S : f[x] \in Nat
    PROVE  SumFunctionOnSet(f, S) \in Nat
<1> DEFINE Bad == {U \in SUBSET S : SumFunctionOnSet(f, U) \notin Nat}
<1>1. SUFFICES ASSUME Bad # {}
               PROVE  FALSE
  OBVIOUS
<1>2. PICK U \in Bad : \A V \in Bad : V \subseteq U => V = U
  <2>1. Bad \in SUBSET (SUBSET S)
    OBVIOUS
  <2> HIDE DEF Bad
  <2> QED
    BY <1>1, <2>1, MinimalSet
<1>3. U \in SUBSET S /\ SumFunctionOnSet(f, U) \notin Nat
  OBVIOUS
<1>4. IsFiniteSet(U)
  BY <1>3, FS_Subset
<1>5. U # {}
  <2>1. U = {} => SumFunctionOnSet(f, U) = 0
    BY <1>4, SumStep
  <2> QED
    BY <1>3, <2>1
<1>6. Pick(U) \in U
  BY <1>5, PickIn
<1>7. SumFunctionOnSet(f, U \ {Pick(U)}) \in Nat
  BY <1>2, <1>3, <1>6
<1>8. SumFunctionOnSet(f, U) = f[Pick(U)] + SumFunctionOnSet(f, U \ {Pick(U)})
  BY <1>4, <1>5, SumStep
<1>9. f[Pick(U)] \in Nat
  BY <1>3, <1>6
<1> QED
  BY <1>3, <1>7, <1>8, <1>9

\* Which element a sum is taken apart at makes no difference.
LEMMA SumRemove ==
    ASSUME NEW f, NEW S, IsFiniteSet(S), \A x \in S : f[x] \in Nat, NEW z \in S
    PROVE  SumFunctionOnSet(f, S) = f[z] + SumFunctionOnSet(f, S \ {z})
<1> DEFINE Bad == {U \in SUBSET S : \E x \in U :
                     SumFunctionOnSet(f, U) # f[x] + SumFunctionOnSet(f, U \ {x})}
<1>1. SUFFICES ASSUME Bad # {}
               PROVE  FALSE
  OBVIOUS
<1>2. PICK U \in Bad : \A V \in Bad : V \subseteq U => V = U
  <2>1. Bad \in SUBSET (SUBSET S)
    OBVIOUS
  <2> HIDE DEF Bad
  <2> QED
    BY <1>1, <2>1, MinimalSet
<1>3. U \in SUBSET S
  OBVIOUS
<1>4. PICK x \in U : SumFunctionOnSet(f, U) # f[x] + SumFunctionOnSet(f, U \ {x})
  OBVIOUS
<1>5. \A V \in SUBSET S : IsFiniteSet(V) /\ SumFunctionOnSet(f, V) \in Nat
  <2>1. \A V \in SUBSET S : IsFiniteSet(V) /\ \A y \in V : f[y] \in Nat
    BY FS_Subset
  <2> QED
    BY <2>1, SumType
<1>6. Pick(U) \in U
  BY <1>4, PickIn
<1>7. SumFunctionOnSet(f, U) = f[Pick(U)] + SumFunctionOnSet(f, U \ {Pick(U)})
  BY <1>3, <1>4, <1>5, SumStep
<1>8. x # Pick(U)
  BY <1>4, <1>7
<1>9. \A V \in SUBSET S : V \subseteq U /\ V # U =>
        \A y \in V : SumFunctionOnSet(f, V) = f[y] + SumFunctionOnSet(f, V \ {y})
  BY <1>2
<1> HIDE DEF Bad
<1> DEFINE P == U \ {Pick(U)}
           X == U \ {x}
<1>10. P \in SUBSET S /\ P \subseteq U /\ P # U /\ x \in P
  BY <1>3, <1>4, <1>6, <1>8
<1>11. X \in SUBSET S /\ X \subseteq U /\ X # U /\ Pick(U) \in X
  BY <1>3, <1>4, <1>6, <1>8
<1>12. P \ {x} = X \ {Pick(U)} /\ P \ {x} \in SUBSET S
  BY <1>3
<1> HIDE DEF P, X
<1>13. SumFunctionOnSet(f, P) = f[x] + SumFunctionOnSet(f, P \ {x})
  BY <1>9, <1>10
<1>14. SumFunctionOnSet(f, X) = f[Pick(U)] + SumFunctionOnSet(f, P \ {x})
  BY <1>9, <1>11, <1>12
<1>15. f[x] \in Nat /\ f[Pick(U)] \in Nat /\ SumFunctionOnSet(f, P \ {x}) \in Nat
  BY <1>3, <1>4, <1>5, <1>6, <1>12
<1>16. /\ SumFunctionOnSet(f, U) = f[Pick(U)] + SumFunctionOnSet(f, P)
       /\ SumFunctionOnSet(f, U) # f[x] + SumFunctionOnSet(f, X)
  BY <1>4, <1>7 DEF P, X
<1> QED
  BY <1>13, <1>14, <1>15, <1>16

\* Functions that agree on a set have the same sum over it.
LEMMA SumAgree ==
    ASSUME NEW f, NEW g, NEW S, IsFiniteSet(S), \A x \in S : f[x] = g[x]
    PROVE  SumFunctionOnSet(f, S) = SumFunctionOnSet(g, S)
<1> DEFINE Bad == {U \in SUBSET S : SumFunctionOnSet(f, U) # SumFunctionOnSet(g, U)}
<1>1. SUFFICES ASSUME Bad # {}
               PROVE  FALSE
  OBVIOUS
<1>2. PICK U \in Bad : \A V \in Bad : V \subseteq U => V = U
  <2>1. Bad \in SUBSET (SUBSET S)
    OBVIOUS
  <2> HIDE DEF Bad
  <2> QED
    BY <1>1, <2>1, MinimalSet
<1>3. U \in SUBSET S /\ SumFunctionOnSet(f, U) # SumFunctionOnSet(g, U)
  OBVIOUS
<1>4. IsFiniteSet(U)
  BY <1>3, FS_Subset
<1>5. U # {}
  BY <1>3, <1>4, SumStep
<1>6. Pick(U) \in U
  BY <1>5, PickIn
<1>7. SumFunctionOnSet(f, U \ {Pick(U)}) = SumFunctionOnSet(g, U \ {Pick(U)})
  BY <1>2, <1>3, <1>6
<1>8. /\ SumFunctionOnSet(f, U) = f[Pick(U)] + SumFunctionOnSet(f, U \ {Pick(U)})
      /\ SumFunctionOnSet(g, U) = g[Pick(U)] + SumFunctionOnSet(g, U \ {Pick(U)})
  BY <1>4, <1>5, SumStep
<1> QED
  BY <1>3, <1>6, <1>7, <1>8

LEMMA SumZero ==
    ASSUME NEW f, NEW S, IsFiniteSet(S), \A x \in S : f[x] = 0
    PROVE  SumFunctionOnSet(f, S) = 0
<1> DEFINE Bad == {U \in SUBSET S : SumFunctionOnSet(f, U) # 0}
<1>1. SUFFICES ASSUME Bad # {}
               PROVE  FALSE
  OBVIOUS
<1>2. PICK U \in Bad : \A V \in Bad : V \subseteq U => V = U
  <2>1. Bad \in SUBSET (SUBSET S)
    OBVIOUS
  <2> HIDE DEF Bad
  <2> QED
    BY <1>1, <2>1, MinimalSet
<1>3. U \in SUBSET S /\ SumFunctionOnSet(f, U) # 0 /\ IsFiniteSet(U)
  BY FS_Subset
<1>4. U # {} /\ Pick(U) \in U
  BY <1>3, SumStep, PickIn
<1>5. SumFunctionOnSet(f, U \ {Pick(U)}) = 0
  BY <1>2, <1>3, <1>4
<1>6. SumFunctionOnSet(f, U) = f[Pick(U)] + SumFunctionOnSet(f, U \ {Pick(U)})
  BY <1>3, <1>4, SumStep
<1> QED
  BY <1>3, <1>4, <1>5, <1>6

\* No term exceeds the sum.
LEMMA SumAtLeast ==
    ASSUME NEW f, NEW S, IsFiniteSet(S), \A x \in S : f[x] \in Nat, NEW z \in S
    PROVE  f[z] <= SumFunctionOnSet(f, S)
<1>1. SumFunctionOnSet(f, S \ {z}) \in Nat
  <2>1. IsFiniteSet(S \ {z}) /\ \A x \in S \ {z} : f[x] \in Nat
    BY FS_Subset
  <2> QED
    BY <2>1, SumType
<1>2. SumFunctionOnSet(f, S) = f[z] + SumFunctionOnSet(f, S \ {z})
  BY SumRemove
<1> QED
  BY <1>1, <1>2

\* A sum changes with the one term that does.
LEMMA SumChange ==
    ASSUME NEW f, NEW g, NEW S, IsFiniteSet(S), NEW z \in S,
           \A x \in S : f[x] \in Nat /\ g[x] \in Nat,
           \A x \in S \ {z} : f[x] = g[x]
    PROVE  SumFunctionOnSet(g, S) = SumFunctionOnSet(f, S) + g[z] - f[z]
<1>1. IsFiniteSet(S \ {z}) /\ \A x \in S \ {z} : f[x] \in Nat
  BY FS_Subset
<1>2. SumFunctionOnSet(f, S \ {z}) \in Nat
  BY <1>1, SumType
<1>3. SumFunctionOnSet(f, S \ {z}) = SumFunctionOnSet(g, S \ {z})
  BY <1>1, SumAgree
<1>4. /\ SumFunctionOnSet(f, S) = f[z] + SumFunctionOnSet(f, S \ {z})
      /\ SumFunctionOnSet(g, S) = g[z] + SumFunctionOnSet(g, S \ {z})
  BY SumRemove
<1> QED
  BY <1>2, <1>3, <1>4

LEMMA SumSingleton ==
    ASSUME NEW f, NEW z, f[z] \in Nat
    PROVE  SumFunctionOnSet(f, {z}) = f[z]
<1>1. SumFunctionOnSet(f, {}) = 0
  BY FS_EmptySet, SumStep
<1>2. IsFiniteSet({z}) /\ {z} \ {z} = {}
  BY FS_Singleton
<1>3. SumFunctionOnSet(f, {z}) = f[z] + SumFunctionOnSet(f, {z} \ {z})
  BY <1>2, SumRemove
<1> QED
  BY <1>1, <1>2, <1>3

\* The sum over a part does not exceed the sum over the whole.
LEMMA SumSubset ==
    ASSUME NEW f, NEW S, IsFiniteSet(S), \A x \in S : f[x] \in Nat, NEW T \in SUBSET S
    PROVE  SumFunctionOnSet(f, T) <= SumFunctionOnSet(f, S)
<1> DEFINE Bad == {U \in SUBSET S : T \subseteq U
                     /\ ~(SumFunctionOnSet(f, T) <= SumFunctionOnSet(f, U))}
<1>1. SUFFICES ASSUME Bad # {}
               PROVE  FALSE
  OBVIOUS
<1>2. PICK U \in Bad : \A V \in Bad : V \subseteq U => V = U
  <2>1. Bad \in SUBSET (SUBSET S)
    OBVIOUS
  <2> HIDE DEF Bad
  <2> QED
    BY <1>1, <2>1, MinimalSet
<1>3. /\ U \in SUBSET S /\ T \subseteq U
      /\ ~(SumFunctionOnSet(f, T) <= SumFunctionOnSet(f, U))
  OBVIOUS
<1>4. \A V \in SUBSET S : IsFiniteSet(V) /\ SumFunctionOnSet(f, V) \in Nat
  <2>1. \A V \in SUBSET S : IsFiniteSet(V) /\ \A y \in V : f[y] \in Nat
    BY FS_Subset
  <2> QED
    BY <2>1, SumType
<1>5. PICK z \in U : z \notin T
  <2>1. T # U
    BY <1>3, <1>4
  <2> QED
    BY <1>3, <2>1
<1> DEFINE R == U \ {z}
<1>6. R \in SUBSET S /\ T \subseteq R /\ R \subseteq U /\ R # U
  BY <1>3, <1>5
<1>7. SumFunctionOnSet(f, T) <= SumFunctionOnSet(f, R)
  BY <1>2, <1>6
<1>8. SumFunctionOnSet(f, U) = f[z] + SumFunctionOnSet(f, R) /\ f[z] \in Nat
  BY <1>3, <1>4, SumRemove
<1> HIDE DEF Bad, R
<1> QED
  BY <1>3, <1>4, <1>6, <1>7, <1>8

\* When no term of a sum exceeds the term of another, or twice it, neither does the sum.
LEMMA SumBelow ==
    ASSUME NEW f, NEW g, NEW S, IsFiniteSet(S), NEW m \in {1, 2},
           \A x \in S : f[x] \in Nat /\ g[x] \in Nat /\ f[x] <= m * g[x]
    PROVE  SumFunctionOnSet(f, S) <= m * SumFunctionOnSet(g, S)
<1> DEFINE Bad == {U \in SUBSET S : ~(SumFunctionOnSet(f, U) <= m * SumFunctionOnSet(g, U))}
<1>1. SUFFICES ASSUME Bad # {}
               PROVE  FALSE
  OBVIOUS
<1>2. PICK U \in Bad : \A V \in Bad : V \subseteq U => V = U
  <2>1. Bad \in SUBSET (SUBSET S)
    OBVIOUS
  <2> HIDE DEF Bad
  <2> QED
    BY <1>1, <2>1, MinimalSet
<1>3. U \in SUBSET S /\ ~(SumFunctionOnSet(f, U) <= m * SumFunctionOnSet(g, U))
  OBVIOUS
<1>4. \A V \in SUBSET S : /\ IsFiniteSet(V)
                          /\ SumFunctionOnSet(f, V) \in Nat /\ SumFunctionOnSet(g, V) \in Nat
  <2>1. \A V \in SUBSET S : IsFiniteSet(V) /\ \A y \in V : f[y] \in Nat /\ g[y] \in Nat
    BY FS_Subset
  <2> QED
    BY <2>1, SumType
<1>5. U # {}
  <2>1. U = {} => SumFunctionOnSet(f, U) = 0 /\ SumFunctionOnSet(g, U) = 0
    BY <1>3, <1>4, SumStep
  <2> QED
    BY <1>3, <2>1
<1> DEFINE z == Pick(U)
           R == U \ {z}
<1>6. z \in U /\ R \in SUBSET S /\ R \subseteq U /\ R # U
  BY <1>3, <1>5, PickIn
<1>7. SumFunctionOnSet(f, R) <= m * SumFunctionOnSet(g, R)
  BY <1>2, <1>6
<1>8. /\ SumFunctionOnSet(f, U) = f[z] + SumFunctionOnSet(f, R)
      /\ SumFunctionOnSet(g, U) = g[z] + SumFunctionOnSet(g, R)
  BY <1>3, <1>4, <1>5, SumStep
<1>9. f[z] \in Nat /\ g[z] \in Nat /\ f[z] <= m * g[z]
  BY <1>3, <1>6
<1>10. SumFunctionOnSet(f, R) \in Nat /\ SumFunctionOnSet(g, R) \in Nat
  BY <1>4, <1>6
<1> HIDE DEF Bad, R, z
<1> QED
  BY <1>3, <1>7, <1>8, <1>9, <1>10

-----------------------------------------------------------------------------
\* The elements of a function's front that have a value, counted before and after a
\* part of the front is taken away.
Count(b, n, c) == Cardinality({k \in 0..n - 1 : b[k] = c})

LEMMA CountType ==
    ASSUME NEW b, NEW n \in Nat, NEW c
    PROVE  Count(b, n, c) \in Nat
<1>1. IsFiniteSet({k \in 0..n - 1 : b[k] = c})
  <2>1. IsFiniteSet(0..n - 1)
    BY FS_Interval
  <2> QED
    BY <2>1, FS_Subset
<1> QED
  BY <1>1, FS_CardinalityType DEF Count

LEMMA CountAgree ==
    ASSUME NEW a, NEW b, NEW n \in Nat, NEW c, \A k \in 0..n - 1 : a[k] = b[k]
    PROVE  Count(a, n, c) = Count(b, n, c)
<1>1. {k \in 0..n - 1 : a[k] = c} = {k \in 0..n - 1 : b[k] = c}
  OBVIOUS
<1> QED
  BY <1>1 DEF Count

LEMMA CountSplit ==
    ASSUME NEW a, NEW b, NEW m \in Nat, NEW n \in 0..m, NEW c,
           \A k \in 0..m - n - 1 : b[k] = a[k + n]
    PROVE  Count(a, m, c) = Count(a, n, c) + Count(b, m - n, c)
<1> DEFINE A == {k \in 0..m - 1 : a[k] = c}
           L == {k \in 0..n - 1 : a[k] = c}
           H == {k \in n..m - 1 : a[k] = c}
           B == {k \in 0..m - n - 1 : b[k] = c}
<1>1. IsFiniteSet(L) /\ IsFiniteSet(B) /\ IsFiniteSet(H)
  <2>1. IsFiniteSet(0..n - 1) /\ IsFiniteSet(0..m - n - 1) /\ IsFiniteSet(n..m - 1)
    BY FS_Interval
  <2> QED
    BY <2>1, FS_Subset
<1>2. A = L \cup H /\ L \cap H = {}
  OBVIOUS
<1>3. Cardinality(H) = Cardinality(B)
  <2> DEFINE f == [k \in B |-> k + n]
  <2>1. f \in [B -> H]
    OBVIOUS
  <2>2. \A x, y \in B : f[x] = f[y] => x = y
    OBVIOUS
  <2>3. \A h \in H : \E k \in B : f[k] = h
    <3>1. ASSUME NEW h \in H
          PROVE  h - n \in B /\ f[h - n] = h
      <4>1. h - n \in 0..m - n - 1 /\ (h - n) + n = h /\ a[h] = c
        OBVIOUS
      <4>2. b[h - n] = a[h]
        BY <4>1
      <4> QED
        BY <4>1, <4>2
    <3> QED
      BY <3>1
  <2>4. f \in Bijection(B, H)
    <3> HIDE DEF f, B, H
    <3> QED
      BY <2>1, <2>2, <2>3 DEF Bijection, Injection, Surjection, IsInjective
  <2>5. ExistsBijection(B, H)
    BY <2>4 DEF ExistsBijection
  <2> QED
    BY <1>1, <2>5, FS_Bijection
<1>4. Cardinality(A) = Cardinality(L) + Cardinality(H)
  <2> HIDE DEF A, L, H
  <2>1. Cardinality(A) = Cardinality(L) + Cardinality(H) - Cardinality(L \cap H)
    BY <1>1, <1>2, FS_Union
  <2>2. Cardinality(L \cap H) = 0 /\ Cardinality(L) \in Nat /\ Cardinality(H) \in Nat
    BY <1>1, <1>2, FS_EmptySet, FS_CardinalityType
  <2> QED
    BY <2>1, <2>2
<1> QED
  BY <1>3, <1>4 DEF Count

=============================================================================
