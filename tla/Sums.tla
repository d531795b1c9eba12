-------------------------------- MODULE Sums --------------------------------
(***************************************************************************)
(* The laws of sums over finite sets.  SumOver of Memory and the library's *)
(* SumFunction fold over a set in an order nobody knows; the lemmas say    *)
(* that the recursion of the fold defines a function on every finite set,  *)
(* and that the order does not matter.                                     *)
(***************************************************************************)
EXTENDS Integers, FiniteSets, Functions, FiniteSetTheorems, WellFoundedInduction, TLAPS

\* The fold of the library, as the function its recursion defines on the subsets
\* of S, and the sum it ends with.
Pick(s)        == CHOOSE x \in s : TRUE
Folds(g, f, S) == g = [s \in SUBSET S |-> IF s = {} THEN 0 ELSE f[Pick(s)] + g[s \ {Pick(s)}]]
Fold(f, S)     == CHOOSE g : Folds(g, f, S)
TotalOf(f, S)      == Fold(f, S)[S]

\* Among sets of subsets of a finite set there is a smallest one: induction
\* over finite sets.
LEMMA SmallestSet ==
    ASSUME NEW S, IsFiniteSet(S), NEW Bad \in SUBSET (SUBSET S), Bad # {}
    PROVE  \E T \in Bad : \A U \in Bad : U \subseteq T => U = T
<1>1. IsWellFoundedOn(StrictSubsetOrdering(S), SUBSET S)
  BY FS_StrictSubsetOrderingWellFounded, FS_FiniteSubsetsOfFinite
<1>2. PICK T \in Bad : \A U \in Bad : ~(<<U, T>> \in StrictSubsetOrdering(S))
  BY <1>1, WFMin
<1> QED BY <1>2 DEF StrictSubsetOrdering

LEMMA PickIn == ASSUME NEW s, s # {} PROVE Pick(s) \in s
BY DEF Pick

\* The recursion defines at most one function, and the same on a subset.
LEMMA FoldUnique ==
    ASSUME NEW S, IsFiniteSet(S), NEW f, NEW g, NEW h, Folds(g, f, S), Folds(h, f, S)
    PROVE  g = h
<1> DEFINE Bad == {T \in SUBSET S : g[T] # h[T]}
<1>1. \A s \in SUBSET S : /\ g[s] = IF s = {} THEN 0 ELSE f[Pick(s)] + g[s \ {Pick(s)}]
                          /\ h[s] = IF s = {} THEN 0 ELSE f[Pick(s)] + h[s \ {Pick(s)}]
  BY DEF Folds
<1>2. Bad = {}
  <2> SUFFICES ASSUME Bad # {} PROVE FALSE
    OBVIOUS
  <2>1. PICK T \in Bad : \A U \in Bad : U \subseteq T => U = T
    <3>1. Bad \in SUBSET (SUBSET S)
      OBVIOUS
    <3> HIDE DEF Bad
    <3> QED BY <3>1, SmallestSet
  <2>2. T \in SUBSET S /\ g[T] # h[T]
    OBVIOUS
  <2>3. T # {}
    BY <1>1, <2>2
  <2>4. Pick(T) \in T /\ T \ {Pick(T)} \in SUBSET S /\ T \ {Pick(T)} # T
    BY <2>2, <2>3, PickIn
  <2>5. T \ {Pick(T)} \notin Bad
    BY <2>1, <2>4
  <2> QED BY <1>1, <2>2, <2>3, <2>4, <2>5
<1>3. \A T \in SUBSET S : g[T] = h[T]
  BY <1>2
<1>4. /\ g = [T \in SUBSET S |-> g[T]]
      /\ h = [T \in SUBSET S |-> h[T]]
  BY DEF Folds
<1> QED BY <1>3, <1>4

LEMMA FoldBelow ==
    ASSUME NEW S, NEW f, NEW g, Folds(g, f, S), NEW T \in SUBSET S
    PROVE  Folds([s \in SUBSET T |-> g[s]], f, T)
<1> DEFINE h == [s \in SUBSET T |-> g[s]]
<1>1. \A s \in SUBSET T : h[s] = IF s = {} THEN 0 ELSE f[Pick(s)] + h[s \ {Pick(s)}]
  <2> TAKE s \in SUBSET T
  <2>1. s \in SUBSET S /\ s \ {Pick(s)} \in SUBSET T
    OBVIOUS
  <2>2. g[s] = IF s = {} THEN 0 ELSE f[Pick(s)] + g[s \ {Pick(s)}]
    BY <2>1 DEF Folds
  <2> QED BY <2>1, <2>2
<1>2. h = [s \in SUBSET T |-> IF s = {} THEN 0 ELSE f[Pick(s)] + h[s \ {Pick(s)}]]
  <2> HIDE DEF h
  <2>1. h = [s \in SUBSET T |-> h[s]]
    BY DEF h
  <2> QED BY <1>1, <2>1
<1> QED BY <1>2 DEF Folds

\* What the recursion says of the sum of a set, given that it defines the sums
\* of all smaller ones.
LEMMA SumBelow ==
    ASSUME NEW S, IsFiniteSet(S), NEW f, \E g : Folds(g, f, S)
    PROVE  /\ Folds(Fold(f, S), f, S)
           /\ TotalOf(f, S) = IF S = {} THEN 0 ELSE f[Pick(S)] + TotalOf(f, S \ {Pick(S)})
<1>1. Folds(Fold(f, S), f, S)
  BY DEF Fold
<1>2. TotalOf(f, S) = IF S = {} THEN 0 ELSE f[Pick(S)] + Fold(f, S)[S \ {Pick(S)}]
  BY <1>1 DEF TotalOf, Folds
<1>3. ASSUME S # {} PROVE Fold(f, S)[S \ {Pick(S)}] = TotalOf(f, S \ {Pick(S)})
  <2> DEFINE U == S \ {Pick(S)}
             h == [s \in SUBSET U |-> Fold(f, S)[s]]
  <2>1. Folds(h, f, U)
    BY ZenonT(60), <1>1, FoldBelow
  <2>2. Folds(Fold(f, U), f, U)
    BY <2>1 DEF Fold
  <2>3. IsFiniteSet(U)
    BY FS_Subset
  <2>4. h = Fold(f, U)
    BY <2>1, <2>2, <2>3, FoldUnique
  <2>5. h[U] = Fold(f, S)[U]
    OBVIOUS
  <2> QED BY <2>4, <2>5 DEF TotalOf
<1> QED BY <1>1, <1>2, <1>3

\* The recursion defines a function for every finite set.
LEMMA FoldExists ==
    ASSUME NEW S, IsFiniteSet(S), NEW f
    PROVE  \E g : Folds(g, f, S)
<1> DEFINE Bad == {T \in SUBSET S : ~ \E g : Folds(g, f, T)}
<1> SUFFICES ASSUME Bad # {} PROVE FALSE
  OBVIOUS
<1>1. PICK T \in Bad : \A U \in Bad : U \subseteq T => U = T
  <2>1. Bad \in SUBSET (SUBSET S)
    OBVIOUS
  <2> HIDE DEF Bad
  <2> QED BY <2>1, SmallestSet
<1>2. T \in SUBSET S /\ ~ \E g : Folds(g, f, T)
  OBVIOUS
<1> DEFINE G == [s \in SUBSET T |-> IF s = {} THEN 0 ELSE f[Pick(s)] + TotalOf(f, s \ {Pick(s)})]
<1>3. ASSUME NEW u \in SUBSET T, u # T
      PROVE  G[u] = TotalOf(f, u)
  <2>1. u \in SUBSET S /\ u \notin Bad
    BY <1>1, <1>2, <1>3
  <2>2. \E g : Folds(g, f, u)
    BY <2>1
  <2>3. IsFiniteSet(u)
    BY <2>1, FS_Subset
  <2>4. TotalOf(f, u) = IF u = {} THEN 0 ELSE f[Pick(u)] + TotalOf(f, u \ {Pick(u)})
    BY <2>2, <2>3, SumBelow
  <2> QED BY <2>4
<1>4. \A s \in SUBSET T : G[s] = IF s = {} THEN 0 ELSE f[Pick(s)] + G[s \ {Pick(s)}]
  <2> TAKE s \in SUBSET T
  <2>1. CASE s = {}
    BY <2>1
  <2>2. CASE s # {}
    <3>1. Pick(s) \in s
      BY <2>2, PickIn
    <3>2. s \ {Pick(s)} \in SUBSET T /\ s \ {Pick(s)} # T
      BY <3>1
    <3>3. G[s \ {Pick(s)}] = TotalOf(f, s \ {Pick(s)})
      BY <1>3, <3>2
    <3>4. G[s] = f[Pick(s)] + TotalOf(f, s \ {Pick(s)})
      BY <2>2
    <3> QED BY <2>2, <3>3, <3>4
  <2> QED BY <2>1, <2>2
<1>5. G = [s \in SUBSET T |-> G[s]]
  OBVIOUS
<1> HIDE DEF G
<1>6. Folds(G, f, T)
  BY <1>4, <1>5 DEF Folds
<1> QED BY <1>2, <1>6

\* So a sum is that of its parts, whichever is taken first.
LEMMA SumParts ==
    ASSUME NEW S, IsFiniteSet(S), NEW f \in [S -> Nat]
    PROVE  /\ TotalOf(f, {}) = 0
           /\ \A T \in SUBSET S : TotalOf(f, T) \in Nat
           /\ \A T \in SUBSET S, x \in S : x \in T => TotalOf(f, T) = f[x] + TotalOf(f, T \ {x})
<1>1. \A T \in SUBSET S : IsFiniteSet(T)
  BY FS_Subset
<1>2. \A T \in SUBSET S : TotalOf(f, T) = IF T = {} THEN 0 ELSE f[Pick(T)] + TotalOf(f, T \ {Pick(T)})
  BY <1>1, FoldExists, SumBelow
<1>5. TotalOf(f, {}) = 0
  <2>1. {} \in SUBSET S
    OBVIOUS
  <2> QED BY <1>2, <2>1
<1>3. \A T \in SUBSET S : TotalOf(f, T) \in Nat
  <2> DEFINE Bad == {T \in SUBSET S : TotalOf(f, T) \notin Nat}
  <2> SUFFICES ASSUME Bad # {} PROVE FALSE
    OBVIOUS
  <2>1. PICK T \in Bad : \A U \in Bad : U \subseteq T => U = T
    <3>1. Bad \in SUBSET (SUBSET S)
      OBVIOUS
    <3> HIDE DEF Bad
    <3> QED BY <3>1, SmallestSet
  <2>2. T \in SUBSET S /\ TotalOf(f, T) \notin Nat
    OBVIOUS
  <2>3. T # {}
    BY <1>5, <2>2
  <2>4. Pick(T) \in T
    BY <2>3, PickIn
  <2>5. T \ {Pick(T)} \notin Bad /\ T \ {Pick(T)} \in SUBSET S
    BY <2>1, <2>2, <2>4
  <2> QED BY <1>2, <2>2, <2>3, <2>4, <2>5
<1>4. \A T \in SUBSET S, x \in S : x \in T => TotalOf(f, T) = f[x] + TotalOf(f, T \ {x})
  <2> DEFINE Bad == {T \in SUBSET S : ~ \A x \in S : x \in T => TotalOf(f, T) = f[x] + TotalOf(f, T \ {x})}
  <2> SUFFICES ASSUME Bad # {} PROVE FALSE
    OBVIOUS
  <2>1. PICK T \in Bad : \A U \in Bad : U \subseteq T => U = T
    <3>1. Bad \in SUBSET (SUBSET S)
      OBVIOUS
    <3> HIDE DEF Bad
    <3> QED BY <3>1, SmallestSet
  <2>2. T \in SUBSET S
    OBVIOUS
  <2>3. PICK x \in S : x \in T /\ TotalOf(f, T) # f[x] + TotalOf(f, T \ {x})
    OBVIOUS
  <2> DEFINE p == Pick(T)
  <2>4. p \in T /\ p \in S
    BY <2>2, <2>3, PickIn
  <2>5. TotalOf(f, T) = f[p] + TotalOf(f, T \ {p})
    BY <1>2, <2>2, <2>4
  <2>6. x # p
    BY <2>3, <2>5
  <2>7. /\ T \ {p} \in SUBSET S /\ T \ {p} \notin Bad
        /\ T \ {x} \in SUBSET S /\ T \ {x} \notin Bad
    BY <2>1, <2>2, <2>3, <2>4
  <2>8. TotalOf(f, T \ {p}) = f[x] + TotalOf(f, (T \ {p}) \ {x})
    BY <2>3, <2>6, <2>7
  <2>9. TotalOf(f, T \ {x}) = f[p] + TotalOf(f, (T \ {x}) \ {p})
    BY <2>4, <2>6, <2>7
  <2>10. (T \ {p}) \ {x} = (T \ {x}) \ {p} /\ (T \ {p}) \ {x} \in SUBSET S
    BY <2>2
  <2>11. TotalOf(f, (T \ {p}) \ {x}) \in Nat /\ f[p] \in Nat /\ f[x] \in Nat
    BY <1>3, <2>4, <2>10
  <2>12. TotalOf(f, (T \ {x}) \ {p}) = TotalOf(f, (T \ {p}) \ {x})
    BY <2>10
  <2>13. TotalOf(f, T) = f[x] + (f[p] + TotalOf(f, (T \ {p}) \ {x}))
    BY <2>5, <2>8, <2>11
  <2> QED BY <2>3, <2>9, <2>12, <2>13
<1> QED BY <1>3, <1>4, <1>5

\* A smaller set has a smaller sum, and the sums of two parts make the sum of the whole.
LEMMA SumLess ==
    ASSUME NEW S, IsFiniteSet(S), NEW f \in [S -> Nat], NEW T \in SUBSET S
    PROVE  \A U \in SUBSET S : T \subseteq U => TotalOf(f, T) <= TotalOf(f, U)
<1> DEFINE Bad == {U \in SUBSET S : T \subseteq U /\ ~(TotalOf(f, T) <= TotalOf(f, U))}
<1> SUFFICES ASSUME Bad # {} PROVE FALSE
  OBVIOUS
<1>1. PICK U \in Bad : \A V \in Bad : V \subseteq U => V = U
  <2>1. Bad \in SUBSET (SUBSET S)
    OBVIOUS
  <2> HIDE DEF Bad
  <2> QED BY <2>1, SmallestSet
<1>2. U \in SUBSET S /\ T \subseteq U /\ ~(TotalOf(f, T) <= TotalOf(f, U))
  OBVIOUS
<1>3. \A V \in SUBSET S : TotalOf(f, V) \in Nat
  BY SumParts
<1>4. PICK x \in U : x \notin T
  BY <1>2, <1>3
<1>5. U \ {x} \in SUBSET S /\ U \ {x} \notin Bad /\ x \in S
  BY <1>1, <1>2
<1>6. TotalOf(f, U) = f[x] + TotalOf(f, U \ {x})
  BY <1>2, <1>5, SumParts
<1>7. TotalOf(f, T) <= TotalOf(f, U \ {x}) /\ f[x] \in Nat
  BY <1>2, <1>4, <1>5
<1> QED BY <1>2, <1>3, <1>5, <1>6, <1>7

LEMMA SumSplit ==
    ASSUME NEW S, IsFiniteSet(S), NEW f \in [S -> Nat], NEW T \in SUBSET S
    PROVE  \A U \in SUBSET S : T \cap U = {} => TotalOf(f, T \cup U) = TotalOf(f, T) + TotalOf(f, U)
<1> DEFINE Bad == {U \in SUBSET S : T \cap U = {} /\ TotalOf(f, T \cup U) # TotalOf(f, T) + TotalOf(f, U)}
<1> SUFFICES ASSUME Bad # {} PROVE FALSE
  OBVIOUS
<1>1. PICK U \in Bad : \A V \in Bad : V \subseteq U => V = U
  <2>1. Bad \in SUBSET (SUBSET S)
    OBVIOUS
  <2> HIDE DEF Bad
  <2> QED BY <2>1, SmallestSet
<1>2. U \in SUBSET S /\ T \cap U = {} /\ TotalOf(f, T \cup U) # TotalOf(f, T) + TotalOf(f, U)
  OBVIOUS
<1>3. \A V \in SUBSET S : TotalOf(f, V) \in Nat
  BY SumParts
<1>4. TotalOf(f, {}) = 0 /\ T \cup {} = T
  BY SumParts
<1>5. PICK x \in U : TRUE
  BY <1>2, <1>3, <1>4
<1>6. U \ {x} \in SUBSET S /\ U \ {x} \notin Bad /\ x \in S /\ T \cup U \in SUBSET S
  BY <1>1, <1>2
<1>7. TotalOf(f, U) = f[x] + TotalOf(f, U \ {x})
  BY <1>2, <1>6, SumParts
<1>8. TotalOf(f, T \cup U) = f[x] + TotalOf(f, (T \cup U) \ {x})
  BY <1>6, SumParts
<1>9. (T \cup U) \ {x} = T \cup (U \ {x}) /\ T \cap (U \ {x}) = {}
  BY <1>2
<1>10. TotalOf(f, T \cup (U \ {x})) = TotalOf(f, T) + TotalOf(f, U \ {x}) /\ f[x] \in Nat
  BY <1>6, <1>9
<1>11. TotalOf(f, T \cup U) = f[x] + (TotalOf(f, T) + TotalOf(f, U \ {x}))
  BY <1>8, <1>9, <1>10
<1>12. TotalOf(f, T) \in Nat /\ TotalOf(f, U \ {x}) \in Nat
  BY <1>3, <1>6
<1>13. TotalOf(f, T \cup U) = TotalOf(f, T) + TotalOf(f, U)
  BY <1>7, <1>10, <1>11, <1>12
<1> QED BY <1>2, <1>13

\* Only the members of the set count.
LEMMA SumAgree ==
    ASSUME NEW S, NEW f, NEW h, \A x \in S : f[x] = h[x]
    PROVE  TotalOf(f, S) = TotalOf(h, S)
<1>1. ASSUME NEW s \in SUBSET S, s # {} PROVE f[Pick(s)] = h[Pick(s)]
  BY <1>1, PickIn
<1>2. ASSUME NEW g
      PROVE  [s \in SUBSET S |-> IF s = {} THEN 0 ELSE f[Pick(s)] + g[s \ {Pick(s)}]]
             = [s \in SUBSET S |-> IF s = {} THEN 0 ELSE h[Pick(s)] + g[s \ {Pick(s)}]]
  BY <1>1
<1>3. \A g : Folds(g, f, S) <=> Folds(g, h, S)
  BY <1>2 DEF Folds
<1>4. Fold(f, S) = Fold(h, S)
  BY <1>3 DEF Fold
<1> QED BY <1>4 DEF TotalOf

\* A sum of zeros is zero.
LEMMA SumZero ==
    ASSUME NEW S, IsFiniteSet(S), NEW f \in [S -> Nat], \A x \in S : f[x] = 0
    PROVE  TotalOf(f, S) = 0
<1> DEFINE Bad == {T \in SUBSET S : TotalOf(f, T) # 0}
<1>1. Bad = {}
  <2> SUFFICES ASSUME Bad # {} PROVE FALSE
    OBVIOUS
  <2>1. PICK T \in Bad : \A U \in Bad : U \subseteq T => U = T
    <3>1. Bad \in SUBSET (SUBSET S)
      OBVIOUS
    <3> HIDE DEF Bad
    <3> QED BY <3>1, SmallestSet
  <2>2. T \in SUBSET S /\ TotalOf(f, T) # 0
    OBVIOUS
  <2>3. T # {}
    BY <2>2, SumParts
  <2>4. PICK x \in T : TRUE
    BY <2>3
  <2>5. T \ {x} \in SUBSET S /\ T \ {x} \notin Bad /\ x \in S
    BY <2>1, <2>2, <2>4
  <2>6. TotalOf(f, T) = f[x] + TotalOf(f, T \ {x})
    BY <2>2, <2>4, <2>5, SumParts
  <2> QED BY <2>2, <2>5, <2>6
<1> QED BY <1>1

\* Larger terms have a larger sum.
LEMMA SumOrder ==
    ASSUME NEW S, IsFiniteSet(S), NEW f \in [S -> Nat], NEW h \in [S -> Nat], \A x \in S : f[x] <= h[x]
    PROVE  \A T \in SUBSET S : TotalOf(f, T) <= TotalOf(h, T)
<1> DEFINE Bad == {T \in SUBSET S : ~(TotalOf(f, T) <= TotalOf(h, T))}
<1> SUFFICES ASSUME Bad # {} PROVE FALSE
  OBVIOUS
<1>1. PICK T \in Bad : \A U \in Bad : U \subseteq T => U = T
  <2>1. Bad \in SUBSET (SUBSET S)
    OBVIOUS
  <2> HIDE DEF Bad
  <2> QED BY <2>1, SmallestSet
<1>2. T \in SUBSET S /\ ~(TotalOf(f, T) <= TotalOf(h, T))
  OBVIOUS
<1>3. TotalOf(f, {}) = 0 /\ TotalOf(h, {}) = 0
  BY SumParts
<1>4. T # {}
  <2> SUFFICES ASSUME T = {} PROVE FALSE
    OBVIOUS
  <2>1. TotalOf(f, T) = 0 /\ TotalOf(h, T) = 0
    BY <1>3
  <2> HIDE DEF Bad
  <2> QED BY <1>2, <2>1
<1> PICK x \in T : TRUE
  BY <1>4
<1>5. T \ {x} \in SUBSET S /\ T \ {x} \notin Bad /\ x \in S
  BY <1>1, <1>2
<1>6. TotalOf(f, T) = f[x] + TotalOf(f, T \ {x}) /\ TotalOf(h, T) = h[x] + TotalOf(h, T \ {x})
  BY <1>2, <1>5, SumParts
<1>7. TotalOf(f, T \ {x}) <= TotalOf(h, T \ {x}) /\ f[x] <= h[x]
  BY <1>5
<1>8. TotalOf(f, T \ {x}) \in Nat /\ TotalOf(h, T \ {x}) \in Nat /\ f[x] \in Nat /\ h[x] \in Nat
  BY <1>5, SumParts
<1> QED BY <1>2, <1>6, <1>7, <1>8
=============================================================================
