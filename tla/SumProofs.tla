------------------------------ MODULE SumProofs ------------------------------
(****************************************************************************)
(* The laws of SumFunctionOnSet, the ledger of every module that adds up    *)
(* what jobs ask for, on finite sets.                                       *)
(****************************************************************************)
EXTENDS FiniteSetsExt, FiniteSetTheorems, TLAPS

Pick(S)   == CHOOSE x \in S : TRUE

\* The fold of F over the subsets of S.
Folds(F, S, g) ==
  g = [T \in SUBSET S |-> IF T = {} THEN 0 ELSE F[Pick(T)] + g[T \ {Pick(T)}]]

\* A set of finite sets has a member with no other member inside.
LEMMA Smallest ==
  ASSUME NEW S, IsFiniteSet(S), NEW B, B \subseteq SUBSET S, B # {}
  PROVE  \E m \in B : \A n \in B : n \subseteq m => n = m
<1>1. IsWellFoundedOn(StrictSubsetOrdering(S), SUBSET S)
  BY FS_StrictSubsetOrderingWellFounded, FS_FiniteSubsetsOfFinite
<1>2. PICK m \in B : \A n \in B : ~(<<n, m>> \in StrictSubsetOrdering(S))
  BY <1>1, WFMin
<1>3. ASSUME NEW n \in B, n \subseteq m PROVE n = m
  BY <1>2, <1>3 DEF StrictSubsetOrdering
<1> QED BY <1>3

LEMMA FoldsOnce ==
  ASSUME NEW F, NEW S, IsFiniteSet(S), NEW g, NEW h, Folds(F, S, g), Folds(F, S, h)
  PROVE  g = h
<1> DEFINE B == {T \in SUBSET S : g[T] # h[T]}
<1>1. SUFFICES ASSUME B # {} PROVE FALSE
  BY DEF Folds
<1>0. B \subseteq SUBSET S
  OBVIOUS
<1>2. PICK m \in B : \A n \in B : n \subseteq m => n = m
  <2> HIDE DEF B
  <2> QED BY <1>0, <1>1, Smallest
<1>3. m # {}
  BY <1>2 DEF Folds
<1>4. Pick(m) \in m
  BY <1>3 DEF Pick
<1>5. m \ {Pick(m)} \notin B
  BY <1>2, <1>4
<1>6. g[m \ {Pick(m)}] = h[m \ {Pick(m)}]
  BY <1>5
<1>7. g[m] = h[m]
  BY <1>3, <1>6 DEF Folds
<1> QED BY <1>7

LEMMA FoldsPart ==
  ASSUME NEW F, NEW S, NEW g, Folds(F, S, g), NEW T \in SUBSET S
  PROVE  Folds(F, T, [U \in SUBSET T |-> g[U]])
  BY DEF Folds

LEMMA FoldsExists ==
  ASSUME NEW F, NEW S, IsFiniteSet(S)
  PROVE  \E g : Folds(F, S, g)
<1> DEFINE B == {T \in SUBSET S : ~ \E g : Folds(F, T, g)}
<1>1. SUFFICES ASSUME B # {} PROVE FALSE
  OBVIOUS
<1>0. B \subseteq SUBSET S
  OBVIOUS
<1>2. PICK m \in B : \A n \in B : n \subseteq m => n = m
  <2> HIDE DEF B
  <2> QED BY <1>0, <1>1, Smallest
<1> DEFINE f(T) == CHOOSE g : Folds(F, T, g)
           less == {T \in SUBSET m : T # m}
           G == [T \in SUBSET m |-> IF T = {} THEN 0
                                    ELSE F[Pick(T)] + f(T \ {Pick(T)})[T \ {Pick(T)}]]
<1>3. ASSUME NEW T \in less PROVE Folds(F, T, f(T))
  <2>1. T \notin B /\ T \in SUBSET S
    BY <1>2
  <2>2. \E g : Folds(F, T, g)
    BY <2>1
  <2> QED BY <2>2
<1>4. ASSUME NEW T \in less PROVE f(T)[T] = G[T]
  <2>0. \A V \in SUBSET T : f(T)[V] = IF V = {} THEN 0 ELSE F[Pick(V)] + f(T)[V \ {Pick(V)}]
    <3>1. Folds(F, T, f(T))
      BY <1>3
    <3> HIDE DEF f
    <3> QED BY <3>1 DEF Folds
  <2>1. CASE T = {}
    <3>1. f(T)[T] = 0
      <4> HIDE DEF f
      <4> QED BY <2>0, <2>1
    <3>2. G[T] = 0
      BY <2>1
    <3> QED BY <3>1, <3>2
  <2>2. CASE T # {}
    <3> DEFINE U == T \ {Pick(T)}
    <3>1. Pick(T) \in T
      BY <2>2 DEF Pick
    <3>2. U \in less /\ U \in SUBSET T
      BY <3>1
    <3>3. Folds(F, U, [V \in SUBSET U |-> f(T)[V]])
      BY <3>2, <1>3, FoldsPart
    <3>4. IsFiniteSet(U)
      BY <3>2, FS_Subset
    <3>5. f(U) = [V \in SUBSET U |-> f(T)[V]]
      BY <3>2, <3>3, <3>4, <1>3, FoldsOnce
    <3>6. f(U)[U] = f(T)[U]
      BY <3>5
    <3>7. f(T)[T] = F[Pick(T)] + f(T)[U]
      <4> HIDE DEF f
      <4> QED BY <2>2, <2>0
    <3> QED BY <3>6, <3>7, <2>2
  <2> QED BY <2>1, <2>2
<1>5. Folds(F, m, G)
  <2>1. ASSUME NEW T \in SUBSET m, T # {}
        PROVE  G[T] = F[Pick(T)] + G[T \ {Pick(T)}]
    <3>1. Pick(T) \in T
      BY <2>1 DEF Pick
    <3>2. T \ {Pick(T)} \in less
      BY <3>1
    <3>3. G[T \ {Pick(T)}] = f(T \ {Pick(T)})[T \ {Pick(T)}]
      BY <3>2, <1>4
    <3>4. G[T] = F[Pick(T)] + f(T \ {Pick(T)})[T \ {Pick(T)}]
      BY <2>1
    <3> QED BY <3>3, <3>4
  <2>2. \A T \in SUBSET m : G[T] = IF T = {} THEN 0 ELSE F[Pick(T)] + G[T \ {Pick(T)}]
    <3>1. G[{}] = 0
      OBVIOUS
    <3> HIDE DEF G
    <3> QED BY <2>1, <3>1
  <2> HIDE DEF f
  <2>3. G = [T \in SUBSET m |-> G[T]]
    OBVIOUS
  <2> HIDE DEF G
  <2> QED BY <2>2, <2>3 DEF Folds
<1> QED BY <1>2, <1>5

LEMMA SumFolds ==
  ASSUME NEW F, NEW S, IsFiniteSet(S)
  PROVE  \E g : Folds(F, S, g) /\ SumFunctionOnSet(F, S) = g[S]
<1>1. SumFunctionOnSet(F, S) = (CHOOSE g : Folds(F, S, g))[S]
  BY DEF SumFunctionOnSet, FoldFunctionOnSet, MapThenFoldSet, Folds, Pick
<1> QED BY <1>1, FoldsExists

LEMMA SumOfNone ==
  ASSUME NEW F PROVE SumFunctionOnSet(F, {}) = 0
<1>1. PICK g : Folds(F, {}, g) /\ SumFunctionOnSet(F, {}) = g[{}]
  BY SumFolds, FS_EmptySet
<1> QED BY <1>1 DEF Folds

LEMMA SumPick ==
  ASSUME NEW F, NEW S, IsFiniteSet(S), S # {}
  PROVE  Pick(S) \in S /\ SumFunctionOnSet(F, S) = F[Pick(S)] + SumFunctionOnSet(F, S \ {Pick(S)})
<1> DEFINE T == S \ {Pick(S)}
<1>1. PICK g : Folds(F, S, g) /\ SumFunctionOnSet(F, S) = g[S]
  BY SumFolds
<1>2. IsFiniteSet(T)
  BY FS_Subset
<1>3. PICK h : Folds(F, T, h) /\ SumFunctionOnSet(F, T) = h[T]
  BY <1>2, SumFolds
<1>4. Folds(F, T, [U \in SUBSET T |-> g[U]])
  BY <1>1, FoldsPart
<1>5. h = [U \in SUBSET T |-> g[U]]
  BY <1>2, <1>3, <1>4, FoldsOnce
<1>6. h[T] = g[T]
  BY <1>5
<1>7. g[S] = F[Pick(S)] + g[T]
  BY <1>1 DEF Folds
<1> QED BY <1>1, <1>3, <1>6, <1>7 DEF Pick

\* A sum of natural numbers is one.
LEMMA SumIsNat ==
  ASSUME NEW F, NEW S, IsFiniteSet(S), \A x \in S : F[x] \in Nat
  PROVE  SumFunctionOnSet(F, S) \in Nat
<1> DEFINE B == {T \in SUBSET S : SumFunctionOnSet(F, T) \notin Nat}
<1>1. SUFFICES ASSUME B # {} PROVE FALSE
  OBVIOUS
<1>2. B \subseteq SUBSET S
  OBVIOUS
<1>3. PICK m \in B : \A n \in B : n \subseteq m => n = m
  <2> HIDE DEF B
  <2> QED BY <1>1, <1>2, Smallest
<1>4. m # {} /\ IsFiniteSet(m)
  <2>1. m \in SUBSET S /\ SumFunctionOnSet(F, m) \notin Nat
    OBVIOUS
  <2>2. IsFiniteSet(m)
    <3> HIDE DEF B
    <3> QED BY <2>1, FS_Subset
  <2>3. m # {}
    <3> HIDE DEF B
    <3> QED BY <2>1, SumOfNone
  <2> QED BY <2>2, <2>3
<1>5. Pick(m) \in m /\ SumFunctionOnSet(F, m) = F[Pick(m)] + SumFunctionOnSet(F, m \ {Pick(m)})
  BY <1>4, SumPick
<1>6. SumFunctionOnSet(F, m \ {Pick(m)}) \in Nat
  BY <1>3, <1>5
<1>7. SumFunctionOnSet(F, m) \in Nat
  BY <1>5, <1>6
<1> QED BY <1>7

\* Any member may be counted first.
LEMMA SumTake ==
  ASSUME NEW F, NEW S, IsFiniteSet(S), \A x \in S : F[x] \in Nat
  PROVE  \A x \in S : SumFunctionOnSet(F, S) = F[x] + SumFunctionOnSet(F, S \ {x})
<1> DEFINE B == {T \in SUBSET S :
                  \E x \in T : SumFunctionOnSet(F, T) # F[x] + SumFunctionOnSet(F, T \ {x})}
<1>1. SUFFICES ASSUME B # {} PROVE FALSE
  OBVIOUS
<1>2. B \subseteq SUBSET S
  OBVIOUS
<1>3. PICK m \in B : \A n \in B : n \subseteq m => n = m
  <2> HIDE DEF B
  <2> QED BY <1>1, <1>2, Smallest
<1>4. PICK x \in m : SumFunctionOnSet(F, m) # F[x] + SumFunctionOnSet(F, m \ {x})
  OBVIOUS
<1> DEFINE y == Pick(m)
           r == (m \ {x}) \ {y}
<1>5. m # {} /\ m \in SUBSET S /\ IsFiniteSet(m)
  BY FS_Subset
<1>6. y \in m /\ SumFunctionOnSet(F, m) = F[y] + SumFunctionOnSet(F, m \ {y})
  BY <1>5, SumPick
<1>7. y # x
  BY <1>4, <1>6
<1>8. m \ {x} \notin B /\ m \ {y} \notin B
  BY <1>3, <1>6
<1>9. SumFunctionOnSet(F, m \ {y}) = F[x] + SumFunctionOnSet(F, r)
  <2>1. SumFunctionOnSet(F, m \ {y}) = F[x] + SumFunctionOnSet(F, (m \ {y}) \ {x})
    BY <1>5, <1>7, <1>8
  <2>2. (m \ {y}) \ {x} = r
    OBVIOUS
  <2> QED BY <2>1, <2>2
<1>10. SumFunctionOnSet(F, m \ {x}) = F[y] + SumFunctionOnSet(F, r)
  BY <1>5, <1>6, <1>7, <1>8
<1>11. SumFunctionOnSet(F, r) \in Nat /\ F[x] \in Nat /\ F[y] \in Nat
  <2>1. r \in SUBSET S
    BY <1>5
  <2>2. IsFiniteSet(r) /\ \A z \in r : F[z] \in Nat
    BY <2>1, FS_Subset
  <2> HIDE DEF r
  <2> QED BY <1>5, <1>6, <2>2, SumIsNat
<1>12. F[y] + (F[x] + SumFunctionOnSet(F, r)) = F[x] + (F[y] + SumFunctionOnSet(F, r))
  BY <1>11
<1> HIDE DEF r
<1> QED BY <1>4, <1>6, <1>9, <1>10, <1>12

LEMMA SumWith ==
  ASSUME NEW F, NEW S, IsFiniteSet(S), NEW x, x \notin S, \A y \in S \cup {x} : F[y] \in Nat
  PROVE  SumFunctionOnSet(F, S \cup {x}) = SumFunctionOnSet(F, S) + F[x]
<1>1. IsFiniteSet(S \cup {x}) /\ (S \cup {x}) \ {x} = S
  BY FS_AddElement
<1>2. SumFunctionOnSet(F, S \cup {x}) = F[x] + SumFunctionOnSet(F, S)
  BY <1>1, SumTake
<1>3. SumFunctionOnSet(F, S) \in Nat /\ F[x] \in Nat
  BY SumIsNat
<1> QED BY <1>2, <1>3

\* The more jobs, the larger their sum.
LEMMA SumGrows ==
  ASSUME NEW F, NEW S, IsFiniteSet(S), \A x \in S : F[x] \in Nat, NEW T \in SUBSET S
  PROVE  SumFunctionOnSet(F, T) <= SumFunctionOnSet(F, S)
<1> DEFINE B == {U \in SUBSET S :
                  T \subseteq U /\ ~(SumFunctionOnSet(F, T) <= SumFunctionOnSet(F, U))}
<1>1. SUFFICES ASSUME B # {} PROVE FALSE
  OBVIOUS
<1>2. B \subseteq SUBSET S
  OBVIOUS
<1>3. PICK m \in B : \A n \in B : n \subseteq m => n = m
  <2> HIDE DEF B
  <2> QED BY <1>1, <1>2, Smallest
<1>4. /\ IsFiniteSet(m) /\ IsFiniteSet(T) /\ \A x \in m : F[x] \in Nat
      /\ SumFunctionOnSet(F, T) \in Nat
  BY FS_Subset, SumIsNat
<1>5. m # T
  BY <1>3, <1>4
<1>6. PICK x \in m : x \notin T
  BY <1>3, <1>5
<1>7. SumFunctionOnSet(F, m) = F[x] + SumFunctionOnSet(F, m \ {x})
  BY <1>4, SumTake
<1>8. m \ {x} \notin B
  BY <1>3
<1>9. SumFunctionOnSet(F, T) <= SumFunctionOnSet(F, m \ {x})
  BY <1>3, <1>6, <1>8
<1>10. IsFiniteSet(m \ {x})
  BY <1>4, FS_Subset
<1>11. SumFunctionOnSet(F, m \ {x}) \in Nat
  BY <1>4, <1>10, SumIsNat
<1> QED BY <1>3, <1>4, <1>7, <1>9, <1>11

\* A sum looks at the members only.
LEMMA SumSame ==
  ASSUME NEW F, NEW G, NEW S, IsFiniteSet(S), \A x \in S : F[x] = G[x]
  PROVE  SumFunctionOnSet(F, S) = SumFunctionOnSet(G, S)
<1>1. PICK g : Folds(F, S, g) /\ SumFunctionOnSet(F, S) = g[S]
  BY SumFolds
<1>2. \A T \in SUBSET S : T # {} => Pick(T) \in S
  BY DEF Pick
<1>3. Folds(G, S, g)
  BY <1>1, <1>2 DEF Folds
<1>4. PICK h : Folds(G, S, h) /\ SumFunctionOnSet(G, S) = h[S]
  BY SumFolds
<1> QED BY <1>1, <1>3, <1>4, FoldsOnce
=============================================================================
