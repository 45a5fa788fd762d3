------------------------------ MODULE Induction ------------------------------
(***************************************************************************)
(* Induction over the natural numbers for sets in the place of predicates, *)
(* and what it shows of functions that are defined by iteration.  The      *)
(* library's induction theorems take the predicate as an operator; these   *)
(* follow from its theorem that a well-founded order has minimal elements. *)
(***************************************************************************)
EXTENDS Integers, FiniteSets, FiniteSetTheorems, WellFoundedInduction, TLAPS

NatOrder == {p \in Nat \X Nat : p[1] < p[2]}

LEMMA NatOrderWF == IsWellFoundedOn(NatOrder, Nat)
BY NatLessThanWellFounded DEF OpToRel, NatOrder

\* A set of numbers that is not empty has a least one.
LEMMA LeastNumber ==
    ASSUME NEW S, S \subseteq Nat, S # {}
    PROVE  \E m \in S : \A n \in S : m <= n
<1>1. PICK m \in S : \A n \in S : ~(<<n, m>> \in NatOrder)
  BY NatOrderWF, WFMin
<1>2. ASSUME NEW n \in S PROVE m <= n
  <2>1. m \in Nat /\ n \in Nat
    OBVIOUS
  <2>2. ~(n < m)
    BY <1>1, <2>1 DEF NatOrder
  <2> QED BY <2>1, <2>2
<1> QED BY <1>2

LEMMA SetInduction ==
    ASSUME NEW S, 0 \in S, \A n \in Nat : n \in S => n + 1 \in S
    PROVE  Nat \subseteq S
<1> SUFFICES ASSUME Nat \ S # {} PROVE FALSE
  OBVIOUS
<1>1. PICK m \in Nat \ S : \A n \in Nat \ S : m <= n
  BY LeastNumber
<1>2. m \in Nat /\ m # 0 /\ m - 1 \in Nat
  OBVIOUS
<1>3. m - 1 \in S
  BY <1>1, <1>2
<1> QED BY <1>2, <1>3

-----------------------------------------------------------------------------
(***************************************************************************)
(* Iterating a function F from X to X, from x on.                          *)
(***************************************************************************)
IteratesTo(F, x, n, f) ==
    /\ f[0] = x
    /\ \A k \in 1..n : f[k] = F[f[k - 1]]

LEMMA IterationUpTo ==
    ASSUME NEW X, NEW F \in [X -> X], NEW x \in X, NEW n \in Nat
    PROVE  \E f \in [Nat -> X] : IteratesTo(F, x, n, f)
<1> DEFINE S == {m \in Nat : \E f \in [Nat -> X] : IteratesTo(F, x, m, f)}
<1>1. 0 \in S
  <2> DEFINE f == [k \in Nat |-> x]
  <2>1. f \in [Nat -> X] /\ IteratesTo(F, x, 0, f)
    BY DEF IteratesTo
  <2> QED BY <2>1
<1>2. ASSUME NEW m \in Nat, m \in S PROVE m + 1 \in S
  <2>1. PICK f \in [Nat -> X] : IteratesTo(F, x, m, f)
    BY <1>2
  <2> DEFINE g == [k \in Nat |-> IF k <= m THEN f[k] ELSE F[f[m]]]
  <2>2. g \in [Nat -> X]
    OBVIOUS
  <2>3. ASSUME NEW k \in 1..(m + 1) PROVE g[k] = F[g[k - 1]]
    <3>1. CASE k <= m
      <4>1. k \in 1..m /\ k - 1 \in Nat /\ k - 1 <= m /\ k \in Nat
        BY <3>1
      <4>2. g[k] = f[k] /\ g[k - 1] = f[k - 1]
        BY <4>1
      <4> QED BY <2>1, <4>1, <4>2 DEF IteratesTo
    <3>2. CASE k = m + 1
      <4>1. k - 1 = m /\ ~(k <= m) /\ k \in Nat
        BY <3>2
      <4> QED BY <4>1
    <3> QED BY <3>1, <3>2
  <2>4. g[0] = x
    BY <2>1 DEF IteratesTo
  <2>5. IteratesTo(F, x, m + 1, g)
    BY <2>3, <2>4 DEF IteratesTo
  <2> QED BY <2>2, <2>5
<1>3. Nat \subseteq S
  <2> HIDE DEF S
  <2> QED BY <1>1, <1>2, SetInduction
<1> QED BY <1>3

LEMMA IterationAgrees ==
    ASSUME NEW F, NEW x, NEW f, NEW g, NEW n \in Nat, NEW m \in Nat,
           IteratesTo(F, x, n, f), IteratesTo(F, x, m, g),
           NEW k \in Nat, k <= n, k <= m
    PROVE  f[k] = g[k]
<1> DEFINE S == {i \in Nat : i <= n /\ i <= m => f[i] = g[i]}
<1>1. 0 \in S
  BY DEF IteratesTo
<1>2. ASSUME NEW i \in Nat, i \in S PROVE i + 1 \in S
  <2> SUFFICES ASSUME i + 1 <= n, i + 1 <= m PROVE f[i + 1] = g[i + 1]
    OBVIOUS
  <2>1. i + 1 \in 1..n /\ i + 1 \in 1..m /\ (i + 1) - 1 = i
    OBVIOUS
  <2>2. f[i + 1] = F[f[i]] /\ g[i + 1] = F[g[i]]
    BY <2>1 DEF IteratesTo
  <2>3. f[i] = g[i]
    BY <1>2
  <2> QED BY <2>2, <2>3
<1>3. Nat \subseteq S
  <2> HIDE DEF S
  <2> QED BY <1>1, <1>2, SetInduction
<1> QED BY <1>3

\* So the iteration is a function, defined for every number.
Iterates(F, x, f) == f[0] = x /\ \A k \in Nat : f[k + 1] = F[f[k]]

LEMMA IterationExists ==
    ASSUME NEW X, NEW F \in [X -> X], NEW x \in X
    PROVE  \E f \in [Nat -> X] : Iterates(F, x, f)
<1> DEFINE upTo(n) == CHOOSE f \in [Nat -> X] : IteratesTo(F, x, n, f)
           g == [n \in Nat |-> upTo(n)[n]]
<1>1. ASSUME NEW n \in Nat
      PROVE  upTo(n) \in [Nat -> X] /\ IteratesTo(F, x, n, upTo(n))
  BY IterationUpTo
<1> HIDE DEF upTo
<1>2. g \in [Nat -> X]
  BY <1>1
<1>3. g[0] = x
  BY <1>1 DEF IteratesTo
<1>4. ASSUME NEW k \in Nat PROVE g[k + 1] = F[g[k]]
  <2>1. upTo(k)[k] = upTo(k + 1)[k]
    BY <1>1, IterationAgrees
  <2>2. k + 1 \in 1..(k + 1) /\ (k + 1) - 1 = k /\ k + 1 \in Nat
    OBVIOUS
  <2>3. upTo(k + 1)[k + 1] = F[upTo(k + 1)[k]]
    BY <1>1, <2>2 DEF IteratesTo
  <2> QED BY <2>1, <2>2, <2>3
<1>5. Iterates(F, x, g)
  BY <1>3, <1>4 DEF Iterates
<1> QED BY <1>2, <1>5

\* The same for a function that is also given the number of the step.
Steps(G, x, f) == f[0] = x /\ \A k \in Nat : f[k + 1] = G[<<k + 1, f[k]>>]

LEMMA StepsExist ==
    ASSUME NEW X, NEW G \in [Nat \X X -> X], NEW x \in X
    PROVE  \E f \in [Nat -> X] : Steps(G, x, f)
<1> DEFINE F == [s \in Nat \X X |-> <<s[1] + 1, G[<<s[1] + 1, s[2]>>]>>]
<1>1. F \in [Nat \X X -> Nat \X X] /\ <<0, x>> \in Nat \X X
  OBVIOUS
<1>2. PICK h \in [Nat -> Nat \X X] : Iterates(F, <<0, x>>, h)
  <2> HIDE DEF F
  <2> QED BY <1>1, IterationExists
<1> DEFINE S == {k \in Nat : h[k][1] = k}
<1>3. 0 \in S
  BY <1>2 DEF Iterates
<1>4. ASSUME NEW k \in Nat 
      PROVE  h[k + 1][1] = h[k][1] + 1 /\ h[k + 1][2] = G[<<h[k][1] + 1, h[k][2]>>]
  <2>1. h[k] \in Nat \X X
    OBVIOUS
  <2>2. h[k + 1] = F[h[k]]
    BY <1>2 DEF Iterates
  <2> QED BY <2>1, <2>2
<1>5. Nat \subseteq S
  <2>1. ASSUME NEW k \in Nat, k \in S PROVE k + 1 \in S
    <3>1. h[k + 1][1] = h[k][1] + 1
      BY <1>4
    <3> QED BY <2>1, <3>1
  <2> HIDE DEF S
  <2> QED BY <1>3, <2>1, SetInduction
<1> DEFINE f == [k \in Nat |-> h[k][2]]
<1>6. f \in [Nat -> X] /\ f[0] = x
  BY <1>2 DEF Iterates
<1>7. ASSUME NEW k \in Nat PROVE f[k + 1] = G[<<k + 1, f[k]>>]
  <2>1. h[k][1] = k /\ k + 1 \in Nat
    BY <1>5
  <2> QED BY <1>4, <2>1
<1>8. Steps(G, x, f)
  BY <1>6, <1>7 DEF Steps
<1> QED BY <1>6, <1>8

-----------------------------------------------------------------------------
(***************************************************************************)
(* A chain of subsets of a finite set that stands still once it has stood  *)
(* still has come to a stop after as many steps as the set has elements.   *)
(***************************************************************************)
Grows(B, g) ==
    /\ g \in [Nat -> SUBSET B] /\ g[0] # {}
    /\ \A k \in Nat : g[k] \subseteq g[k + 1]
    /\ \A k \in Nat : g[k + 1] = g[k] => g[k + 2] = g[k + 1]

LEMMA GrowthStops ==
    ASSUME NEW B, IsFiniteSet(B), NEW g, Grows(B, g)
    PROVE  Cardinality(B) \in Nat /\ g[Cardinality(B) + 1] = g[Cardinality(B)]
<1> DEFINE S == {k \in Nat : g[k + 1] = g[k] \/ Cardinality(g[k]) >= k + 1}
<1>1. ASSUME NEW k \in Nat
      PROVE  g[k] \subseteq B /\ IsFiniteSet(g[k]) /\ Cardinality(g[k]) \in Nat
  <2>1. g[k] \in SUBSET B
    BY DEF Grows
  <2> QED BY <2>1, FS_Subset, FS_CardinalityType
<1>2. 0 \in S
  <2>1. Cardinality(g[0]) # 0
    BY <1>1, FS_EmptySet DEF Grows
  <2> QED BY <1>1, <2>1
<1>3. ASSUME NEW k \in Nat, k \in S PROVE k + 1 \in S
  <2>1. CASE g[k + 1] = g[k]
    <3>1. g[(k + 1) + 1] = g[k + 1]
      BY <2>1 DEF Grows
    <3> QED BY <3>1
  <2>2. CASE g[k + 1] # g[k]
    <3>1. PICK x \in g[k + 1] : x \notin g[k]
      BY <2>2 DEF Grows
    <3>2. g[k] \cup {x} \in SUBSET g[k + 1] /\ k + 1 \in Nat
      BY <3>1 DEF Grows
    <3>3. Cardinality(g[k] \cup {x}) = Cardinality(g[k]) + 1
      BY <1>1, <3>1, FS_AddElement
    <3>4. Cardinality(g[k] \cup {x}) <= Cardinality(g[k + 1])
      BY <1>1, <3>2, FS_Subset
    <3>5. Cardinality(g[k]) >= k + 1
      BY <1>3, <2>2
    <3> QED BY <1>1, <3>2, <3>3, <3>4, <3>5
  <2> QED BY <2>1, <2>2
<1>4. Nat \subseteq S
  <2> HIDE DEF S
  <2> QED BY <1>2, <1>3, SetInduction
<1> DEFINE n == Cardinality(B)
<1>5. n \in Nat
  BY FS_CardinalityType
<1>6. Cardinality(g[n]) <= n
  BY <1>1, <1>5, FS_Subset
<1>7. n \in S
  BY <1>4, <1>5
<1> QED BY <1>1, <1>5, <1>6, <1>7
=============================================================================
