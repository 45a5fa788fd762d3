---------------------------- MODULE SearchProofs ----------------------------
(***************************************************************************)
(* Proofs about the searches of module RegionCFG: aug_dfs finds what there *)
(* is, what it finds are closed blocks on paths to the target, and so the  *)
(* regions that buildCFG makes, augmented or not, pass all of its checks.  *)
(***************************************************************************)
EXTENDS RegionCFG, BlockGraphProofs, Induction

-----------------------------------------------------------------------------
(***************************************************************************)
(* Following edges E from a set S, round by round.                         *)
(***************************************************************************)
Round(E, S) == S \cup UNION {E[b] : b \in S}

Rounds(E, S, g) ==
    /\ g[0] = S /\ \A k \in Nat : g[k + 1] = Round(E, g[k])
    /\ \A k \in Nat : Grown(E, S, k) = g[k]

LEMMA GrownRounds ==
    ASSUME NEW B, NEW E, \A b \in B : E[b] \subseteq B, NEW S \in SUBSET B
    PROVE  \E g \in [Nat -> SUBSET B] : Rounds(E, S, g)
<1> DEFINE X == SUBSET B
           F == [T \in X |-> Round(E, T)]
           Eq(g) == g = [i \in Nat |->
                          IF i = 0 THEN S ELSE g[i - 1] \cup UNION {E[b] : b \in g[i - 1]}]
           grown == CHOOSE g : Eq(g)
<1>1. F \in [X -> X] /\ S \in X
  BY DEF Round
<1>2. PICK f \in [Nat -> X] : Iterates(F, S, f)
  <2> HIDE DEF F, X
  <2> QED BY <1>1, IterationExists
<1>3. f[0] = S /\ \A k \in Nat : f[k] \in X /\ f[k + 1] = Round(E, f[k])
  BY <1>2 DEF Iterates
<1>4. Eq(f)
  <2>1. ASSUME NEW k \in Nat, k # 0
        PROVE  f[k] = f[k - 1] \cup UNION {E[b] : b \in f[k - 1]}
    <3>1. k - 1 \in Nat /\ (k - 1) + 1 = k
      BY <2>1
    <3>2. f[(k - 1) + 1] = Round(E, f[k - 1])
      BY <1>3, <3>1
    <3> QED BY <3>1, <3>2 DEF Round
  <2>2. f = [k \in Nat |-> f[k]]
    BY <1>2
  <2> HIDE DEF F, X
  <2> QED BY <1>3, <2>1, <2>2
<1>5. Eq(grown)
  <2> HIDE DEF Eq
  <2> QED BY <1>4
<1>6. \A k \in Nat : Grown(E, S, k) = grown[k]
  BY DEF Grown
<1>7. grown[0] = S /\ \A k \in Nat : grown[k + 1] = Round(E, grown[k])
  <2>1. grown[0] = S
    <3> HIDE DEF grown
    <3> QED BY <1>5
  <2>2. ASSUME NEW k \in Nat PROVE grown[k + 1] = Round(E, grown[k])
    <3> HIDE DEF grown
    <3>1. k + 1 \in Nat /\ k + 1 # 0 /\ (k + 1) - 1 = k
      OBVIOUS
    <3> QED BY <1>5, <3>1 DEF Round
  <2> QED BY <2>1, <2>2
<1>8. \A k \in Nat : grown[k] = f[k]
  <2> HIDE DEF grown
  <2> DEFINE T == {k \in Nat : grown[k] = f[k]}
  <2>1. 0 \in T
    BY <1>3, <1>7
  <2>2. ASSUME NEW k \in Nat, k \in T PROVE k + 1 \in T
    BY <1>3, <1>7, <2>2
  <2> HIDE DEF T
  <2>3. Nat \subseteq T
    BY <2>1, <2>2, SetInduction
  <2> QED BY <2>3 DEF T
<1>9. f \in [Nat -> SUBSET B]
  BY <1>2
<1>10. Rounds(E, S, f)
  BY <1>3, <1>6, <1>8 DEF Rounds
<1> QED BY <1>9, <1>10

\* After enough rounds, everything that can be reached has been, and no more.
LEMMA GrownFrom ==
    ASSUME NEW B, IsFiniteSet(B), NEW E, \A b \in B : E[b] \subseteq B,
           NEW S \in SUBSET B, NEW n \in Nat, Cardinality(B) <= n
    PROVE  LET R == Grown(E, S, n)
           IN  /\ S \subseteq R /\ R \subseteq B /\ \A b \in R : E[b] \subseteq R
               /\ \A C \in SUBSET B :
                     S \subseteq C /\ (\A b \in C : E[b] \subseteq C) => R \subseteq C
<1>0. PICK g \in [Nat -> SUBSET B] : Rounds(E, S, g)
  BY GrownRounds
<1>1. /\ g[0] = S /\ \A k \in Nat : g[k + 1] = Round(E, g[k])
      /\ \A k \in Nat : Grown(E, S, k) = g[k]
  BY <1>0 DEF Rounds
<1>2. ASSUME NEW C \in SUBSET B, S \subseteq C, \A b \in C : E[b] \subseteq C,
             NEW k \in Nat
      PROVE  g[k] \subseteq C
  <2> DEFINE T == {i \in Nat : g[i] \subseteq C}
  <2>1. 0 \in T
    BY <1>1, <1>2
  <2>2. ASSUME NEW i \in Nat, i \in T PROVE i + 1 \in T
    BY <1>1, <1>2, <2>2 DEF Round
  <2> HIDE DEF T
  <2>3. Nat \subseteq T
    BY <2>1, <2>2, SetInduction
  <2> QED BY <2>3 DEF T
<1>3. \A k \in Nat : g[k] \subseteq g[k + 1]
  BY <1>1 DEF Round
<1>4. S \subseteq g[n]
  <2> DEFINE T == {i \in Nat : S \subseteq g[i]}
  <2>1. 0 \in T
    BY <1>1
  <2>2. ASSUME NEW i \in Nat, i \in T PROVE i + 1 \in T
    BY <1>3, <2>2
  <2> HIDE DEF T
  <2>3. Nat \subseteq T
    BY <2>1, <2>2, SetInduction
  <2> QED BY <2>3 DEF T
<1>5. g[n + 1] = g[n]
  <2>1. CASE S = {}
    <3>0. {} \in SUBSET B /\ S \subseteq {} /\ \A b \in {} : E[b] \subseteq {}
      BY <2>1
    <3>1. \A k \in Nat : g[k] \subseteq {}
      BY <1>2, <3>0
    <3>2. g[n] \subseteq {} /\ g[n + 1] \subseteq {}
      BY <3>1
    <3> QED BY <3>2
  <2>2. CASE S # {}
    <3> DEFINE m == Cardinality(B)
               T == {i \in Nat : g[(m + i) + 1] = g[m + i]}
    <3>1. \A k \in Nat : g[k + 1] = g[k] => g[k + 2] = g[k + 1]
      <4>1. \A k \in Nat : k + 1 \in Nat /\ (k + 1) + 1 = k + 2
        OBVIOUS
      <4>2. ASSUME NEW k \in Nat, g[k + 1] = g[k] PROVE g[k + 2] = g[k + 1]
        <5>1. g[(k + 1) + 1] = Round(E, g[k + 1]) /\ g[k + 1] = Round(E, g[k])
          BY <1>1, <4>1
        <5> QED BY <4>1, <4>2, <5>1
      <4> QED BY <4>2
    <3>2. Grows(B, g)
      BY <1>1, <1>3, <2>2, <3>1 DEF Grows
    <3>3. m \in Nat /\ g[m + 1] = g[m]
      BY <3>2, GrowthStops
    <3> HIDE DEF m
    <3>4. 0 \in T
      BY <3>3
    <3>5. ASSUME NEW i \in Nat, i \in T PROVE i + 1 \in T
      <4>1. m + i \in Nat /\ (m + i) + 2 = (m + (i + 1)) + 1 /\ (m + i) + 1 = m + (i + 1)
        BY <3>3
      <4> QED BY <3>1, <3>5, <4>1
    <3> HIDE DEF T
    <3>6. Nat \subseteq T
      BY <3>4, <3>5, SetInduction
    <3>7. n - m \in Nat /\ m + (n - m) = n
      BY <3>3 DEF m
    <3> QED BY <3>6, <3>7 DEF T
  <2> QED BY <2>1, <2>2
<1>6. \A b \in g[n] : E[b] \subseteq g[n]
  BY <1>1, <1>5 DEF Round
<1>7. Grown(E, S, n) = g[n]
  BY <1>1
<1> QED BY <1>1, <1>2, <1>4, <1>6, <1>7

\* The closure within the addresses of the program.
LEMMA ClosureFrom ==
    ASSUME NEW E, \A b \in Addr : E[b] \subseteq Addr, NEW S \in SUBSET Addr
    PROVE  LET R == Closure(E, S)
           IN  /\ S \subseteq R /\ R \subseteq Addr /\ \A b \in R : E[b] \subseteq R
               /\ \A C \in SUBSET Addr :
                     S \subseteq C /\ (\A b \in C : E[b] \subseteq C) => R \subseteq C
<1>1. IsFiniteSet(Addr) /\ Cardinality(Addr) = N /\ N \in Nat /\ N <= N
  BY FS_Interval, NAssumption DEF Addr
<1> HIDE DEF Addr
<1> QED BY <1>1, GrownFrom DEF Closure


-----------------------------------------------------------------------------
(***************************************************************************)
(* aug_dfs as a function: of the number of blocks the path may still get,  *)
(* the block it is called on and the blocks already seen.                  *)
(***************************************************************************)
Result == [seen : SUBSET Addr, path : SUBSET Addr]
Finder == [Addr \X SUBSET Addr -> Result]

LEMMA FailedTyped ==
    ASSUME NEW seen \in SUBSET Addr
    PROVE  Failed(seen) \in Result /\ Failed(seen).seen = seen /\ Failed(seen).path = {}
BY DEF Failed, Result

LEMMA TriedTyped ==
    ASSUME NEW G, G.succs \in [Addr -> SUBSET Addr], NEW b \in Addr, NEW t,
           NEW acc \in Result, NEW deeper \in Finder
    PROVE  Tried(G, b, t, acc, deeper) \in Result
<1>1. CASE t \in G.succs[b]
  <2> DEFINE r == deeper[<<t, acc.seen>>]
  <2>1. t \in Addr /\ acc.seen \in SUBSET Addr /\ acc.path \in SUBSET Addr
    BY <1>1 DEF Result
  <2>2. <<t, acc.seen>> \in Addr \X SUBSET Addr
    BY <2>1
  <2>3. r \in Result
    BY <2>2 DEF Finder
  <2> HIDE DEF r
  <2>4. Reported(b, r) \in SUBSET Addr
    BY <2>3 DEF Reported, Result
  <2>5. [seen |-> r.seen, path |-> acc.path \cup Reported(b, r)] \in Result
    BY <2>1, <2>3, <2>4 DEF Result
  <2> QED BY <1>1, <2>5 DEF Tried, r
<1>2. CASE t \notin G.succs[b]
  BY <1>2 DEF Tried
<1> QED BY <1>1, <1>2

\* The loop over the successors, try by try.
Tries(G, b, order, seen, deeper, f) ==
    /\ f[0] = Failed(seen)
    /\ \A k \in Nat : f[k + 1] = Tried(G, b, order[k + 1], f[k], deeper)
    /\ TryAll(G, b, order, seen, deeper) = f[N]

LEMMA TriesExist ==
    ASSUME NEW G, G.succs \in [Addr -> SUBSET Addr], NEW b \in Addr, NEW order,
           NEW seen \in SUBSET Addr, NEW deeper \in Finder
    PROVE  \E f \in [Nat -> Result] : Tries(G, b, order, seen, deeper, f)
<1> DEFINE F == [x \in Nat \X Result |-> Tried(G, b, order[x[1]], x[2], deeper)]
           Eq(g) == g = [i \in Nat |->
                          IF i = 0 THEN Failed(seen)
                          ELSE Tried(G, b, order[i], g[i - 1], deeper)]
           tried == CHOOSE g : Eq(g)
<1>1. F \in [Nat \X Result -> Result] /\ Failed(seen) \in Result
  BY FailedTyped, TriedTyped
<1>2. PICK f \in [Nat -> Result] : Steps(F, Failed(seen), f)
  <2> HIDE DEF F
  <2> QED BY <1>1, StepsExist
<1>3. /\ f[0] = Failed(seen)
      /\ \A k \in Nat : f[k + 1] = Tried(G, b, order[k + 1], f[k], deeper)
  <2>1. ASSUME NEW k \in Nat PROVE f[k + 1] = Tried(G, b, order[k + 1], f[k], deeper)
    <3>1. <<k + 1, f[k]>> \in Nat \X Result
      OBVIOUS
    <3> HIDE DEF F
    <3>2. f[k + 1] = F[<<k + 1, f[k]>>]
      BY <1>2 DEF Steps
    <3> QED BY <3>1, <3>2 DEF F
  <2> QED BY <1>2, <2>1 DEF Steps
<1> HIDE DEF F
<1>4. Eq(f)
  <2>1. ASSUME NEW k \in Nat, k # 0
        PROVE  f[k] = Tried(G, b, order[k], f[k - 1], deeper)
    <3>1. k - 1 \in Nat /\ (k - 1) + 1 = k
      BY <2>1
    <3>2. f[(k - 1) + 1] = Tried(G, b, order[(k - 1) + 1], f[k - 1], deeper)
      BY <1>3, <3>1
    <3> QED BY <3>1, <3>2
  <2>2. f = [k \in Nat |-> f[k]]
    BY <1>2
  <2> QED BY <1>3, <2>1, <2>2
<1>5. Eq(tried)
  <2> HIDE DEF Eq
  <2> QED BY <1>4
<1>6. TryAll(G, b, order, seen, deeper) = tried[N]
  BY DEF TryAll
<1>7. /\ tried[0] = Failed(seen)
      /\ \A k \in Nat : tried[k + 1] = Tried(G, b, order[k + 1], tried[k], deeper)
  <2> HIDE DEF tried
  <2>1. tried[0] = Failed(seen)
    BY <1>5
  <2>2. ASSUME NEW k \in Nat
        PROVE  tried[k + 1] = Tried(G, b, order[k + 1], tried[k], deeper)
    <3>1. k + 1 \in Nat /\ k + 1 # 0 /\ (k + 1) - 1 = k
      OBVIOUS
    <3> QED BY <1>5, <3>1
  <2> QED BY <2>1, <2>2
<1> HIDE DEF tried
<1>8. \A k \in Nat : tried[k] = f[k]
  <2> DEFINE T == {k \in Nat : tried[k] = f[k]}
  <2>1. 0 \in T
    BY <1>3, <1>7
  <2>2. ASSUME NEW k \in Nat, k \in T PROVE k + 1 \in T
    BY <1>3, <1>7, <2>2
  <2> HIDE DEF T
  <2>3. Nat \subseteq T
    BY <2>1, <2>2, SetInduction
  <2> QED BY <2>3 DEF T
<1>9. Tries(G, b, order, seen, deeper, f)
  BY <1>3, <1>6, <1>8, NAssumption DEF Tries
<1> QED BY <1>9

LEMMA TryAllTyped ==
    ASSUME NEW G, G.succs \in [Addr -> SUBSET Addr], NEW b \in Addr, NEW order,
           NEW seen \in SUBSET Addr, NEW deeper \in Finder
    PROVE  TryAll(G, b, order, seen, deeper) \in Result
<1>1. PICK f \in [Nat -> Result] : Tries(G, b, order, seen, deeper, f)
  BY TriesExist
<1> QED BY <1>1, NAssumption DEF Tries

\* One activation, by the place where it is called.
LEMMA VisitCases ==
    ASSUME NEW c, NEW G, NEW target, NEW order, NEW left, NEW deeper,
           NEW b \in Addr, NEW seen \in SUBSET Addr
    PROVE  LET r == Visit(c, G, target, order, left, deeper)[<<b, seen>>]
           IN  /\ b = target => r = [seen |-> seen, path |-> {b}]
               /\ b # target /\ (left = 0 \/ b \in seen) => r = Failed(seen)
               /\ b # target /\ left # 0 /\ b \notin seen =>
                     r = IF Blocked(c, G, b, target, seen \cup {b})
                         THEN Failed(seen \cup {b})
                         ELSE TryAll(G, b, order, seen \cup {b}, deeper)
<1> <<b, seen>> \in Addr \X SUBSET Addr
  OBVIOUS
<1> QED BY DEF Visit

LEMMA VisitTyped ==
    ASSUME NEW c, NEW G, G.succs \in [Addr -> SUBSET Addr], NEW target, NEW order,
           NEW left, NEW deeper, left = 0 \/ deeper \in Finder
    PROVE  Visit(c, G, target, order, left, deeper) \in Finder
<1> DEFINE V == Visit(c, G, target, order, left, deeper)
<1>1. ASSUME NEW b \in Addr, NEW seen \in SUBSET Addr PROVE V[<<b, seen>>] \in Result
  <2>1. [seen |-> seen, path |-> {b}] \in Result
    BY DEF Result
  <2>2. seen \cup {b} \in SUBSET Addr
    OBVIOUS
  <2>3. Failed(seen) \in Result /\ Failed(seen \cup {b}) \in Result
    BY <2>2, FailedTyped
  <2>4. left # 0 => TryAll(G, b, order, seen \cup {b}, deeper) \in Result
    BY <2>2, TryAllTyped
  <2> QED BY <2>1, <2>3, <2>4, VisitCases
<1>2. V = [at \in Addr \X SUBSET Addr |-> V[at]]
  BY DEF Visit
<1> HIDE DEF V
<1>3. \A at \in Addr \X SUBSET Addr : V[at] \in Result
  BY <1>1
<1> QED BY <1>2, <1>3 DEF Finder, V

\* The recursion, level by level.
Levels(c, G, target, order, d) ==
    /\ d[0] = Visit(c, G, target, order, 0, d[0])
    /\ \A k \in Nat : d[k + 1] = Visit(c, G, target, order, k + 1, d[k])
    /\ \A s : Search(c, G, s, target, order) = d[MaxLen][<<s, {}>>].path

LEMMA LevelsExist ==
    ASSUME NEW c, NEW G, G.succs \in [Addr -> SUBSET Addr], NEW target, NEW order
    PROVE  \E d \in [Nat -> Finder] : Levels(c, G, target, order, d)
<1> DEFINE V(left, deeper) == Visit(c, G, target, order, left, deeper)
           F == [x \in Nat \X Finder |-> V(x[1], x[2])]
           Eq(g) == g = [left \in Nat |-> Visit(c, G, target, order, left, g[left - 1])]
           dfs == CHOOSE g : Eq(g)
<1>0. \A x, y : V(0, x) = V(0, y)
  BY DEF Visit
<1>1. F \in [Nat \X Finder -> Finder] /\ V(0, {}) \in Finder
  <2>1. \A k \in Nat, x \in Finder : V(k, x) \in Finder
    BY VisitTyped
  <2>2. V(0, {}) \in Finder
    BY VisitTyped
  <2> HIDE DEF V
  <2> QED BY <2>1, <2>2
<1>2. PICK d \in [Nat -> Finder] : Steps(F, V(0, {}), d)
  <2> HIDE DEF F, V
  <2> QED BY <1>1, StepsExist
<1>3. d[0] = V(0, {}) /\ \A k \in Nat : d[k + 1] = V(k + 1, d[k])
  <2> HIDE DEF V
  <2>1. ASSUME NEW k \in Nat PROVE d[k + 1] = V(k + 1, d[k])
    <3>1. <<k + 1, d[k]>> \in Nat \X Finder
      OBVIOUS
    <3> HIDE DEF F
    <3>2. d[k + 1] = F[<<k + 1, d[k]>>]
      BY <1>2 DEF Steps
    <3> QED BY <3>1, <3>2 DEF F
  <2> QED BY <1>2, <2>1 DEF Steps
<1> HIDE DEF F
<1>4. Eq(d)
  <2>1. ASSUME NEW k \in Nat PROVE d[k] = V(k, d[k - 1])
    <3>1. CASE k = 0
      <4>1. d[0] = V(0, d[0 - 1])
        BY <1>0, <1>3
      <4> QED BY <3>1, <4>1
    <3>2. CASE k # 0
      <4>1. k - 1 \in Nat /\ (k - 1) + 1 = k
        BY <3>2
      <4>2. d[(k - 1) + 1] = V((k - 1) + 1, d[k - 1])
        BY <1>3, <4>1
      <4> QED BY <4>1, <4>2
    <3> QED BY <3>1, <3>2
  <2>2. d = [k \in Nat |-> d[k]]
    BY <1>2
  <2> QED BY <2>1, <2>2
<1>5. Eq(dfs)
  <2> HIDE DEF Eq
  <2> QED BY <1>4
<1>6. \A s : Search(c, G, s, target, order) = dfs[MaxLen][<<s, {}>>].path
  BY DEF Search
<1>7. dfs[0] = V(0, dfs[0 - 1]) /\ \A k \in Nat : dfs[k + 1] = V(k + 1, dfs[k])
  <2> HIDE DEF dfs
  <2>1. dfs[0] = V(0, dfs[0 - 1])
    BY <1>5
  <2>2. ASSUME NEW k \in Nat PROVE dfs[k + 1] = V(k + 1, dfs[k])
    <3>1. k + 1 \in Nat /\ (k + 1) - 1 = k
      OBVIOUS
    <3> QED BY <1>5, <3>1
  <2> QED BY <2>1, <2>2
<1> HIDE DEF dfs
<1>8. \A k \in Nat : dfs[k] = d[k]
  <2> DEFINE T == {k \in Nat : dfs[k] = d[k]}
  <2>1. 0 \in T
    BY <1>0, <1>3, <1>7
  <2>2. ASSUME NEW k \in Nat, k \in T PROVE k + 1 \in T
    BY <1>3, <1>7, <2>2
  <2> HIDE DEF T
  <2>3. Nat \subseteq T
    BY <2>1, <2>2, SetInduction
  <2> QED BY <2>3 DEF T
<1>9. d[0] = V(0, d[0])
  BY <1>0, <1>3
<1>10. dfs[MaxLen] = d[MaxLen]
  BY <1>8, MaxLenAssumption
<1>11. Levels(c, G, target, order, d)
  BY <1>3, <1>6, <1>9, <1>10 DEF Levels
<1> QED BY <1>11


-----------------------------------------------------------------------------
(***************************************************************************)
(* What is found is made of paths.  Paths are spoken of through sets that  *)
(* are closed under the edges between the blocks of P: going forward from  *)
(* b, without passing the target, one comes to all of P, and so one does   *)
(* going backward from the target.                                         *)
(***************************************************************************)
\* aug_dfs goes on through block b.
Passed(c, G, b) == HasKind(c, G, b, {"jal"}) \/ ~HasKind(c, G, b, DeadEnds)

ForwardClosed(G, target, P, R) == \A x \in (R \cap P) \ {target} : G.succs[x] \cap P \subseteq R
BackwardClosed(G, target, P, R) ==
    \A x \in P \ {target} : G.succs[x] \cap P \cap R # {} => x \in R

PathTo(c, G, b, target, P) ==
    /\ b \in P /\ target \in P
    /\ \A x \in P \ {target} : Passed(c, G, x) /\ G.succs[x] \cap P # {}
    /\ \A R \in SUBSET Addr : b \in R /\ ForwardClosed(G, target, P, R) => P \subseteq R
    /\ \A R \in SUBSET Addr : target \in R /\ BackwardClosed(G, target, P, R) => P \subseteq R

\* A path from a successor of b extends to b, and joins others from there.
LEMMA PathsJoin ==
    ASSUME NEW c, NEW G, NEW b \in Addr, NEW target, b # target, Passed(c, G, b),
           NEW P \in SUBSET Addr, P = {} \/ PathTo(c, G, b, target, P),
           NEW t \in G.succs[b],
           NEW Q \in SUBSET Addr, PathTo(c, G, t, target, Q)
    PROVE  PathTo(c, G, b, target, P \cup (Q \cup {b}))
<1> DEFINE W == P \cup (Q \cup {b})
<1>1. b \in W /\ target \in W /\ t \in Q /\ P \subseteq W /\ Q \subseteq W
  BY DEF PathTo
<1>2. ASSUME NEW x \in W \ {target} PROVE Passed(c, G, x) /\ G.succs[x] \cap W # {}
  <2>1. CASE x \in P
    BY <2>1 DEF PathTo
  <2>2. CASE x \in Q
    BY <2>2 DEF PathTo
  <2>3. CASE x = b
    BY <1>1, <2>3
  <2> QED BY <2>1, <2>2, <2>3
<1>3. ASSUME NEW R \in SUBSET Addr, b \in R, ForwardClosed(G, target, W, R)
      PROVE  W \subseteq R
  <2>1. ForwardClosed(G, target, P, R) /\ ForwardClosed(G, target, Q, R)
    BY <1>1, <1>3 DEF ForwardClosed
  <2>2. t \in R
    BY <1>1, <1>3 DEF ForwardClosed
  <2> HIDE DEF W
  <2>3. P \subseteq R /\ Q \subseteq R
    BY <1>3, <2>1, <2>2 DEF PathTo
  <2> QED BY <1>3, <2>3 DEF W
<1>4. ASSUME NEW R \in SUBSET Addr, target \in R, BackwardClosed(G, target, W, R)
      PROVE  W \subseteq R
  <2>1. BackwardClosed(G, target, P, R) /\ BackwardClosed(G, target, Q, R)
    BY <1>1, <1>4 DEF BackwardClosed
  <2>2. P \subseteq R /\ Q \subseteq R
    BY <1>4, <2>1 DEF PathTo
  <2>3. b \in R
    BY <1>1, <1>4, <2>2 DEF BackwardClosed
  <2> QED BY <2>2, <2>3
<1> HIDE DEF W
<1>5. PathTo(c, G, b, target, W)
  BY <1>1, <1>2, <1>3, <1>4 DEF PathTo
<1> QED BY <1>5 DEF W

Finds(c, G, target, d) ==
    \A b \in Addr, seen \in SUBSET Addr :
       LET r == d[<<b, seen>>]
       IN  seen \subseteq r.seen /\ (r.path # {} => PathTo(c, G, b, target, r.path))

LEMMA TryAllFinds ==
    ASSUME NEW c, NEW G, G.succs \in [Addr -> SUBSET Addr], NEW target, NEW order,
           NEW deeper \in Finder, Finds(c, G, target, deeper),
           NEW b \in Addr, b # target, Passed(c, G, b), NEW seen \in SUBSET Addr
    PROVE  LET r == TryAll(G, b, order, seen, deeper)
           IN  seen \subseteq r.seen /\ (r.path # {} => PathTo(c, G, b, target, r.path))
<1> DEFINE OK(r) == /\ seen \subseteq r.seen
                    /\ r.path # {} => PathTo(c, G, b, target, r.path)
<1>1. PICK f \in [Nat -> Result] : Tries(G, b, order, seen, deeper, f)
  BY TriesExist
<1>2. OK(f[0])
  BY <1>1, FailedTyped DEF Tries
<1>3. ASSUME NEW acc \in Result, OK(acc), NEW t
      PROVE  OK(Tried(G, b, t, acc, deeper))
  <2>1. CASE t \notin G.succs[b]
    BY <1>3, <2>1 DEF Tried
  <2>2. CASE t \in G.succs[b]
    <3> DEFINE r == deeper[<<t, acc.seen>>]
    <3>1. t \in Addr /\ acc.seen \in SUBSET Addr /\ acc.path \in SUBSET Addr
      BY <2>2 DEF Result
    <3>2. r \in Result
      BY <3>1 DEF Finder
    <3>3. acc.seen \subseteq r.seen /\ (r.path # {} => PathTo(c, G, t, target, r.path))
      BY <3>1 DEF Finds
    <3> HIDE DEF r
    <3>4. Tried(G, b, t, acc, deeper) =
            [seen |-> r.seen, path |-> acc.path \cup Reported(b, r)]
      BY <2>2 DEF Tried, r
    <3> DEFINE q == Tried(G, b, t, acc, deeper)
    <3>5. q.seen = r.seen /\ q.path = acc.path \cup Reported(b, r)
      BY <3>4
    <3> HIDE DEF q
    <3>6. seen \subseteq q.seen
      BY <1>3, <3>3, <3>5
    <3>7. CASE r.path = {}
      <4>1. q.path = acc.path
        BY <3>5, <3>7 DEF Reported
      <4> QED BY <1>3, <3>6, <4>1 DEF q
    <3>8. CASE r.path # {}
      <4>1. q.path = acc.path \cup (r.path \cup {b})
        BY <3>5, <3>8 DEF Reported
      <4>2. r.path \in SUBSET Addr /\ PathTo(c, G, t, target, r.path)
        BY <3>2, <3>3, <3>8 DEF Result
      <4>3. acc.path = {} \/ PathTo(c, G, b, target, acc.path)
        BY <1>3
      <4>4. PathTo(c, G, b, target, acc.path \cup (r.path \cup {b}))
        BY <2>2, <3>1, <4>2, <4>3, PathsJoin
      <4> QED BY <3>6, <4>1, <4>4 DEF q
    <3> QED BY <3>7, <3>8
  <2> QED BY <2>1, <2>2
<1> HIDE DEF OK
<1> DEFINE T == {k \in Nat : OK(f[k])}
<1>4. 0 \in T
  BY <1>2
<1>5. ASSUME NEW k \in Nat, k \in T PROVE k + 1 \in T
  <2>1. f[k] \in Result /\ OK(f[k]) /\ f[k + 1] = Tried(G, b, order[k + 1], f[k], deeper)
    BY <1>1, <1>5 DEF Tries
  <2> QED BY <1>3, <2>1
<1> HIDE DEF T
<1>6. Nat \subseteq T
  BY <1>4, <1>5, SetInduction
<1>7. OK(f[N])
  BY <1>6, NAssumption DEF T
<1> QED BY <1>1, <1>7 DEF OK, Tries

LEMMA VisitFinds ==
    ASSUME NEW c, NEW G, G.succs \in [Addr -> SUBSET Addr], NEW target, NEW order,
           NEW left, NEW deeper,
           left = 0 \/ (deeper \in Finder /\ Finds(c, G, target, deeper))
    PROVE  Finds(c, G, target, Visit(c, G, target, order, left, deeper))
<1> DEFINE OK(b, seen, r) ==
             seen \subseteq r.seen /\ (r.path # {} => PathTo(c, G, b, target, r.path))
<1> SUFFICES ASSUME NEW b \in Addr, NEW seen \in SUBSET Addr
             PROVE  OK(b, seen, Visit(c, G, target, order, left, deeper)[<<b, seen>>])
  BY DEF Finds
<1> DEFINE r == Visit(c, G, target, order, left, deeper)[<<b, seen>>]
<1>1. /\ b = target => r = [seen |-> seen, path |-> {b}]
      /\ b # target /\ (left = 0 \/ b \in seen) => r = Failed(seen)
      /\ b # target /\ left # 0 /\ b \notin seen =>
            r = IF Blocked(c, G, b, target, seen \cup {b})
                THEN Failed(seen \cup {b})
                ELSE TryAll(G, b, order, seen \cup {b}, deeper)
  BY VisitCases
<1> HIDE DEF r
<1>2. CASE b = target
  <2>1. PathTo(c, G, b, target, {b})
    BY <1>2 DEF PathTo
  <2>2. r.seen = seen /\ r.path = {b}
    BY <1>1, <1>2
  <2> QED BY <1>2, <2>1, <2>2 DEF r
<1>3. CASE r = Failed(seen) \/ r = Failed(seen \cup {b})
  <2>1. seen \cup {b} \in SUBSET Addr
    OBVIOUS
  <2> QED BY <1>3, <2>1, FailedTyped DEF r
<1>4. CASE /\ b # target /\ left # 0 /\ ~Blocked(c, G, b, target, seen \cup {b})
           /\ r = TryAll(G, b, order, seen \cup {b}, deeper)
  <2>1. Passed(c, G, b)
    BY <1>4 DEF Passed, Blocked
  <2>2. seen \cup {b} \in SUBSET Addr
    OBVIOUS
  <2>3. deeper \in Finder /\ Finds(c, G, target, deeper)
    BY <1>4
  <2> DEFINE q == TryAll(G, b, order, seen \cup {b}, deeper)
  <2>4. seen \cup {b} \subseteq q.seen /\ (q.path # {} => PathTo(c, G, b, target, q.path))
    BY <1>4, <2>1, <2>2, <2>3, TryAllFinds
  <2> QED BY <1>4, <2>4 DEF r
<1> QED BY <1>1, <1>2, <1>3, <1>4

\* What aug_dfs reports is made of paths from where it starts to its target.
LEMMA SearchFindsPaths ==
    ASSUME NEW c, NEW G, G.succs \in [Addr -> SUBSET Addr], NEW target, NEW order,
           NEW s \in Addr
    PROVE  LET P == Search(c, G, s, target, order)
           IN  P \in SUBSET Addr /\ (P # {} => PathTo(c, G, s, target, P))
<1>1. PICK d \in [Nat -> Finder] : Levels(c, G, target, order, d)
  BY LevelsExist
<1> DEFINE T == {k \in Nat : Finds(c, G, target, d[k])}
<1>2. 0 \in T
  <2>1. Finds(c, G, target, Visit(c, G, target, order, 0, d[0]))
    BY VisitFinds
  <2> QED BY <1>1, <2>1 DEF Levels
<1>3. ASSUME NEW k \in Nat, k \in T PROVE k + 1 \in T
  <2>1. Finds(c, G, target, Visit(c, G, target, order, k + 1, d[k]))
    BY <1>3, VisitFinds
  <2> QED BY <1>1, <2>1 DEF Levels
<1> HIDE DEF T
<1>4. Nat \subseteq T
  BY <1>2, <1>3, SetInduction
<1>5. Finds(c, G, target, d[MaxLen]) /\ d[MaxLen] \in Finder
  BY <1>4, MaxLenAssumption DEF T
<1>6. Search(c, G, s, target, order) = d[MaxLen][<<s, {}>>].path
  BY <1>1 DEF Levels
<1>7. <<s, {}>> \in Addr \X SUBSET Addr
  OBVIOUS
<1>8. d[MaxLen][<<s, {}>>] \in Result
  BY <1>5, <1>7 DEF Finder
<1> QED BY <1>5, <1>6, <1>8 DEF Finds, Result


-----------------------------------------------------------------------------
(***************************************************************************)
(* A search that fails has exhausted the blocks it can get to: whatever it *)
(* has seen leads to blocks it has seen, and the target is not among them. *)
(* Bs are the known blocks; a search is given enough length when there are *)
(* no more than one more of them unseen.                                   *)
(***************************************************************************)
Exhausted(c, G, target, Bs, b, seen, S) ==
    /\ target \notin S /\ b \in S /\ seen \subseteq S /\ S \subseteq Bs
    /\ \A x \in S \ seen : ~HasKind(c, G, x, DeadEnds) => G.succs[x] \subseteq S

Exhausts(c, G, target, Bs, k, d) ==
    \A b \in Bs, seen \in SUBSET Bs :
       (/\ target \notin seen /\ Cardinality(Bs \ seen) <= k + 1
        /\ d[<<b, seen>>].path = {}) =>
          Exhausted(c, G, target, Bs, b, seen, d[<<b, seen>>].seen)

KnownBlocks(G, Bs) == Bs \subseteq Addr /\ \A b \in Bs : G.succs[b] \subseteq Bs

LEMMA BlocksFinite == \A S : S \subseteq Addr => IsFiniteSet(S) /\ Cardinality(S) \in Nat
<1>1. IsFiniteSet(Addr)
  BY FS_Interval, NAssumption DEF Addr
<1> QED BY <1>1, FS_Subset, FS_CardinalityType

LEMMA FewerUnseen ==
    ASSUME NEW Bs \in SUBSET Addr, NEW seen, NEW S, NEW b \in Bs, b \notin seen,
           seen \cup {b} \subseteq S, NEW k \in Nat, Cardinality(Bs \ seen) <= k + 1
    PROVE  Cardinality(Bs \ S) <= k
<1> DEFINE U == Bs \ seen
<1>1. IsFiniteSet(U) /\ b \in U /\ Cardinality(U) \in Nat
  BY BlocksFinite
<1>2. Cardinality(U \ {b}) = Cardinality(U) - 1 /\ IsFiniteSet(U \ {b})
  BY <1>1, FS_RemoveElement
<1>3. Bs \ S \subseteq U \ {b}
  OBVIOUS
<1>4. Cardinality(Bs \ S) <= Cardinality(U \ {b})
  BY <1>2, <1>3, FS_Subset
<1>5. Cardinality(Bs \ S) \in Nat
  BY BlocksFinite
<1> QED BY <1>1, <1>2, <1>4, <1>5

LEMMA TryAllExhausts ==
    ASSUME NEW c, NEW G, G.succs \in [Addr -> SUBSET Addr], NEW target, NEW order \in Orders,
           NEW Bs, KnownBlocks(G, Bs), NEW k \in Nat,
           NEW deeper \in Finder, Exhausts(c, G, target, Bs, k, deeper),
           NEW b \in Bs, b # target, NEW seen \in SUBSET Bs, b \notin seen, target \notin seen,
           Cardinality(Bs \ seen) <= (k + 1) + 1,
           TryAll(G, b, order, seen \cup {b}, deeper).path = {}
    PROVE  Exhausted(c, G, target, Bs, b, seen, TryAll(G, b, order, seen \cup {b}, deeper).seen)
<1> DEFINE from == seen \cup {b}
           OK(i, r) ==
             r.path = {} =>
               /\ target \notin r.seen /\ from \subseteq r.seen /\ r.seen \subseteq Bs
               /\ \A x \in r.seen \ from :
                     ~HasKind(c, G, x, DeadEnds) => G.succs[x] \subseteq r.seen
               /\ \A j \in 1..i : order[j] \in G.succs[b] => order[j] \in r.seen
<1>0. Bs \in SUBSET Addr /\ b \in Addr /\ from \in SUBSET Addr /\ from \subseteq Bs
  BY DEF KnownBlocks
<1>1. PICK f \in [Nat -> Result] : Tries(G, b, order, from, deeper, f)
  BY <1>0, TriesExist
<1>2. OK(0, f[0])
  <2>1. f[0].seen = from /\ f[0].path = {}
    BY <1>0, <1>1, FailedTyped DEF Tries
  <2> QED BY <1>0, <2>1
<1>3. ASSUME NEW i \in Nat, NEW acc \in Result, OK(i, acc)
      PROVE  OK(i + 1, Tried(G, b, order[i + 1], acc, deeper))
  <2> DEFINE t == order[i + 1]
             q == Tried(G, b, t, acc, deeper)
  <2>0. \A j \in 1..(i + 1) : j \in 1..i \/ j = i + 1
    OBVIOUS
  <2>1. CASE t \notin G.succs[b]
    <3>1. q = acc
      BY <2>1 DEF Tried
    <3> QED BY <1>3, <2>0, <2>1, <3>1
  <2>2. CASE t \in G.succs[b]
    <3> DEFINE r == deeper[<<t, acc.seen>>]
    <3>1. t \in Bs /\ acc.seen \in SUBSET Addr /\ acc.path \in SUBSET Addr
      BY <2>2 DEF Result, KnownBlocks
    <3>2. q = [seen |-> r.seen, path |-> acc.path \cup Reported(b, r)]
      BY <2>2 DEF Tried
    <3>3. q.seen = r.seen /\ q.path = acc.path \cup Reported(b, r)
      BY <3>2
    <3> HIDE DEF q
    <3>4. SUFFICES ASSUME q.path = {}
                   PROVE  /\ target \notin q.seen /\ from \subseteq q.seen /\ q.seen \subseteq Bs
                          /\ \A x \in q.seen \ from :
                                ~HasKind(c, G, x, DeadEnds) => G.succs[x] \subseteq q.seen
                          /\ \A j \in 1..(i + 1) : order[j] \in G.succs[b] => order[j] \in q.seen
      BY DEF q
    <3>5. acc.path = {} /\ r.path = {}
      BY <3>3, <3>4 DEF Reported
    <3>6. /\ target \notin acc.seen /\ from \subseteq acc.seen /\ acc.seen \subseteq Bs
          /\ \A x \in acc.seen \ from :
                ~HasKind(c, G, x, DeadEnds) => G.succs[x] \subseteq acc.seen
          /\ \A j \in 1..i : order[j] \in G.succs[b] => order[j] \in acc.seen
      BY <1>3, <3>5
    <3>7. Cardinality(Bs \ acc.seen) <= k + 1
      <4>1. k + 1 \in Nat
        OBVIOUS
      <4> QED BY <1>0, <3>6, <4>1, FewerUnseen
    <3>8. Exhausted(c, G, target, Bs, t, acc.seen, r.seen)
      BY <3>1, <3>5, <3>6, <3>7 DEF Exhausts
    <3> HIDE DEF r
    <3>9. /\ target \notin q.seen /\ t \in q.seen /\ acc.seen \subseteq q.seen /\ q.seen \subseteq Bs
          /\ \A x \in q.seen \ acc.seen :
                ~HasKind(c, G, x, DeadEnds) => G.succs[x] \subseteq q.seen
      BY <3>3, <3>8 DEF Exhausted
    <3>10. ASSUME NEW x \in q.seen \ from, ~HasKind(c, G, x, DeadEnds)
           PROVE  G.succs[x] \subseteq q.seen
      BY <3>6, <3>9, <3>10
    <3>11. ASSUME NEW j \in 1..(i + 1), order[j] \in G.succs[b] PROVE order[j] \in q.seen
      BY <2>0, <3>6, <3>9, <3>11
    <3> QED BY <3>6, <3>9, <3>10, <3>11
  <2> QED BY <2>1, <2>2
<1> HIDE DEF OK
<1> DEFINE T == {i \in Nat : OK(i, f[i])}
<1>4. 0 \in T
  BY <1>2
<1>5. ASSUME NEW i \in Nat, i \in T PROVE i + 1 \in T
  <2>1. f[i] \in Result /\ OK(i, f[i]) /\ f[i + 1] = Tried(G, b, order[i + 1], f[i], deeper)
    BY <1>1, <1>5 DEF Tries
  <2> QED BY <1>3, <2>1
<1> HIDE DEF T
<1>6. Nat \subseteq T
  BY <1>4, <1>5, SetInduction
<1> DEFINE S == TryAll(G, b, order, from, deeper).seen
<1>7. OK(N, TryAll(G, b, order, from, deeper))
  <2>1. OK(N, f[N])
    BY <1>6, NAssumption DEF T
  <2> QED BY <1>1, <2>1 DEF Tries
<1>8. /\ target \notin S /\ from \subseteq S /\ S \subseteq Bs
      /\ \A x \in S \ from : ~HasKind(c, G, x, DeadEnds) => G.succs[x] \subseteq S
      /\ \A j \in 1..N : order[j] \in G.succs[b] => order[j] \in S
  BY <1>7 DEF OK
<1>9. G.succs[b] \subseteq S
  <2> SUFFICES ASSUME NEW a \in G.succs[b] PROVE a \in S
    OBVIOUS
  <2>1. a \in Addr
    BY <1>0
  <2>2. PICK j \in Addr : order[j] = a
    BY <2>1, OrdersAssumption
  <2> QED BY <1>8, <2>2 DEF Addr
<1> HIDE DEF S
<1>10. ASSUME NEW x \in S \ seen, ~HasKind(c, G, x, DeadEnds) PROVE G.succs[x] \subseteq S
  BY <1>8, <1>9, <1>10
<1>11. Exhausted(c, G, target, Bs, b, seen, S)
  BY <1>8, <1>10 DEF Exhausted
<1> QED BY <1>11 DEF S

LEMMA LastUnseen ==
    ASSUME NEW Bs \in SUBSET Addr, NEW seen, NEW b \in Bs, NEW target \in Bs, b # target,
           target \notin seen, Cardinality(Bs \ seen) <= 1
    PROVE  b \in seen
<1> SUFFICES ASSUME b \notin seen PROVE FALSE
  OBVIOUS
<1> DEFINE S == seen \cup {b}
<1>0. seen \cup {b} \subseteq S /\ 0 \in Nat /\ Cardinality(Bs \ seen) <= 0 + 1
  OBVIOUS
<1> HIDE DEF S
<1>1. Cardinality(Bs \ S) <= 0
  BY <1>0, FewerUnseen
<1>2. IsFiniteSet(Bs \ S) /\ Cardinality(Bs \ S) \in Nat
  BY BlocksFinite
<1>3. Bs \ S = {}
  BY <1>1, <1>2, FS_EmptySet
<1> QED BY <1>3 DEF S

LEMMA VisitExhausts ==
    ASSUME NEW c, NEW G, G.succs \in [Addr -> SUBSET Addr], NEW target, NEW order \in Orders,
           NEW Bs, KnownBlocks(G, Bs), target \in Bs,
           \A b \in Addr : ~HasKind(c, G, b, {"jal"}),
           NEW left \in Nat, NEW deeper,
           left # 0 => deeper \in Finder /\ Exhausts(c, G, target, Bs, left - 1, deeper)
    PROVE  Exhausts(c, G, target, Bs, left, Visit(c, G, target, order, left, deeper))
<1> DEFINE V == Visit(c, G, target, order, left, deeper)
<1> SUFFICES ASSUME NEW b \in Bs, NEW seen \in SUBSET Bs, target \notin seen,
                    Cardinality(Bs \ seen) <= left + 1, V[<<b, seen>>].path = {}
             PROVE  Exhausted(c, G, target, Bs, b, seen, V[<<b, seen>>].seen)
  BY DEF Exhausts
<1> DEFINE r == V[<<b, seen>>]
<1>0. Bs \in SUBSET Addr /\ b \in Addr /\ seen \in SUBSET Addr /\ seen \cup {b} \in SUBSET Addr
  BY DEF KnownBlocks
<1>1. /\ b = target => r = [seen |-> seen, path |-> {b}]
      /\ b # target /\ (left = 0 \/ b \in seen) => r = Failed(seen)
      /\ b # target /\ left # 0 /\ b \notin seen =>
            r = IF Blocked(c, G, b, target, seen \cup {b})
                THEN Failed(seen \cup {b})
                ELSE TryAll(G, b, order, seen \cup {b}, deeper)
  <2>1. b \in Addr /\ seen \in SUBSET Addr
    BY <1>0
  <2> QED BY ONLY <2>1, VisitCases
<1>2. r.path = {}
  OBVIOUS
<1> HIDE DEF r, V
<1>3. b # target
  <2> SUFFICES ASSUME b = target PROVE FALSE
    OBVIOUS
  <2>1. r.path = {b}
    BY <1>1
  <2> QED BY <1>2, <2>1
<1>4. CASE b \in seen
  <2>1. r.seen = seen
    BY <1>0, <1>1, <1>3, <1>4, FailedTyped
  <2>2. Exhausted(c, G, target, Bs, b, seen, seen)
    BY <1>4 DEF Exhausted
  <2> QED BY <2>1, <2>2 DEF r
<1>5. CASE b \notin seen
  <2>1. left # 0
    <3> SUFFICES ASSUME left = 0 PROVE FALSE
      OBVIOUS
    <3>1. Cardinality(Bs \ seen) <= 1
      OBVIOUS
    <3> QED BY <1>0, <1>3, <1>5, <3>1, LastUnseen
  <2>2. CASE Blocked(c, G, b, target, seen \cup {b})
    <3>1. r.seen = seen \cup {b}
      BY <1>0, <1>1, <1>3, <1>5, <2>1, <2>2, FailedTyped
    <3>2. HasKind(c, G, b, DeadEnds)
      BY <1>0, <2>2 DEF Blocked
    <3>3. Exhausted(c, G, target, Bs, b, seen, seen \cup {b})
      BY <1>3, <3>2 DEF Exhausted
    <3> QED BY <3>1, <3>3 DEF r
  <2>3. CASE ~Blocked(c, G, b, target, seen \cup {b})
    <3>1. r = TryAll(G, b, order, seen \cup {b}, deeper)
      BY <1>1, <1>3, <1>5, <2>1, <2>3
    <3>2. left - 1 \in Nat /\ (left - 1) + 1 = left
      BY <2>1
    <3>3. deeper \in Finder /\ Exhausts(c, G, target, Bs, left - 1, deeper)
      BY <2>1
    <3>4. Cardinality(Bs \ seen) <= ((left - 1) + 1) + 1
      BY <3>2
    <3>5. TryAll(G, b, order, seen \cup {b}, deeper).path = {}
      BY <1>2, <3>1
    <3>6. Exhausted(c, G, target, Bs, b, seen, TryAll(G, b, order, seen \cup {b}, deeper).seen)
      BY <1>3, <1>5, <3>2, <3>3, <3>4, <3>5, TryAllExhausts
    <3> QED BY <3>1, <3>6 DEF r
  <2> QED BY <2>2, <2>3
<1> QED BY <1>4, <1>5

\* A search that fails has a set of blocks to show for it.
Shut(c, G, s, target, S) ==
    /\ s \in S /\ target \notin S
    /\ \A x \in S : ~HasKind(c, G, x, DeadEnds) => G.succs[x] \subseteq S

LEMMA SearchFails ==
    ASSUME NEW c, NEW G, G.succs \in [Addr -> SUBSET Addr], NEW target, NEW order \in Orders,
           NEW Bs, KnownBlocks(G, Bs), target \in Bs, Cardinality(Bs) <= MaxLen + 1,
           \A b \in Addr : ~HasKind(c, G, b, {"jal"}),
           NEW s \in Bs, Search(c, G, s, target, order) = {}
    PROVE  \E S \in SUBSET Bs : Shut(c, G, s, target, S)
<1>1. PICK d \in [Nat -> Finder] : Levels(c, G, target, order, d)
  BY LevelsExist
<1> DEFINE T == {k \in Nat : Exhausts(c, G, target, Bs, k, d[k])}
<1>2. 0 \in T
  <2>1. Exhausts(c, G, target, Bs, 0, Visit(c, G, target, order, 0, d[0]))
    BY VisitExhausts
  <2> QED BY <1>1, <2>1 DEF Levels
<1>3. ASSUME NEW k \in Nat, k \in T PROVE k + 1 \in T
  <2>1. k + 1 \in Nat /\ (k + 1) - 1 = k
    OBVIOUS
  <2>2. Exhausts(c, G, target, Bs, k + 1, Visit(c, G, target, order, k + 1, d[k]))
    BY <1>3, <2>1, VisitExhausts
  <2> QED BY <1>1, <2>2 DEF Levels
<1> HIDE DEF T
<1>4. Nat \subseteq T
  BY <1>2, <1>3, SetInduction
<1>5. Exhausts(c, G, target, Bs, MaxLen, d[MaxLen])
  BY <1>4, MaxLenAssumption DEF T
<1>6. d[MaxLen][<<s, {}>>].path = {}
  BY <1>1 DEF Levels
<1>7. Bs \ {} = Bs
  OBVIOUS
<1>8. Exhausted(c, G, target, Bs, s, {}, d[MaxLen][<<s, {}>>].seen)
  BY <1>5, <1>6, <1>7 DEF Exhausts
<1>9. d[MaxLen][<<s, {}>>].seen \in SUBSET Bs
  BY <1>8 DEF Exhausted
<1>10. Shut(c, G, s, target, d[MaxLen][<<s, {}>>].seen)
  BY <1>8 DEF Exhausted, Shut
<1> QED BY <1>9, <1>10

-----------------------------------------------------------------------------
(***************************************************************************)
(* aug_dfs decides reachability.                                           *)
(***************************************************************************)
LEMMA WordsInAddr ==
    ASSUME NEW G \in Graph, NEW b \in Addr
    PROVE  Words(G, b) \subseteq Addr
<1>1. G.last[b] \in 0..N
  BY DEF Graph
<1> QED BY <1>1, AddrFacts DEF Words, Addr

LEMMA NoCallsNoJal ==
    ASSUME NEW c, NEW G \in Graph, \A a \in Addr : c[a].kind # "jal", NEW b \in Addr
    PROVE  ~HasKind(c, G, b, {"jal"})
BY WordsInAddr DEF HasKind

LEMMA DecidesInv == IndInv => SearchDecides
<1> SUFFICES ASSUME IndInv, Dispatching, cBB \in graph.ro,
                    \A a \in Addr : code[a].kind # "jal",
                    Cardinality(graph.blocks) <= MaxLen + 1,
                    NEW t \in graph.blocks, NEW order \in Orders
             PROVE  (Search(code, graph, cBB, t, order) # {})
                      <=> t \in Closure(Onwards(t), {cBB})
  BY DEF SearchDecides
<1> DEFINE P == Search(code, graph, cBB, t, order)
           R == Closure(Onwards(t), {cBB})
<1>1. graph \in Graph /\ Sound(code, graph, Open) /\ cBB \in graph.blocks
  BY DEF IndInv, TypeOK, PcInSync, Dispatching, Running
<1>2. /\ graph.succs \in [Addr -> SUBSET Addr] /\ graph.blocks \in SUBSET Addr
      /\ cBB \in Addr
  BY <1>1 DEF Graph
<1>3. KnownBlocks(graph, graph.blocks)
  BY <1>1, <1>2 DEF KnownBlocks, Sound, EdgesSound
<1>4. \A b \in Addr : ~HasKind(code, graph, b, {"jal"})
  BY <1>1, NoCallsNoJal
<1>5. \A b \in Addr : PassesThrough(b) <=> ~HasKind(code, graph, b, DeadEnds)
  BY <1>4 DEF PassesThrough, HasKind, DeadEnds, StopsASearch
<1>6. \A b \in Addr : Onwards(t)[b] = IF b # t /\ ~HasKind(code, graph, b, DeadEnds)
                                      THEN graph.succs[b] ELSE {}
  BY <1>5 DEF Onwards
<1> HIDE DEF R, P
<1>7. /\ cBB \in R /\ R \subseteq Addr /\ \A b \in R : Onwards(t)[b] \subseteq R
      /\ \A C \in SUBSET Addr :
            cBB \in C /\ (\A b \in C : Onwards(t)[b] \subseteq C) => R \subseteq C
  <2> DEFINE E == Onwards(t)
  <2>1. \A b \in Addr : E[b] \subseteq Addr
    BY <1>2, <1>6
  <2> HIDE DEF E
  <2>2. {cBB} \in SUBSET Addr
    BY <1>2
  <2>3. /\ {cBB} \subseteq Closure(E, {cBB}) /\ Closure(E, {cBB}) \subseteq Addr
        /\ \A b \in Closure(E, {cBB}) : E[b] \subseteq Closure(E, {cBB})
        /\ \A C \in SUBSET Addr :
              {cBB} \subseteq C /\ (\A b \in C : E[b] \subseteq C) => Closure(E, {cBB}) \subseteq C
    BY <2>1, <2>2, ClosureFrom
  <2> QED BY <2>3 DEF R, E
<1>8. ASSUME P # {} PROVE t \in R
  <2>1. PathTo(code, graph, cBB, t, P) /\ P \in SUBSET Addr
    BY <1>2, <1>8, SearchFindsPaths DEF P
  <2>2. ForwardClosed(graph, t, P, R)
    <3> SUFFICES ASSUME NEW x \in (R \cap P) \ {t} PROVE graph.succs[x] \cap P \subseteq R
      BY DEF ForwardClosed
    <3>1. x \in Addr /\ ~HasKind(code, graph, x, DeadEnds)
      BY <1>4, <2>1 DEF PathTo, Passed
    <3>2. Onwards(t)[x] = graph.succs[x]
      BY <1>6, <3>1
    <3> QED BY <1>7, <3>2
  <2> QED BY <1>7, <2>1, <2>2 DEF PathTo
<1>9. ASSUME P = {} PROVE t \notin R
  <2>0. Search(code, graph, cBB, t, order) = {}
    BY <1>9 DEF P
  <2>1. PICK S \in SUBSET graph.blocks : Shut(code, graph, cBB, t, S)
    BY <1>1, <1>2, <1>3, <1>4, <2>0, SearchFails
  <2>2. \A b \in S : Onwards(t)[b] \subseteq S
    BY <1>2, <1>6, <2>1 DEF Shut
  <2>3. S \in SUBSET Addr
    BY <1>2
  <2> QED BY <1>7, <2>1, <2>2, <2>3 DEF Shut
<1> QED BY <1>8, <1>9 DEF P, R

\* In a program without jump-and-link aug_dfs finds a path to a block exactly
\* when there is one, in whatever order it takes the successors of a block, as
\* long as its limit on the length is not below the number of blocks less one.
THEOREM SearchIsExact == Spec => []SearchDecides
BY DecidesInv, Invariance, PTL

-----------------------------------------------------------------------------
(***************************************************************************)
(* Regions.  What the searches add to the blocks bs of the traces: W is    *)
(* where one gets from bs going forward, and going backward.               *)
(***************************************************************************)
After(G, W, R) == \A x \in R \cap W : G.succs[x] \cap W \subseteq R
Before(G, W, R) == \A x \in W : G.succs[x] \cap W \cap R # {} => x \in R

Joins(c, G, bs, W) ==
    /\ bs \subseteq W /\ W \subseteq Addr
    /\ \A x \in W \ bs : Passed(c, G, x) /\ G.succs[x] \cap W # {}
    /\ \A R \in SUBSET Addr : bs \subseteq R /\ After(G, W, R) => W \subseteq R
    /\ \A R \in SUBSET Addr : bs \subseteq R /\ Before(G, W, R) => W \subseteq R

\* Paths between blocks of W may be added, any number of them.
LEMMA PathsAdded ==
    ASSUME NEW c, NEW G, NEW bs, NEW W, Joins(c, G, bs, W), NEW F,
           \A P \in F : /\ P \in SUBSET Addr
                        /\ P = {} \/ \E s, t \in W : PathTo(c, G, s, t, P)
    PROVE  Joins(c, G, bs, W \cup UNION F)
<1> DEFINE V == W \cup UNION F
<1>1. bs \subseteq V /\ V \subseteq Addr /\ W \subseteq V /\ \A P \in F : P \subseteq V
  BY DEF Joins
<1>2. ASSUME NEW x \in V \ bs PROVE Passed(c, G, x) /\ G.succs[x] \cap V # {}
  <2>1. CASE x \in W
    BY <1>1, <1>2, <2>1 DEF Joins
  <2>2. CASE x \notin W
    <3>1. PICK P \in F : x \in P
      BY <2>2
    <3>2. PICK s \in W, t \in W : PathTo(c, G, s, t, P)
      BY <3>1
    <3>3. x \in P \ {t}
      BY <2>2, <3>1
    <3> QED BY <1>1, <3>1, <3>2, <3>3 DEF PathTo
  <2> QED BY <2>1, <2>2
<1>3. ASSUME NEW R \in SUBSET Addr, bs \subseteq R, After(G, V, R) PROVE V \subseteq R
  <2>1. After(G, W, R)
    BY <1>1, <1>3 DEF After
  <2>2. W \subseteq R
    BY <1>3, <2>1 DEF Joins
  <2>3. ASSUME NEW P \in F, P # {} PROVE P \subseteq R
    <3>1. PICK s \in W, t \in W : PathTo(c, G, s, t, P)
      BY <2>3
    <3>2. ForwardClosed(G, t, P, R)
      BY <1>1, <1>3 DEF After, ForwardClosed
    <3> QED BY <2>2, <3>1, <3>2 DEF PathTo
  <2> QED BY <2>2, <2>3
<1>4. ASSUME NEW R \in SUBSET Addr, bs \subseteq R, Before(G, V, R) PROVE V \subseteq R
  <2>1. Before(G, W, R)
    BY <1>1, <1>4 DEF Before
  <2>2. W \subseteq R
    BY <1>4, <2>1 DEF Joins
  <2>3. ASSUME NEW P \in F, P # {} PROVE P \subseteq R
    <3>1. PICK s \in W, t \in W : PathTo(c, G, s, t, P)
      BY <2>3
    <3>2. BackwardClosed(G, t, P, R)
      BY <1>1, <1>4 DEF Before, BackwardClosed
    <3> QED BY <2>2, <3>1, <3>2 DEF PathTo
  <2> QED BY <2>2, <2>3
<1> HIDE DEF V
<1>5. Joins(c, G, bs, V)
  BY <1>1, <1>2, <1>3, <1>4 DEF Joins
<1> QED BY <1>5 DEF V

LEMMA NothingAdded ==
    ASSUME NEW c, NEW G, NEW bs \in SUBSET Addr
    PROVE  Joins(c, G, bs, bs)
BY DEF Joins

LEMMA SearchAdded ==
    ASSUME NEW c, NEW G, G.succs \in [Addr -> SUBSET Addr], NEW order, NEW bs, NEW W,
           Joins(c, G, bs, W), NEW s \in W, NEW t \in W
    PROVE  Joins(c, G, bs, W \cup Search(c, G, s, t, order))
<1> DEFINE P == Search(c, G, s, t, order)
<1>1. s \in Addr
  BY DEF Joins
<1>2. P \in SUBSET Addr /\ (P # {} => PathTo(c, G, s, t, P))
  BY <1>1, SearchFindsPaths
<1> HIDE DEF P
<1>3. Joins(c, G, bs, W \cup UNION {P})
  BY <1>2, PathsAdded
<1>4. UNION {P} = P
  OBVIOUS
<1> QED BY <1>3, <1>4 DEF P

\* cfgAug insane adds one search after the other.
LEMMA JoinedTyped ==
    ASSUME NEW c, NEW G, G.succs \in [Addr -> SUBSET Addr], NEW order,
           NEW found \in SUBSET Addr, NEW s, NEW t
    PROVE  Joined(c, G, found, s, t, order) \in SUBSET Addr
<1>1. CASE <<s, t>> \in Pairs(found)
  <2>1. s \in Addr
    BY <1>1 DEF Pairs
  <2>2. Search(c, G, s, t, order) \in SUBSET Addr
    BY <2>1, SearchFindsPaths
  <2> QED BY <2>2 DEF Joined
<1>2. CASE <<s, t>> \notin Pairs(found)
  BY <1>2 DEF Joined
<1> QED BY <1>1, <1>2

LEMMA JoinedAdded ==
    ASSUME NEW c, NEW G, G.succs \in [Addr -> SUBSET Addr], NEW order, NEW bs, NEW W,
           Joins(c, G, bs, W), NEW s, NEW t
    PROVE  Joins(c, G, bs, Joined(c, G, W, s, t, order))
<1>1. CASE <<s, t>> \in Pairs(W)
  <2>1. s \in W /\ t \in W
    BY <1>1 DEF Pairs
  <2>2. Joins(c, G, bs, W \cup Search(c, G, s, t, order))
    BY <2>1, SearchAdded
  <2> QED BY <1>1, <2>2 DEF Joined
<1>2. CASE <<s, t>> \notin Pairs(W)
  BY <1>2 DEF Joined
<1> QED BY <1>1, <1>2

LEMMA InsaneJoins ==
    ASSUME NEW c, NEW G, G.succs \in [Addr -> SUBSET Addr], NEW order, NEW bs \in SUBSET Addr
    PROVE  Joins(c, G, bs, Insane(c, G, bs, order))
<1> DEFINE at(k) == order[((k - 1) % N) + 1]
           to(k) == order[((k - 1) \div N) + 1]
           X == SUBSET Addr
           F == [x \in Nat \X X |-> Joined(c, G, x[2], at(x[1]), to(x[1]), order)]
           Eq(g) == g = [k \in Nat |-> IF k = 0 THEN bs
                                       ELSE Joined(c, G, g[k - 1], at(k), to(k), order)]
           grown == CHOOSE g : Eq(g)
<1> HIDE DEF at, to
<1>1. F \in [Nat \X X -> X]
  <2>1. \A x \in Nat \X X : Joined(c, G, x[2], at(x[1]), to(x[1]), order) \in X
    BY JoinedTyped
  <2> QED BY <2>1
<1>2. PICK f \in [Nat -> X] : Steps(F, bs, f)
  <2> HIDE DEF F
  <2> QED BY <1>1, StepsExist
<1>3. ASSUME NEW k \in Nat
      PROVE  f[k + 1] = Joined(c, G, f[k], at(k + 1), to(k + 1), order)
  <2>1. k + 1 \in Nat /\ f[k] \in X
    OBVIOUS
  <2>2. <<k + 1, f[k]>> \in Nat \X X
    BY <2>1
  <2>3. f[k + 1] = F[<<k + 1, f[k]>>]
    <3> HIDE DEF F
    <3> QED BY <1>2 DEF Steps
  <2> QED BY <2>2, <2>3
<1> HIDE DEF F
<1>4. f[0] = bs
  BY <1>2 DEF Steps
<1>5. Eq(f)
  <2>1. ASSUME NEW k \in Nat, k # 0
        PROVE  f[k] = Joined(c, G, f[k - 1], at(k), to(k), order)
    <3>1. k - 1 \in Nat /\ (k - 1) + 1 = k
      BY <2>1
    <3>2. f[(k - 1) + 1] = Joined(c, G, f[k - 1], at((k - 1) + 1), to((k - 1) + 1), order)
      BY <1>3, <3>1
    <3> QED BY <3>1, <3>2
  <2>2. f = [k \in Nat |-> f[k]]
    BY <1>2
  <2> QED BY <1>4, <2>1, <2>2
<1>6. Eq(grown)
  <2> HIDE DEF Eq
  <2> QED BY <1>5
<1>7. Insane(c, G, bs, order) = grown[N * N]
  BY DEF Insane, at, to
<1> DEFINE T == {k \in Nat : Joins(c, G, bs, grown[k])}
<1>8. 0 \in T
  <2>1. grown[0] = bs
    <3> HIDE DEF grown
    <3> QED BY <1>6
  <2> HIDE DEF grown
  <2> QED BY <2>1, NothingAdded
<1>9. ASSUME NEW k \in Nat, k \in T PROVE k + 1 \in T
  <2>1. grown[k + 1] = Joined(c, G, grown[k], at(k + 1), to(k + 1), order)
    <3> HIDE DEF grown
    <3>1. k + 1 \in Nat /\ k + 1 # 0 /\ (k + 1) - 1 = k
      OBVIOUS
    <3> QED BY <1>6, <3>1
  <2> HIDE DEF grown, Eq
  <2>2. Joins(c, G, bs, grown[k])
    BY <1>9
  <2>3. Joins(c, G, bs, Joined(c, G, grown[k], at(k + 1), to(k + 1), order))
    BY <2>2, JoinedAdded
  <2> QED BY <2>1, <2>3
<1> HIDE DEF grown, T
<1>10. Nat \subseteq T
  BY <1>8, <1>9, SetInduction
<1>11. N * N \in Nat
  BY NAssumption
<1> QED BY <1>7, <1>10, <1>11 DEF T

\* Whatever cfgAug says, the blocks added are on paths between blocks of the
\* region.
LEMMA DiscoveredJoins ==
    ASSUME NEW c, NEW G, G.succs \in [Addr -> SUBSET Addr], NEW order,
           NEW bs \in SUBSET Addr, NEW h \in bs,
           NEW aug \in {"none", "head", "aggressive", "insane"}
    PROVE  Joins(c, G, bs, bs \cup Discovered(aug, c, G, h, bs, order))
<1>1. Joins(c, G, bs, bs)
  BY NothingAdded
<1>2. ASSUME NEW s \in bs, NEW t \in bs
      PROVE  LET P == Search(c, G, s, t, order)
             IN  P \in SUBSET Addr /\ (P = {} \/ \E x, y \in bs : PathTo(c, G, x, y, P))
  BY SearchFindsPaths
<1>3. CASE aug = "none"
  BY <1>1, <1>3 DEF Discovered
<1>4. CASE aug = "head"
  <2> DEFINE F == {Search(c, G, h, b, order) : b \in bs}
  <2>1. \A P \in F : /\ P \in SUBSET Addr
                     /\ P = {} \/ \E s, t \in bs : PathTo(c, G, s, t, P)
    BY <1>2
  <2>2. Discovered(aug, c, G, h, bs, order) = UNION F
    BY <1>4 DEF Discovered
  <2> HIDE DEF F
  <2> QED BY <1>1, <2>1, <2>2, PathsAdded
<1>5. CASE aug = "aggressive"
  <2> DEFINE F == {Search(c, G, p[1], p[2], order) : p \in Pairs(bs)}
  <2>1. \A P \in F : /\ P \in SUBSET Addr
                     /\ P = {} \/ \E s, t \in bs : PathTo(c, G, s, t, P)
    BY <1>2 DEF Pairs
  <2>2. Discovered(aug, c, G, h, bs, order) = UNION F
    BY <1>5 DEF Discovered
  <2> HIDE DEF F
  <2> QED BY <1>1, <2>1, <2>2, PathsAdded
<1>6. CASE aug = "insane"
  <2> DEFINE W == Insane(c, G, bs, order)
  <2>1. Joins(c, G, bs, W)
    BY InsaneJoins
  <2>2. Discovered(aug, c, G, h, bs, order) = W
    BY <1>6 DEF Discovered
  <2> HIDE DEF W
  <2>3. bs \cup W = W
    BY <2>1 DEF Joins
  <2> QED BY <2>1, <2>2, <2>3
<1> QED BY <1>3, <1>4, <1>5, <1>6

-----------------------------------------------------------------------------
(***************************************************************************)
(* The checks of a region.  Its blocks W are closed, each has a successor  *)
(* among them, one leads to the head h, and from h one comes to all.       *)
(***************************************************************************)
Reaches(G, h, W) ==
    /\ h \in W /\ W \subseteq G.ro
    /\ \E e \in W : h \in G.succs[e]
    /\ \A b \in W : G.succs[b] \cap W # {}
    /\ \A R \in SUBSET Addr : h \in R /\ After(G, W, R) => W \subseteq R

\* What the searches add leaves it so: a block that is not closed has no
\* successor, and a path leads nowhere but on.
LEMMA JoinsReaches ==
    ASSUME NEW c, NEW G \in Graph, EdgesSound(c, G, G.blocks \ G.ro),
           NEW h, NEW bs, Reaches(G, h, bs), NEW W, Joins(c, G, bs, W)
    PROVE  Reaches(G, h, W)
<1>1. bs \subseteq W /\ W \subseteq Addr
  BY DEF Joins
<1>2. ASSUME NEW x \in W PROVE x \in G.ro /\ G.succs[x] \cap W # {}
  <2>1. CASE x \in bs
    BY <1>1, <2>1 DEF Reaches
  <2>2. CASE x \notin bs
    <3>1. G.succs[x] \cap W # {}
      BY <2>2 DEF Joins
    <3>2. x \in G.blocks \ (G.blocks \ G.ro)
      BY <1>1, <3>1 DEF EdgesSound
    <3> QED BY <3>1, <3>2
  <2> QED BY <2>1, <2>2
<1>3. ASSUME NEW R \in SUBSET Addr, h \in R, After(G, W, R) PROVE W \subseteq R
  <2>1. After(G, bs, R)
    BY <1>1, <1>3 DEF After
  <2>2. bs \subseteq R
    BY <1>3, <2>1 DEF Reaches
  <2> QED BY <1>3, <2>2 DEF Joins
<1> QED BY <1>1, <1>2, <1>3 DEF Reaches

\* In compiled code the edges are those of the graph.
LEMMA CompiledEdges ==
    ASSUME NEW G \in Graph, NEW h, NEW W, Reaches(G, h, W)
    PROVE  LET cd == Compiled(G, W)
           IN  /\ cd.blocks = W
               /\ \A b \in W : /\ cd.last[b] = G.last[b]
                               /\ cd.succs[b] = G.succs[b] \cap W /\ cd.succs[b] # {}
               /\ \A b \in Addr \ W : cd.succs[b] = {}
<1> DEFINE cd == Compiled(G, W)
<1>1. W \subseteq Addr /\ \A b \in W : G.succs[b] \cap W # {}
  BY DEF Reaches, Graph
<1>2. /\ cd.blocks = W
      /\ \A b \in Addr : /\ b \in W => cd.last[b] = G.last[b]
                         /\ cd.succs[b] = IF W = {b} THEN {b}
                                          ELSE IF b \in W THEN G.succs[b] \cap W ELSE {}
  BY DEF Compiled
<1> HIDE DEF cd
<1>3. ASSUME NEW b \in W PROVE cd.succs[b] = G.succs[b] \cap W
  <2>1. CASE W = {b}
    <3>1. G.succs[b] \cap W = {b}
      BY <1>1, <2>1
    <3> QED BY <1>1, <1>2, <2>1, <3>1
  <2>2. CASE W # {b}
    BY <1>1, <1>2, <2>2
  <2> QED BY <2>1, <2>2
<1>4. ASSUME NEW b \in Addr \ W PROVE cd.succs[b] = {}
  BY <1>2
<1>5. \A b \in W : cd.last[b] = G.last[b]
  BY <1>1, <1>2
<1>6. \A b \in W : cd.succs[b] # {}
  BY <1>1, <1>3
<1>7. cd.blocks = W
  BY <1>2
<1> QED BY <1>3, <1>4, <1>5, <1>6, <1>7 DEF cd

\* A closed block, as the checks of buildCFG look at it.
LEMMA ClosedBlock ==
    ASSUME NEW c \in Programs, NEW G \in Graph, Sound(c, G, G.blocks \ G.ro), NEW b \in G.ro
    PROVE  /\ b \in Addr /\ G.last[b] \in Addr /\ b <= G.last[b]
           /\ Words(G, b) \subseteq Addr /\ G.last[b] \in Words(G, b)
           /\ \A a \in b..(G.last[b] - 1) : ~IsBranchOrJump(c[a])
           /\ \A a \in Words(G, b) : c[a].kind # "ecall"
           /\ \A t \in G.succs[b] : b \in G.preds[t]
           /\ G.succs[b] \subseteq NextPCs(c, G.last[b])
<1>1. b \in G.blocks \ (G.blocks \ G.ro) /\ b \in Addr
  BY DEF Sound, ClosedSound, Graph
<1>2. G.last[b] \in Addr /\ b <= G.last[b] /\ G.last[b] \in Words(G, b)
  BY <1>1, LastInAddr DEF Sound
<1>3. Words(G, b) \subseteq Addr
  BY <1>1, WordsInAddr
<1>4. /\ \A a \in b..(G.last[b] - 1) : ~IsBranchOrJump(c[a])
      /\ \A a \in Words(G, b) : ~IsMonitor(c[a])
  BY <1>1 DEF Sound, ClosedSound
<1>5. G.succs[b] \subseteq NextPCs(c, G.last[b])
  BY <1>1 DEF Sound, EdgesSound
<1>6. ASSUME NEW t \in G.succs[b] PROVE b \in G.preds[t]
  <2>1. t \in Addr
    BY <1>1 DEF Graph
  <2> QED BY <1>1, <2>1 DEF Sound, Mirrored
<1> QED BY <1>1, <1>2, <1>3, <1>4, <1>5, <1>6 DEF IsMonitor

\* So of all that buildCFG, bindInsns and insertPhis check, only the translation
\* of single instructions can fail.
LEMMA RegionCompiles ==
    ASSUME NEW c \in Programs, NEW G \in Graph, Sound(c, G, G.blocks \ G.ro),
           NEW h, NEW W, Reaches(G, h, W)
    PROVE  LET words == UNION {Words(G, b) : b \in W}
           IN  BuildFault(c, G, h, W) =
                 CASE \E a \in words : ~HasTranslation(c[a]) -> "noinsn"
                   [] \E a \in words : c[a].kind = "nop" -> "x0"
                   [] OTHER -> "none"
<1> DEFINE cd == Compiled(G, W)
           words == UNION {Words(G, b) : b \in W}
<1>1. W \subseteq G.ro /\ W \in SUBSET Addr /\ h \in W /\ \E e \in W : h \in G.succs[e]
  BY DEF Reaches, Graph
<1>2. /\ cd.blocks = W
      /\ \A b \in W : /\ cd.last[b] = G.last[b]
                      /\ cd.succs[b] = G.succs[b] \cap W /\ cd.succs[b] # {}
  BY CompiledEdges
<1> HIDE DEF cd
<1>3. ReachableIn(cd, h) = W
  <2> DEFINE R == Grown(cd.succs, {h}, Cardinality(cd.blocks))
  <2>1. IsFiniteSet(W) /\ Cardinality(W) \in Nat
    BY <1>1, BlocksFinite
  <2>2. \A b \in W : cd.succs[b] \subseteq W
    BY <1>2
  <2>3. {h} \in SUBSET W /\ Cardinality(W) <= Cardinality(cd.blocks)
        /\ Cardinality(cd.blocks) \in Nat
    BY <1>1, <1>2, <2>1
  <2>4. {h} \subseteq R /\ R \subseteq W /\ \A b \in R : cd.succs[b] \subseteq R
    BY <2>1, <2>2, <2>3, GrownFrom
  <2> HIDE DEF R
  <2>5. After(G, W, R)
    BY <1>2, <2>4 DEF After
  <2>6. W \subseteq R
    BY <1>1, <2>4, <2>5 DEF Reaches
  <2> QED BY <2>4, <2>6 DEF ReachableIn, R
<1>4. ~\A b \in ReachableIn(cd, h) : h \notin G.succs[b]
  BY <1>1, <1>3
<1>5. ~\E b \in W : ~SanityCheck(c, G, b)
  BY <1>1, ClosedBlock DEF SanityCheck
<1>6. ~\E b \in W : ~PlausibleEdges(c, cd, b)
  <2> SUFFICES ASSUME NEW b \in W, c[G.last[b]].kind \in Conditional
               PROVE  cd.succs[b] \subseteq c[G.last[b]].tgt \cup {G.last[b] + 1}
    BY <1>2 DEF PlausibleEdges
  <2>1. NextPCs(c, G.last[b]) = c[G.last[b]].tgt \cup {G.last[b] + 1}
    BY DEF NextPCs, Transfers, Indirect, Conditional
  <2> QED BY <1>1, <1>2, <2>1, ClosedBlock
<1>7. ~\E b \in W : c[G.last[b]].kind = "j" /\ c[G.last[b]].tgt \cap cd.succs[b] = {}
  <2> SUFFICES ASSUME NEW b \in W, c[G.last[b]].kind = "j"
               PROVE  c[G.last[b]].tgt \cap cd.succs[b] # {}
    OBVIOUS
  <2>1. NextPCs(c, G.last[b]) = c[G.last[b]].tgt
    BY DEF NextPCs, Transfers, Indirect, Conditional
  <2>2. G.succs[b] \subseteq c[G.last[b]].tgt
    BY <1>1, <2>1, ClosedBlock
  <2> QED BY <1>2, <2>2
<1>8. ~\E b \in W : c[G.last[b]].kind = "jal" /\ cd.succs[b] = {}
  BY <1>2
<1>9. BuildFault(c, G, h, W) =
        CASE \E a \in words : ~HasTranslation(c[a]) -> "noinsn"
          [] \E a \in words : c[a].kind = "nop" -> "x0"
          [] OTHER -> "none"
  BY <1>3, <1>4, <1>5, <1>6, <1>7, <1>8 DEF BuildFault, cd
<1> QED BY <1>9

-----------------------------------------------------------------------------
(***************************************************************************)
(* Regions made of recordings, which are any set of closed blocks that is  *)
(* strongly connected.                                                     *)
(***************************************************************************)
LEMMA TracedReaches ==
    ASSUME TypeOK, NEW h \in graph.ro, graph.ro \subseteq Addr, NEW bs \in Traced(h)
    PROVE  /\ bs \in SUBSET Addr /\ Reaches(graph, h, bs)
           /\ \A R \in SUBSET Addr :
                 Backwards(graph.succs, bs)[h] \subseteq R /\ Before(graph, bs, R) => bs \subseteq R
<1> DEFINE E == Within(graph.succs, bs)
           B == Backwards(graph.succs, bs)
<1>1. /\ h \in bs /\ bs \subseteq graph.ro
      /\ Closure(E, {h}) = bs /\ Closure(B, B[h]) = bs
  BY DEF Traced, Connected
<1>2. bs \in SUBSET Addr /\ h \in Addr /\ graph.succs \in [Addr -> SUBSET Addr]
  BY <1>1 DEF TypeOK, Graph
<1>3. \A b \in Addr : E[b] = graph.succs[b] \cap bs
  BY DEF Within
<1>4. \A t \in Addr : B[t] = {b \in bs : t \in graph.succs[b]}
  BY DEF Backwards
<1> HIDE DEF E, B
<1>5. \A C \in SUBSET Addr : h \in C /\ (\A b \in C : E[b] \subseteq C) => bs \subseteq C
  <2>1. {h} \in SUBSET Addr /\ \A b \in Addr : E[b] \subseteq Addr
    BY <1>2, <1>3
  <2>2. \A C \in SUBSET Addr :
           {h} \subseteq C /\ (\A b \in C : E[b] \subseteq C) => Closure(E, {h}) \subseteq C
    BY <2>1, ClosureFrom
  <2> QED BY <1>1, <2>2
<1>6. \A C \in SUBSET Addr : B[h] \subseteq C /\ (\A b \in C : B[b] \subseteq C) => bs \subseteq C
  <2>1. B[h] \in SUBSET Addr /\ \A b \in Addr : B[b] \subseteq Addr
    BY <1>2, <1>4
  <2>2. \A C \in SUBSET Addr :
           B[h] \subseteq C /\ (\A b \in C : B[b] \subseteq C) => Closure(B, B[h]) \subseteq C
    BY <2>1, ClosureFrom
  <2> QED BY <1>1, <2>2
<1>7. \E e \in bs : h \in graph.succs[e]
  <2> SUFFICES ASSUME B[h] = {} PROVE FALSE
    BY <1>2, <1>4
  <2>1. {} \in SUBSET Addr /\ B[h] \subseteq {} /\ \A b \in {} : B[b] \subseteq {}
    OBVIOUS
  <2>2. bs \subseteq {}
    BY <1>6, <2>1
  <2> QED BY <1>1, <2>2
<1>8. \A b \in bs : graph.succs[b] \cap bs # {}
  <2> DEFINE C == {b \in bs : graph.succs[b] \cap bs # {}}
  <2>1. C \in SUBSET Addr /\ B[h] \subseteq C /\ \A b \in C : B[b] \subseteq C
    BY <1>1, <1>2, <1>4
  <2> HIDE DEF C
  <2>2. bs \subseteq C
    BY <1>6, <2>1
  <2> QED BY <2>2 DEF C
<1>9. ASSUME NEW R \in SUBSET Addr, h \in R, After(graph, bs, R) PROVE bs \subseteq R
  <2>1. R \cap bs \in SUBSET Addr /\ h \in R \cap bs
        /\ \A b \in R \cap bs : E[b] \subseteq R \cap bs
    BY <1>1, <1>2, <1>3, <1>9 DEF After
  <2>2. bs \subseteq R \cap bs
    BY <1>5, <2>1
  <2> QED BY <2>2
<1>10. ASSUME NEW R \in SUBSET Addr, B[h] \subseteq R, Before(graph, bs, R) PROVE bs \subseteq R
  <2>1. R \cap bs \in SUBSET Addr /\ B[h] \subseteq R \cap bs
        /\ \A b \in R \cap bs : B[b] \subseteq R \cap bs
    BY <1>2, <1>4, <1>10 DEF Before
  <2>2. bs \subseteq R \cap bs
    BY <1>6, <2>1
  <2> QED BY <2>2
<1>11. Reaches(graph, h, bs)
  BY <1>1, <1>7, <1>8, <1>9 DEF Reaches
<1> QED BY <1>2, <1>10, <1>11 DEF B

\* A region leads from its head to all blocks and back.
LEMMA RegionConnected ==
    ASSUME NEW c, NEW G \in Graph, NEW h, NEW bs, NEW W,
           Joins(c, G, bs, W), Reaches(G, h, W),
           \A R \in SUBSET Addr :
              Backwards(G.succs, bs)[h] \subseteq R /\ Before(G, bs, R) => bs \subseteq R
    PROVE  Connected(h, W, Compiled(G, W).succs)
<1> DEFINE S == Compiled(G, W).succs
           E == Within(S, W)
           B == Backwards(S, W)
           R1 == Closure(E, {h})
           R2 == Closure(B, B[h])
<1>1. W \in SUBSET Addr /\ h \in W /\ bs \subseteq W /\ h \in Addr
  BY DEF Reaches, Joins
<1>2. \A b \in W : S[b] = G.succs[b] \cap W
  BY CompiledEdges
<1>3. \A b \in Addr \ W : S[b] = {}
  BY CompiledEdges
<1> HIDE DEF S
<1>4. /\ \A b \in W : E[b] = G.succs[b] \cap W
      /\ \A b \in Addr : E[b] \subseteq W
  BY <1>1, <1>2, <1>3 DEF Within
<1>5. \A t \in Addr : B[t] = {b \in W : t \in S[b]}
  BY DEF Backwards
<1>6. \A t \in W : B[t] = {b \in W : t \in G.succs[b]}
  BY <1>1, <1>2, <1>5
<1> HIDE DEF E, B
<1>7. R1 = W
  <2>1. {h} \in SUBSET Addr /\ \A b \in Addr : E[b] \subseteq Addr
    BY <1>1, <1>4
  <2>2. /\ {h} \subseteq R1 /\ R1 \subseteq Addr /\ \A b \in R1 : E[b] \subseteq R1
        /\ \A C \in SUBSET Addr : {h} \subseteq C /\ (\A b \in C : E[b] \subseteq C) => R1 \subseteq C
    BY <2>1, ClosureFrom
  <2> HIDE DEF R1
  <2>3. R1 \subseteq W
    BY <1>1, <1>4, <2>2
  <2>4. After(G, W, R1)
    BY <1>4, <2>2 DEF After
  <2>5. W \subseteq R1
    BY <2>2, <2>4 DEF Reaches
  <2> QED BY <2>3, <2>5
<1>8. R2 = W
  <2>1. B[h] \in SUBSET Addr /\ \A b \in Addr : B[b] \subseteq W
    BY <1>1, <1>5
  <2>2. \A b \in Addr : B[b] \subseteq Addr
    BY <1>1, <2>1
  <2>3. /\ B[h] \subseteq R2 /\ R2 \subseteq Addr /\ \A b \in R2 : B[b] \subseteq R2
        /\ \A C \in SUBSET Addr : B[h] \subseteq C /\ (\A b \in C : B[b] \subseteq C) => R2 \subseteq C
    BY <2>1, <2>2, ClosureFrom
  <2> HIDE DEF R2
  <2>4. R2 \subseteq W
    BY <1>1, <2>1, <2>3
  <2>5. Before(G, W, R2)
    <3> SUFFICES ASSUME NEW x \in W, NEW t \in G.succs[x] \cap W \cap R2 PROVE x \in R2
      BY DEF Before
    <3>1. x \in B[t]
      BY <1>6
    <3> QED BY <2>3, <3>1
  <2>6. Before(G, bs, R2)
    BY <1>1, <2>5 DEF Before
  <2>7. Backwards(G.succs, bs)[h] \subseteq R2
    <3>1. Backwards(G.succs, bs)[h] = {b \in bs : h \in G.succs[b]}
      BY <1>1 DEF Backwards
    <3>2. Backwards(G.succs, bs)[h] \subseteq B[h]
      BY <1>1, <1>6, <3>1
    <3> QED BY <2>3, <3>2
  <2>8. W \subseteq R2
    BY <2>3, <2>5, <2>6, <2>7 DEF Joins
  <2> QED BY <2>4, <2>8
<1>9. Connected(h, W, S)
  BY <1>7, <1>8 DEF Connected, E, B
<1> QED BY <1>9 DEF S

\* What aug_dfs passes through has no indirect jump and no ecall.
LEMMA PassedBlock ==
    ASSUME NEW c \in Programs, NEW G \in Graph, Sound(c, G, G.blocks \ G.ro), NEW b \in G.ro,
           Passed(c, G, b)
    PROVE  ~HasKind(c, G, b, StopsASearch)
<1>1. CASE HasKind(c, G, b, {"jal"})
  <2>1. PICK a \in Words(G, b) : c[a].kind = "jal"
    BY <1>1 DEF HasKind
  <2>2. ASSUME NEW z \in Words(G, b), IsBranchOrJump(c[z]) PROVE z = G.last[b]
    <3>1. /\ b \in Nat /\ G.last[b] \in Nat
          /\ \A x \in b..(G.last[b] - 1) : ~IsBranchOrJump(c[x])
      BY ClosedBlock, AddrFacts
    <3>2. z \in b..G.last[b]
      BY DEF Words
    <3>3. z \notin b..(G.last[b] - 1)
      BY <2>2, <3>1
    <3> QED BY <3>1, <3>2, <3>3
  <2>3. a = G.last[b]
    BY <2>1, <2>2 DEF IsBranchOrJump, Transfers, Indirect
  <2> SUFFICES ASSUME NEW z \in Words(G, b), c[z].kind \in StopsASearch PROVE FALSE
    BY DEF HasKind
  <2>4. c[z].kind # "ecall"
    BY ClosedBlock
  <2>5. z = G.last[b]
    BY <2>2, <2>4 DEF StopsASearch, IsBranchOrJump, Transfers, Indirect
  <2> QED BY <2>1, <2>3, <2>5 DEF StopsASearch, Indirect
<1>2. CASE ~HasKind(c, G, b, {"jal"})
  BY <1>2 DEF Passed, StopsASearch, DeadEnds
<1> QED BY <1>1, <1>2

LEMMA WellBuiltInv == IndInv => RegionsWellBuilt
<1> SUFFICES ASSUME IndInv, Dispatching, cBB \in graph.ro, NEW bs \in Traced(cBB),
                    NEW aug \in {CfgAug, "insane"}, NEW order \in Orders
             PROVE  LET all == bs \cup Discovered(aug, code, graph, cBB, bs, order)
                    IN  /\ Connected(cBB, all, Compiled(graph, all).succs)
                        /\ \A b \in all \ bs : ~HasKind(code, graph, b, StopsASearch)
                        /\ (\A b \in all : ~HasKind(code, graph, b, {"nop", "fence", "csr"})) =>
                              BuildFault(code, graph, cBB, all) = "none"
  BY DEF RegionsWellBuilt
<1> DEFINE W == bs \cup Discovered(aug, code, graph, cBB, bs, order)
<1>1. /\ graph \in Graph /\ code \in Programs /\ Sound(code, graph, graph.blocks \ graph.ro)
      /\ TypeOK
  BY DEF IndInv, TypeOK, PcInSync, Dispatching, Running, Open
<1>2. graph.ro \subseteq Addr /\ graph.succs \in [Addr -> SUBSET Addr]
  BY <1>1 DEF Graph
<1>3. /\ bs \in SUBSET Addr /\ Reaches(graph, cBB, bs)
      /\ \A R \in SUBSET Addr :
            Backwards(graph.succs, bs)[cBB] \subseteq R /\ Before(graph, bs, R) => bs \subseteq R
  BY <1>1, <1>2, TracedReaches
<1>4. Joins(code, graph, bs, W)
  <2>1. cBB \in bs
    BY <1>3 DEF Reaches
  <2>2. aug \in {"none", "head", "aggressive", "insane"}
    BY CfgAugAssumption
  <2> QED BY <1>2, <1>3, <2>1, <2>2, DiscoveredJoins
<1> HIDE DEF W
<1>5. Reaches(graph, cBB, W)
  BY <1>1, <1>3, <1>4, JoinsReaches DEF Sound
<1>6. Connected(cBB, W, Compiled(graph, W).succs)
  BY <1>1, <1>3, <1>4, <1>5, RegionConnected
<1>7. ASSUME NEW b \in W \ bs PROVE ~HasKind(code, graph, b, StopsASearch)
  <2>1. b \in graph.ro /\ Passed(code, graph, b)
    BY <1>4, <1>5 DEF Joins, Reaches
  <2> QED BY <1>1, <2>1, PassedBlock
<1>8. ASSUME \A b \in W : ~HasKind(code, graph, b, {"nop", "fence", "csr"})
      PROVE  BuildFault(code, graph, cBB, W) = "none"
  <2> DEFINE words == UNION {Words(graph, b) : b \in W}
  <2>1. \A a \in words : code[a].kind \notin {"nop", "fence", "csr"}
    BY <1>8 DEF HasKind
  <2>2. W \subseteq graph.ro
    BY <1>5 DEF Reaches
  <2>3. \A a \in words : code[a].kind # "ecall"
    BY <1>1, <2>2, ClosedBlock
  <2>4. \A a \in words : HasTranslation(code[a]) /\ code[a].kind # "nop"
    BY <2>1, <2>3 DEF HasTranslation
  <2> QED BY <1>1, <1>5, <2>4, RegionCompiles
<1> QED BY <1>6, <1>7, <1>8 DEF W

\* Whatever loops are recorded and however they are augmented, the region that
\* buildCFG makes of them is connected from its head and back, nothing but what
\* was recorded has an indirect jump, and no check fails but that of an
\* instruction that cannot be translated.
THEOREM RegionsStayWellBuilt == Spec => []RegionsWellBuilt
BY WellBuiltInv, Invariance, PTL
=============================================================================
