------------------------------ MODULE PhiProofs ------------------------------
(***************************************************************************)
(* What is read off the dominator tree is right: the two tests of          *)
(* dominance, the dominance frontiers and the natural loops.               *)
(*                                                                         *)
(* And what the generated code reads and stores of a register is its       *)
(* latest value.  The dominance frontiers say where two values can meet,   *)
(* the work list puts a phi node at each such block, and on an edge to a   *)
(* block without one the names at the end of the block it leaves and at    *)
(* the end of the immediate dominator of the block it enters are the same. *)
(***************************************************************************)
EXTENDS DominanceProofs

-----------------------------------------------------------------------------
(***************************************************************************)
(* The dominator tree: functions defined by recursion from a block to its  *)
(* immediate dominator, which is numbered before it.                       *)
(***************************************************************************)
Tree ==
    /\ succs \in Graphs
    /\ NumberedBefore
    /\ Visited = Nodes
    /\ TreeShape

LEMMA TreeOf ==
    ASSUME TreeInv,
           stage \notin {"number", "visit", "semi", "bucket", "defer", "idom"}
    PROVE  Tree
BY DEF TreeInv, FirstStages, Tree, IndInv, DomTyped, NumberingSound

LEMMA TreeRoot ==
    ASSUME Tree
    PROVE  /\ Entry \in Nodes /\ Null \notin Nodes /\ idom[Entry] = Null
           /\ Nodes \subseteq Nat /\ IsFiniteSet(Nodes)
BY GraphsAssumption DEF Tree, TreeShape, Nodes

LEMMA TreeUp ==
    ASSUME Tree, NEW b \in Nodes
    PROVE  /\ Entry \in Nodes /\ Null \notin Nodes /\ idom[Entry] = Null
           /\ Num(b) \in Nat \ {0} /\ Num(b) <= Len(order) /\ Len(order) \in Nat
           /\ b # Entry => idom[b] \in Nodes /\ Num(idom[b]) < Num(b) /\ Imm(idom[b], b)
           /\ Dominates(b, b) /\ Dominates(Entry, b)
<1>1. Null \notin Nodes
  BY GraphsAssumption DEF Tree, Nodes
<1>2. Entry \in Nodes /\ Dominates(b, b) /\ Dominates(Entry, b)
  BY EntryDominates DEF Tree
<1>3. Num(b) \in 1..Len(order) /\ Len(order) \in Nat
  BY NumOf DEF Tree
<1>4. ASSUME b # Entry
      PROVE  idom[b] \in Nodes /\ Num(idom[b]) < Num(b) /\ Imm(idom[b], b)
  <2>1. Imm(idom[b], b)
    BY <1>4 DEF Tree, TreeShape
  <2> QED BY <2>1, StrictBefore DEF Imm, Tree
<1> QED BY <1>1, <1>2, <1>3, <1>4 DEF Tree, TreeShape

\* What strictly dominates a block dominates its immediate dominator.
LEMMA DominatesUp ==
    ASSUME Tree, NEW b \in Nodes \ {Entry}, NEW a \in Nodes
    PROVE  Dominates(a, b) <=> a = b \/ Dominates(a, idom[b])
<1>1. idom[b] \in Nodes /\ Imm(idom[b], b) /\ Dominates(b, b) /\ succs \in Graphs
  BY TreeUp DEF Tree
<1>2. Dominates(a, idom[b]) => Dominates(a, b)
  BY <1>1, DominatesTransitive DEF Imm
<1> QED BY <1>1, <1>2 DEF Imm

\* Induction from a block's immediate dominator to the block.
LEMMA TreeInduction ==
    ASSUME Tree, NEW S, Entry \in S,
           \A b \in Nodes \ {Entry} : idom[b] \in S => b \in S
    PROVE  Nodes \subseteq S
<1> SUFFICES ASSUME Nodes \ S # {} PROVE FALSE
  OBVIOUS
<1> DEFINE Numbers == {Num(b) : b \in Nodes \ S}
<1>1. Numbers \subseteq Nat /\ Numbers # {}
  BY TreeUp
<1>2. PICK m \in Numbers : \A n \in Numbers : m <= n
  <2> HIDE DEF Numbers
  <2> QED BY <1>1, LeastNumber
<1>3. PICK b \in Nodes \ S : m = Num(b)
  OBVIOUS
<1>4. b # Entry
  OBVIOUS
<1>5. idom[b] \in Nodes /\ Num(idom[b]) < Num(b) /\ Num(b) \in Nat /\ Num(idom[b]) \in Nat
  BY <1>4, TreeUp
<1>6. Num(idom[b]) \notin Numbers
  BY <1>2, <1>3, <1>5
<1>7. idom[b] \in S
  BY <1>5, <1>6
<1> QED BY <1>4, <1>7

\* f is defined by recursion along the tree, from x0 at the entry.
TreeRec(F, x0, f) ==
    /\ f[Entry] = F[<<Entry, x0>>]
    /\ \A b \in Nodes \ {Entry} : f[b] = F[<<b, f[idom[b]]>>]

LEMMA TreeRecursion ==
    ASSUME Tree, NEW X, NEW x0 \in X, NEW F \in [Nodes \X X -> X]
    PROVE  \E f \in [Nodes -> X] : TreeRec(F, x0, f)
<1> DEFINE Up(f, b) == F[<<b, IF b = Entry THEN x0 ELSE f[idom[b]]>>]
           G == [f \in [Nodes -> X] |-> [b \in Nodes |-> Up(f, b)]]
           f0 == [b \in Nodes |-> x0]
<1>1. G \in [[Nodes -> X] -> [Nodes -> X]] /\ f0 \in [Nodes -> X]
  <2>1. ASSUME NEW f \in [Nodes -> X], NEW b \in Nodes PROVE Up(f, b) \in X
    BY TreeUp
  <2> QED BY <2>1
<1>2. PICK g \in [Nat -> [Nodes -> X]] : Iterates(G, f0, g)
  <2> HIDE DEF G, f0
  <2> QED BY <1>1, IterationExists
<1>3. ASSUME NEW k \in Nat, NEW b \in Nodes PROVE g[k + 1][b] = Up(g[k], b)
  <2>1. g[k] \in [Nodes -> X] /\ g[k + 1] = G[g[k]]
    BY <1>2 DEF Iterates
  <2> QED BY <2>1
<1> DEFINE S == {k \in Nat : \A b \in Nodes : Num(b) <= k => g[k + 1][b] = g[k][b]}
<1>4. 0 \in S
  BY TreeUp
<1>5. ASSUME NEW k \in Nat, k \in S PROVE k + 1 \in S
  <2>1. ASSUME NEW b \in Nodes, Num(b) <= k + 1 PROVE g[(k + 1) + 1][b] = g[k + 1][b]
    <3>1. g[(k + 1) + 1][b] = Up(g[k + 1], b) /\ g[k + 1][b] = Up(g[k], b)
      <4>1. k + 1 \in Nat
        OBVIOUS
      <4> HIDE DEF Up
      <4> QED BY <1>3, <4>1
    <3>2. CASE b = Entry
      BY <3>1, <3>2
    <3>3. CASE b # Entry
      <4>1. idom[b] \in Nodes /\ Num(idom[b]) <= k
        BY <2>1, <3>3, TreeUp
      <4>2. g[k + 1][idom[b]] = g[k][idom[b]]
        BY <1>5, <4>1
      <4> QED BY <3>1, <3>3, <4>2
    <3> QED BY <3>2, <3>3
  <2> QED BY <2>1
<1>6. Nat \subseteq S
  <2> HIDE DEF S
  <2> QED BY <1>4, <1>5, SetInduction
<1> DEFINE n == Len(order)
           f == g[n]
<1>7. n \in Nat /\ \A b \in Nodes : Num(b) <= n
  BY TreeUp, NumOf DEF Tree
<1>8. ASSUME NEW b \in Nodes PROVE f[b] = Up(f, b)
  <2>1. g[n + 1][b] = g[n][b]
    BY <1>6, <1>7
  <2>2. g[n + 1][b] = Up(g[n], b)
    BY <1>3, <1>7
  <2> QED BY <2>1, <2>2
<1>9. TreeRec(F, x0, f)
  <2>1. Entry \in Nodes
    BY TreeRoot
  <2> HIDE DEF f
  <2> QED BY <1>8, <2>1 DEF TreeRec
<1>10. f \in [Nodes -> X]
  BY <1>7
<1> QED BY <1>9, <1>10

-----------------------------------------------------------------------------
\* The equations of Upto's recursion.
LEMMA UptoEquations ==
    ASSUME Tree, NEW stop
    PROVE  /\ Upto(Null, stop) = {}
           /\ \A b \in Nodes :
                 Upto(b, stop) = IF b \in {stop, Null} THEN {} ELSE {b} \cup Upto(idom[b], stop)
<1> DEFINE Eq(g) == g = [b \in Nodes \cup {Null} |->
                            IF b \in {stop, Null} THEN {} ELSE {b} \cup g[idom[b]]]
           F == [s \in Nodes \X SUBSET Nodes |-> IF s[1] = stop THEN {} ELSE {s[1]} \cup s[2]]
<1>1. F \in [Nodes \X SUBSET Nodes -> SUBSET Nodes] /\ {} \in SUBSET Nodes
  OBVIOUS
<1>2. PICK f \in [Nodes -> SUBSET Nodes] : TreeRec(F, {}, f)
  <2> HIDE DEF F
  <2> QED BY <1>1, TreeRecursion
<1>3. \A b \in Nodes : /\ b # Null
                       /\ b = Entry => idom[b] = Null
                       /\ b # Entry => idom[b] \in Nodes
  BY TreeUp
<1> DEFINE h == [b \in Nodes \cup {Null} |-> IF b = Null THEN {} ELSE f[b]]
<1>4. ASSUME NEW b \in Nodes
      PROVE  f[b] = IF b \in {stop, Null} THEN {} ELSE {b} \cup h[idom[b]]
  <2>1. CASE b = Entry
    <3>1. f[b] = F[<<b, {}>>] /\ h[idom[b]] = {}
      BY <1>2, <1>3, <2>1 DEF TreeRec
    <3> QED BY <1>3, <3>1
  <2>2. CASE b # Entry
    <3>1. f[b] = F[<<b, f[idom[b]]>>] /\ h[idom[b]] = f[idom[b]] /\ idom[b] \in Nodes
      BY <1>2, <1>3, <2>2 DEF TreeRec
    <3> QED BY <1>3, <3>1
  <2> QED BY <2>1, <2>2
<1>5. Eq(h)
  <2>1. \A b \in Nodes \cup {Null} :
           h[b] = IF b \in {stop, Null} THEN {} ELSE {b} \cup h[idom[b]]
    BY <1>3, <1>4
  <2> QED BY <2>1
<1> DEFINE up == CHOOSE g : Eq(g)
<1>6. Eq(up)
  <2> HIDE DEF Eq, h
  <2> QED BY <1>5
<1>7. \A p : Upto(p, stop) = up[p]
  BY DEF Upto
<1>8. up[Null] = {} /\ \A b \in Nodes : up[b] = IF b \in {stop, Null} THEN {} ELSE {b} \cup up[idom[b]]
  <2> HIDE DEF up
  <2> QED BY <1>6
<1> HIDE DEF up
<1> QED BY <1>7, <1>8

\* Upto's blocks are the dominators of p that do not dominate stop as well.
LEMMA UptoDominates ==
    ASSUME Tree, NEW stop \in Nodes \cup {Null}
    PROVE  \A p \in Nodes :
              Upto(p, stop) = {x \in Nodes : Dominates(x, p) /\
                                 ~(stop \in Nodes /\ Dominates(stop, p) /\ Dominates(x, stop))}
<1> DEFINE Line(p) == {x \in Nodes : Dominates(x, p) /\
                         ~(stop \in Nodes /\ Dominates(stop, p) /\ Dominates(x, stop))}
           S == {p \in Nodes : Upto(p, stop) = Line(p)}
<1>0. succs \in Graphs
  BY DEF Tree
<1>1. ASSUME NEW p \in Nodes, p = stop PROVE p \in S
  <2>1. Upto(p, stop) = {}
    BY <1>1, UptoEquations
  <2>2. Dominates(stop, p)
    BY <1>1, TreeUp
  <2>3. Line(p) = {}
    BY <1>1, <2>2
  <2> QED BY <2>1, <2>3
<1>2. Entry \in S
  <2>1. Entry \in Nodes /\ Entry # Null /\ idom[Entry] = Null /\ Dominates(Entry, Entry)
    BY TreeRoot, TreeUp
  <2>2. CASE Entry # stop
    <3>1. Upto(Entry, stop) = {Entry}
      BY <2>1, <2>2, UptoEquations
    <3>2. Line(Entry) = {Entry}
      BY <2>1, <2>2, EntryAlone
    <3> QED BY <2>1, <3>1, <3>2
  <2> QED BY <1>1, <2>1, <2>2
<1>3. ASSUME NEW p \in Nodes \ {Entry}, idom[p] \in S PROVE p \in S
  <2> SUFFICES ASSUME p # stop PROVE p \in S
    BY <1>1
  <2>1. p # Null /\ idom[p] \in Nodes /\ Imm(idom[p], p)
    BY TreeUp
  <2>2. Upto(p, stop) = {p} \cup Line(idom[p])
    BY <1>3, <2>1, UptoEquations
  <2>3. \A x \in Nodes : Dominates(x, p) <=> x = p \/ Dominates(x, idom[p])
    BY DominatesUp
  <2>4. stop \in Nodes => (Dominates(stop, p) <=> Dominates(stop, idom[p]))
    BY <2>3
  <2>5. ~(stop \in Nodes /\ Dominates(stop, p) /\ Dominates(p, stop))
    BY <1>0, DominatesAntisymmetric
  <2>6. \A x \in Nodes : x \in Line(p) <=> x = p \/ x \in Line(idom[p])
    BY <2>3, <2>4, <2>5
  <2>7. Line(p) = {p} \cup Line(idom[p])
    <3>1. Line(p) \subseteq Nodes /\ Line(idom[p]) \subseteq Nodes
      OBVIOUS
    <3> HIDE DEF Line
    <3> QED BY <2>6, <3>1
  <2> QED BY <2>2, <2>7
<1>4. Nodes \subseteq S
  <2> HIDE DEF S
  <2> QED BY <1>2, <1>3, TreeInduction
<1> QED BY <1>4

LEMMA BelowDominated ==
    ASSUME Tree, NEW b \in Nodes
    PROVE  Below(b) = {x \in Nodes : Dominates(b, x)}
<1>1. Null \notin Nodes
  BY TreeUp
<1>2. \A x \in Nodes : Upto(x, Null) = {y \in Nodes : Dominates(y, x)}
  BY <1>1, UptoDominates
<1> QED BY <1>2 DEF Below

-----------------------------------------------------------------------------
(***************************************************************************)
(* The numbering of the dominator tree gives the blocks below a block the  *)
(* numbers from its own on, and no others.                                 *)
(***************************************************************************)
\* The siblings before b with all that is below them.
Prior(b) == UNION {Below(t) : t \in {x \in Nodes : x < b /\ idom[x] = idom[b]}}

Size(b) == Cardinality(Below(b))

\* The number after the last one below b.
After(b) == PreNumber[b] + Size(b)

LEMMA SizesFinite ==
    ASSUME Tree, NEW b \in Nodes
    PROVE  /\ Below(b) \subseteq Nodes /\ IsFiniteSet(Below(b)) /\ b \in Below(b)
           /\ Prior(b) \subseteq Nodes /\ IsFiniteSet(Prior(b))
           /\ Size(b) \in Nat \ {0} /\ Cardinality(Prior(b)) \in Nat
<1>1. Below(b) \subseteq Nodes /\ Prior(b) \subseteq Nodes
  BY DEF Below, Prior
<1>2. b \in Below(b)
  BY TreeUp, BelowDominated
<1>3. IsFiniteSet(Below(b)) /\ IsFiniteSet(Prior(b)) 
  BY <1>1, TreeRoot, FS_Subset
<1>4. Cardinality(Prior(b)) \in Nat /\ Size(b) \in Nat /\ Size(b) # 0
  BY <1>2, <1>3, FS_CardinalityType, FS_EmptySet DEF Size
<1> QED BY <1>1, <1>2, <1>3, <1>4

LEMMA PreNumberEquations ==
    ASSUME Tree
    PROVE  /\ PreNumber \in [Nodes -> Nat] /\ PreNumber[Entry] = 1
           /\ \A b \in Nodes \ {Entry} :
                 PreNumber[b] = PreNumber[idom[b]] + 1 + Cardinality(Prior(b))
<1> DEFINE Eq(g) == g = [b \in Nodes |->
                           IF b = Entry THEN 1
                           ELSE g[idom[b]] + 1
                                  + Cardinality(UNION {Below(t) :
                                                  t \in {x \in Nodes : x < b /\ idom[x] = idom[b]}})]
           F == [s \in Nodes \X Nat |->
                   IF s[1] = Entry THEN 1 ELSE s[2] + 1 + Cardinality(Prior(s[1]))]
<1>1. F \in [Nodes \X Nat -> Nat] /\ 0 \in Nat
  BY SizesFinite
<1>2. PICK f \in [Nodes -> Nat] : TreeRec(F, 0, f)
  <2> HIDE DEF F
  <2> QED BY <1>1, TreeRecursion
<1>3. f[Entry] = 1 /\ \A b \in Nodes \ {Entry} : f[b] = f[idom[b]] + 1 + Cardinality(Prior(b))
  <2>1. Entry \in Nodes
    BY TreeRoot
  <2>2. f[Entry] = 1
    BY <1>2, <2>1 DEF TreeRec
  <2>3. \A b \in Nodes \ {Entry} : f[b] = F[<<b, f[idom[b]]>>] /\ f[idom[b]] \in Nat
    BY <1>2, TreeUp DEF TreeRec
  <2> QED BY <2>2, <2>3
<1>4. Eq(f)
  BY <1>3 DEF Prior
<1> DEFINE dfn == CHOOSE g : Eq(g)
<1>5. Eq(dfn)
  <2> HIDE DEF Eq
  <2> QED BY <1>4
<1>6. PreNumber = [b \in Nodes |-> dfn[b]]
  BY DEF PreNumber
<1>7. dfn = [b \in Nodes |-> IF b = Entry THEN 1 ELSE dfn[idom[b]] + 1 + Cardinality(Prior(b))]
  <2> HIDE DEF dfn
  <2> QED BY <1>5 DEF Prior
<1> HIDE DEF dfn
<1>8. /\ PreNumber[Entry] = 1
      /\ \A b \in Nodes \ {Entry} : PreNumber[b] = PreNumber[idom[b]] + 1 + Cardinality(Prior(b))
  <2>1. \A b \in Nodes : PreNumber[b] = dfn[b]
    BY <1>6
  <2>2. Entry \in Nodes /\ \A b \in Nodes \ {Entry} : idom[b] \in Nodes
    BY TreeRoot, TreeUp
  <2>3. dfn[Entry] = 1 /\ \A b \in Nodes \ {Entry} : dfn[b] = dfn[idom[b]] + 1 + Cardinality(Prior(b))
    BY <1>7, <2>2
  <2> QED BY <2>1, <2>2, <2>3
<1>9. PreNumber \in [Nodes -> Nat]
  <2> DEFINE S == {b \in Nodes : PreNumber[b] \in Nat}
  <2>1. Entry \in S
    BY <1>8, TreeRoot
  <2>2. \A b \in Nodes \ {Entry} : idom[b] \in S => b \in S
    BY <1>8, SizesFinite
  <2>3. Nodes \subseteq S
    <3> HIDE DEF S
    <3> QED BY <2>1, <2>2, TreeInduction
  <2> QED BY <1>6, <2>3
<1> QED BY <1>8, <1>9

\* Siblings are not below each other.
LEMMA SiblingsApart ==
    ASSUME Tree, NEW s \in Nodes \ {Entry}, NEW t \in Nodes \ {Entry}, s # t,
           idom[s] = idom[t]
    PROVE  ~Dominates(s, t) /\ Below(s) \cap Below(t) = {}
<1>1. ASSUME NEW x \in Nodes \ {Entry}, NEW y \in Nodes \ {Entry}, x # y,
             idom[x] = idom[y]
      PROVE  ~Dominates(x, y)
  <2> SUFFICES ASSUME Dominates(x, y) PROVE FALSE
    OBVIOUS
  <2>1. Dominates(x, idom[x])
    BY <1>1, DominatesUp
  <2>2. Imm(idom[x], x) /\ succs \in Graphs
    BY TreeUp DEF Tree
  <2> QED BY <2>1, <2>2, DominatesAntisymmetric DEF Imm
<1>2. ASSUME NEW z \in Below(s) \cap Below(t) PROVE FALSE
  <2>1. z \in Nodes /\ Dominates(s, z) /\ Dominates(t, z)
    BY BelowDominated
  <2>2. Dominates(s, t) \/ Dominates(t, s)
    BY <2>1, DominatorsChain DEF Tree
  <2> QED BY <1>1, <2>2
<1> QED BY <1>1, <1>2

\* The blocks below b, and those before it among its siblings' descendants, are
\* apart and below its immediate dominator.
LEMMA ChildInside ==
    ASSUME Tree, NEW b \in Nodes \ {Entry}
    PROVE  PreNumber[idom[b]] < PreNumber[b] /\ After(b) <= After(idom[b])
<1> DEFINE a == idom[b]
           P == Prior(b)
           B == Below(b)
<1>1. a \in Nodes /\ Imm(a, b) /\ succs \in Graphs
  BY TreeUp DEF Tree
<1>2. \A x \in Nodes : x \in P => \E t \in Nodes \ {Entry} : t # b /\ idom[t] = a /\ x \in Below(t)
  BY <1>1, TreeRoot DEF Prior
<1>3. P \cap B = {}
  <2> SUFFICES ASSUME NEW x \in P \cap B PROVE FALSE
    OBVIOUS
  <2>1. x \in Nodes
    BY SizesFinite
  <2>2. PICK t \in Nodes \ {Entry} : t # b /\ idom[t] = a /\ x \in Below(t)
    BY <1>2, <2>1
  <2> QED BY <2>2, SiblingsApart
<1>4. \A t \in Nodes \ {Entry} : idom[t] = a => Below(t) \subseteq Below(a) \ {a}
  <2> SUFFICES ASSUME NEW t \in Nodes \ {Entry}, idom[t] = a, NEW x \in Below(t)
               PROVE  x \in Below(a) \ {a}
    OBVIOUS
  <2>1. x \in Nodes /\ Dominates(t, x) /\ Imm(a, t)
    BY BelowDominated, TreeUp
  <2>2. Dominates(a, x)
    BY <1>1, <2>1, DominatesTransitive DEF Imm
  <2>3. x # a
    BY <1>1, <2>1, DominatesAntisymmetric DEF Imm
  <2> QED BY <1>1, <2>1, <2>2, <2>3, BelowDominated
<1>5. P \cup B \subseteq Below(a) \ {a}
  <2>1. B \subseteq Below(a) \ {a}
    BY <1>4
  <2>2. P \subseteq Below(a) \ {a}
    BY <1>2, <1>4, SizesFinite
  <2> QED BY <2>1, <2>2
<1>6. /\ IsFiniteSet(P) /\ IsFiniteSet(B) /\ IsFiniteSet(Below(a)) /\ a \in Below(a)
      /\ Cardinality(P) \in Nat /\ Size(b) \in Nat /\ Size(b) = Cardinality(B)
      /\ Size(a) \in Nat /\ Size(a) = Cardinality(Below(a))
  BY <1>1, SizesFinite DEF Size
<1> HIDE DEF P, B
<1>7. Cardinality(P \cup B) = Cardinality(P) + Cardinality(B)
  BY <1>3, <1>6, FS_Union, FS_EmptySet
<1>8. /\ IsFiniteSet(Below(a) \ {a})
      /\ Cardinality(Below(a) \ {a}) = Cardinality(Below(a)) - 1
  BY <1>6, FS_RemoveElement
<1>9. Cardinality(P \cup B) <= Cardinality(Below(a) \ {a})
  BY <1>5, <1>8, FS_Subset
<1>10. Cardinality(P) + Size(b) <= Size(a) - 1
  BY <1>6, <1>7, <1>8, <1>9
<1>11. PreNumber[b] = PreNumber[a] + 1 + Cardinality(P) /\ PreNumber[a] \in Nat
  BY <1>1, PreNumberEquations DEF P
<1> HIDE DEF a
<1>12. PreNumber[a] < PreNumber[b] /\ PreNumber[b] + Size(b) <= PreNumber[a] + Size(a)
  BY <1>6, <1>10, <1>11
<1> QED BY <1>12 DEF After, a

LEMMA BelowInside ==
    ASSUME Tree, NEW a \in Nodes
    PROVE  \A b \in Nodes : Dominates(a, b) =>
              /\ PreNumber[a] <= PreNumber[b] /\ After(b) <= After(a)
              /\ a # b => PreNumber[a] < PreNumber[b]
<1> DEFINE S == {b \in Nodes : Dominates(a, b) =>
                                  /\ PreNumber[a] <= PreNumber[b] /\ After(b) <= After(a)
                                  /\ a # b => PreNumber[a] < PreNumber[b]}
<1>1. \A b \in Nodes : PreNumber[b] \in Nat /\ Size(b) \in Nat /\ After(b) \in Nat
  BY PreNumberEquations, SizesFinite DEF After
<1>2. Entry \in S
  BY <1>1, EntryAlone, TreeRoot
<1>3. ASSUME NEW b \in Nodes \ {Entry}, idom[b] \in S PROVE b \in S
  <2> SUFFICES ASSUME Dominates(a, b), a # b
               PROVE  PreNumber[a] < PreNumber[b] /\ After(b) <= After(a)
    BY <1>1
  <2>1. Dominates(a, idom[b]) /\ idom[b] \in Nodes
    BY DominatesUp, TreeUp
  <2>2. PreNumber[a] <= PreNumber[idom[b]] /\ After(idom[b]) <= After(a)
    BY <1>3, <2>1
  <2>3. PreNumber[idom[b]] < PreNumber[b] /\ After(b) <= After(idom[b])
    BY ChildInside
  <2>4. /\ PreNumber[a] \in Nat /\ PreNumber[b] \in Nat /\ PreNumber[idom[b]] \in Nat
        /\ After(a) \in Nat /\ After(b) \in Nat /\ After(idom[b]) \in Nat
    BY <1>1, <2>1
  <2> QED BY <2>2, <2>3, <2>4
<1>4. Nodes \subseteq S
  <2> HIDE DEF S
  <2> QED BY <1>2, <1>3, TreeInduction
<1> QED BY <1>4

LEMMA SiblingsInOrder ==
    ASSUME Tree, NEW s \in Nodes \ {Entry}, NEW t \in Nodes \ {Entry}, s < t,
           idom[s] = idom[t]
    PROVE  After(s) <= PreNumber[t]
<1>1. Prior(s) \cup Below(s) \subseteq Prior(t)
  <2>1. s \in Nat /\ t \in Nat /\ \A x \in Nodes : x \in Nat
    BY TreeRoot
  <2>2. \A x \in Nodes : x < s /\ idom[x] = idom[s] => x < t /\ idom[x] = idom[t]
    BY <2>1
  <2> QED BY <2>2 DEF Prior
<1>2. Prior(s) \cap Below(s) = {}
  <2> SUFFICES ASSUME NEW x \in Prior(s), x \in Below(s) PROVE FALSE
    OBVIOUS
  <2>1. PICK u \in Nodes : u < s /\ idom[u] = idom[s] /\ x \in Below(u)
    BY DEF Prior
  <2>2. u # s /\ u # Entry
    <3>1. u \in Nat /\ s \in Nat /\ idom[s] \in Nodes /\ idom[Entry] \notin Nodes
      BY TreeRoot, TreeUp
    <3> QED BY <2>1, <3>1
  <2> QED BY <2>1, <2>2, SiblingsApart
<1>3. /\ IsFiniteSet(Prior(s)) /\ IsFiniteSet(Below(s)) /\ IsFiniteSet(Prior(t))
      /\ Cardinality(Prior(s)) \in Nat /\ Size(s) \in Nat /\ Size(s) = Cardinality(Below(s))
      /\ Cardinality(Prior(t)) \in Nat
  BY SizesFinite DEF Size
<1>4. Cardinality(Prior(s) \cup Below(s)) = Cardinality(Prior(s)) + Size(s)
  BY <1>2, <1>3, FS_Union, FS_EmptySet
<1>5. Cardinality(Prior(s)) + Size(s) <= Cardinality(Prior(t))
  BY <1>1, <1>3, <1>4, FS_Subset
<1>6. /\ PreNumber[s] = PreNumber[idom[s]] + 1 + Cardinality(Prior(s))
      /\ PreNumber[t] = PreNumber[idom[s]] + 1 + Cardinality(Prior(t))
      /\ PreNumber[idom[s]] \in Nat
  BY PreNumberEquations, TreeUp
<1> QED BY <1>3, <1>5, <1>6 DEF After

\* Where x leaves the line of y: the first dominator of x that is none of y's.
LEMMA Parting ==
    ASSUME Tree, NEW x \in Nodes, NEW y \in Nodes, ~Dominates(x, y)
    PROVE  \E c \in Nodes \ {Entry} :
              /\ Dominates(c, x) /\ ~Dominates(c, y)
              /\ Dominates(idom[c], x) /\ Dominates(idom[c], y)
<1> DEFINE Only == {z \in Nodes : Dominates(z, x) /\ ~Dominates(z, y)}
           Numbers == {Num(z) : z \in Only}
<1>1. x \in Only
  BY TreeUp
<1>2. PICK m \in Numbers : \A n \in Numbers : m <= n
  <2>1. Numbers \subseteq Nat /\ Numbers # {}
    BY <1>1, TreeUp
  <2> HIDE DEF Numbers
  <2> QED BY <2>1, LeastNumber
<1>3. PICK c \in Only : m = Num(c)
  OBVIOUS
<1>4. c # Entry
  BY TreeUp
<1>5. idom[c] \in Nodes /\ Num(idom[c]) < Num(c) /\ Num(idom[c]) \in Nat /\ Num(c) \in Nat
  BY <1>4, TreeUp
<1>6. Dominates(idom[c], x)
  BY <1>4, <1>5, TreeUp, DominatesTransitive DEF Imm, Tree
<1>7. Dominates(idom[c], y)
  <2>1. Num(idom[c]) \notin Numbers
    BY <1>2, <1>3, <1>5
  <2> QED BY <1>5, <1>6, <2>1
<1> QED BY <1>4, <1>6, <1>7

LEMMA ApartInNumbers ==
    ASSUME Tree, NEW x \in Nodes, NEW y \in Nodes, ~Dominates(x, y), ~Dominates(y, x)
    PROVE  After(x) <= PreNumber[y] \/ After(y) <= PreNumber[x]
<1>1. PICK c \in Nodes \ {Entry} :
         /\ Dominates(c, x) /\ ~Dominates(c, y)
         /\ Dominates(idom[c], x) /\ Dominates(idom[c], y)
  BY Parting
<1>2. PICK d \in Nodes \ {Entry} :
         /\ Dominates(d, y) /\ ~Dominates(d, x)
         /\ Dominates(idom[d], y) /\ Dominates(idom[d], x)
  BY Parting
<1>3. /\ idom[c] \in Nodes /\ Imm(idom[c], c) /\ idom[d] \in Nodes /\ Imm(idom[d], d)
      /\ succs \in Graphs
  BY TreeUp DEF Tree
<1>4. Dominates(idom[c], idom[d])
  <2>1. Dominates(idom[c], d) \/ Dominates(d, idom[c])
    BY <1>1, <1>2, <1>3, DominatorsChain
  <2>2. ~Dominates(d, idom[c])
    BY <1>1, <1>2, <1>3, DominatesTransitive
  <2>3. idom[c] # d
    BY <1>1, <1>2
  <2> QED BY <1>3, <2>1, <2>2, <2>3 DEF Imm
<1>5. Dominates(idom[d], idom[c])
  <2>1. Dominates(idom[d], c) \/ Dominates(c, idom[d])
    BY <1>1, <1>2, <1>3, DominatorsChain
  <2>2. ~Dominates(c, idom[d])
    BY <1>1, <1>2, <1>3, DominatesTransitive
  <2>3. idom[d] # c
    BY <1>1, <1>2
  <2> QED BY <1>3, <2>1, <2>2, <2>3 DEF Imm
<1>6. idom[c] = idom[d] /\ c # d
  BY <1>1, <1>2, <1>3, <1>4, <1>5, DominatesAntisymmetric
<1>7. c < d \/ d < c
  BY <1>6, TreeRoot
<1>8. After(c) <= PreNumber[d] \/ After(d) <= PreNumber[c]
  BY <1>6, <1>7, SiblingsInOrder
<1>9. /\ PreNumber[c] <= PreNumber[x] /\ After(x) <= After(c)
      /\ PreNumber[d] <= PreNumber[y] /\ After(y) <= After(d)
  BY <1>1, <1>2, BelowInside
<1>10. \A b \in Nodes : PreNumber[b] \in Nat /\ After(b) \in Nat
  BY PreNumberEquations, SizesFinite DEF After
<1>11. /\ PreNumber[c] \in Nat /\ PreNumber[d] \in Nat /\ PreNumber[x] \in Nat
       /\ PreNumber[y] \in Nat /\ After(c) \in Nat /\ After(d) \in Nat
       /\ After(x) \in Nat /\ After(y) \in Nat
  BY <1>10
<1> QED BY <1>8, <1>9, <1>11

\* The constant-time test.
LEMMA IntervalsExact ==
    ASSUME Tree, NEW a \in Nodes, NEW b \in Nodes
    PROVE  Dominates(a, b) <=>
              a = b \/ (PreNumber[a] < PreNumber[b] /\ After(a) - 1 >= PreNumber[b])
<1>1. \A x \in Nodes : /\ PreNumber[x] \in Nat /\ Size(x) \in Nat \ {0}
                       /\ After(x) = PreNumber[x] + Size(x)
  BY PreNumberEquations, SizesFinite DEF After
<1>2. /\ PreNumber[a] \in Nat /\ Size(a) \in Nat \ {0} /\ After(a) = PreNumber[a] + Size(a)
      /\ PreNumber[b] \in Nat /\ Size(b) \in Nat \ {0} /\ After(b) = PreNumber[b] + Size(b)
  BY <1>1
<1>3. CASE a = b
  BY <1>3, TreeUp
<1>4. CASE a # b /\ Dominates(a, b)
  <2>1. PreNumber[a] < PreNumber[b] /\ After(b) <= After(a)
    BY <1>4, BelowInside
  <2> QED BY <1>2, <1>4, <2>1
<1>5. CASE ~Dominates(a, b) /\ Dominates(b, a)
  <2>1. a # b
    BY <1>5
  <2>2. PreNumber[b] < PreNumber[a]
    BY <1>5, <2>1, BelowInside
  <2> QED BY <1>2, <1>5, <2>1, <2>2
<1>6. CASE ~Dominates(a, b) /\ ~Dominates(b, a)
  <2>1. After(a) <= PreNumber[b] \/ After(b) <= PreNumber[a]
    BY <1>6, ApartInNumbers
  <2>2. a # b
    BY <1>6, TreeUp
  <2> QED BY <1>2, <1>6, <2>1, <2>2
<1> QED BY <1>3, <1>4, <1>5, <1>6

LEMMA ClimbsExact ==
    ASSUME Tree, NEW a \in Nodes, NEW b \in Nodes
    PROVE  Climbs(a, b) <=> Dominates(a, b)
<1>1. Null \notin Nodes /\ Entry \in Nodes /\ idom[Entry] = Null
  BY TreeRoot
<1>2. CASE b = Entry
  <2>1. Upto(idom[b], Null) = {} /\ idom[b] = Null
    BY <1>1, <1>2, UptoEquations
  <2>2. Dominates(a, b) <=> a = b
    BY <1>2, EntryAlone, TreeUp
  <2> QED BY <1>1, <2>1, <2>2 DEF Climbs
<1>3. CASE b # Entry
  <2>1. idom[b] \in Nodes /\ Imm(idom[b], b) /\ succs \in Graphs
    BY <1>3, TreeUp DEF Tree
  <2>2. a \in Upto(idom[b], Null) <=> Dominates(a, idom[b])
    BY <1>1, <2>1, UptoDominates
  <2>3. Dominates(a, b) <=> a = b \/ Dominates(a, idom[b])
    BY <1>3, DominatesUp
  <2>4. ASSUME idom[a] = b PROVE ~Dominates(a, idom[b])
    <3>1. a # Entry
      BY <1>1, <2>4
    <3>2. Imm(b, a)
      BY <2>4, <3>1, TreeUp
    <3> SUFFICES ASSUME Dominates(a, idom[b]) PROVE FALSE
      OBVIOUS
    <3>3. Dominates(a, b)
      BY <2>3
    <3> QED BY <2>1, <3>2, <3>3, DominatesAntisymmetric DEF Imm
  <2>5. idom[b] = a => Dominates(a, idom[b])
    BY TreeUp
  <2> QED BY <2>2, <2>3, <2>4, <2>5 DEF Climbs
<1> QED BY <1>2, <1>3

-----------------------------------------------------------------------------
(***************************************************************************)
(* Natural loops, where BackEdge's test is exact.                          *)
(***************************************************************************)
LoopStep(h, D) == D \cup UNION {Preds(b) : b \in D \ {h}}

LoopGrows(l, h, g) ==
    /\ g \in [Nat -> SUBSET Nodes]
    /\ g[0] = {l}
    /\ \A k \in Nat : g[k + 1] = LoopStep(h, g[k])
    /\ LoopOf(l, h) = g[Cardinality(Nodes)]

LEMMA LoopGrowth ==
    ASSUME NEW l \in Nodes, NEW h \in Nodes
    PROVE  \E g : LoopGrows(l, h, g)
<1> DEFINE Eq(g) == g = [k \in Nat |->
                            IF k = 0 THEN {l}
                            ELSE g[k - 1] \cup UNION {Preds(b) : b \in g[k - 1] \ {h}}]
           F == [D \in SUBSET Nodes |-> LoopStep(h, D)]
<1>1. F \in [SUBSET Nodes -> SUBSET Nodes] /\ {l} \in SUBSET Nodes
  BY DEF LoopStep, Preds
<1>2. PICK f \in [Nat -> SUBSET Nodes] : Iterates(F, {l}, f)
  <2> HIDE DEF F
  <2> QED BY <1>1, IterationExists
<1>3. \A k \in Nat : f[k] = IF k = 0 THEN {l}
                            ELSE f[k - 1] \cup UNION {Preds(b) : b \in f[k - 1] \ {h}}
  <2> SUFFICES ASSUME NEW k \in Nat, k # 0 PROVE f[k] = LoopStep(h, f[k - 1])
    BY <1>2 DEF Iterates, LoopStep
  <2>1. k - 1 \in Nat /\ (k - 1) + 1 = k
    OBVIOUS
  <2>2. f[k] = F[f[k - 1]]
    BY <1>2, <2>1 DEF Iterates
  <2> QED BY <2>1, <2>2
<1>4. Eq(f)
  BY <1>3
<1> DEFINE back == CHOOSE g : Eq(g)
<1>5. Eq(back)
  <2> HIDE DEF Eq
  <2> QED BY <1>4
<1>6. LoopOf(l, h) = back[Cardinality(Nodes)]
  BY DEF LoopOf
<1> HIDE DEF back
<1>7. back[0] = {l}
  BY <1>5
<1>8. \A k \in Nat : back[k + 1] = LoopStep(h, back[k])
  <2> SUFFICES ASSUME NEW k \in Nat PROVE back[k + 1] = LoopStep(h, back[k])
    OBVIOUS
  <2>1. k + 1 \in Nat /\ k + 1 # 0 /\ (k + 1) - 1 = k
    OBVIOUS
  <2> QED BY <1>5, <2>1 DEF LoopStep
<1>9. back \in [Nat -> SUBSET Nodes]
  <2> DEFINE S == {k \in Nat : back[k] \in SUBSET Nodes}
  <2>1. 0 \in S
    BY <1>7
  <2>2. \A k \in Nat : k \in S => k + 1 \in S
    BY <1>8 DEF LoopStep, Preds
  <2>3. Nat \subseteq S
    <3> HIDE DEF S
    <3> QED BY <2>1, <2>2, SetInduction
  <2>4. \A k \in Nat : back[k] \in SUBSET Nodes
    BY <2>3
  <2>5. back = [k \in Nat |-> back[k]]
    BY <1>5
  <2> QED BY <2>4, <2>5
<1> QED BY <1>6, <1>7, <1>8, <1>9 DEF LoopGrows

\* A set that holds l and, of its blocks but h, the predecessors, holds the loop.
LEMMA LoopLeast ==
    ASSUME NEW l \in Nodes, NEW h \in Nodes, NEW S, l \in S,
           \A b \in LoopOf(l, h) : b \in S /\ b # h => Preds(b) \cap LoopOf(l, h) \subseteq S,
           IsFiniteSet(Nodes)
    PROVE  LoopOf(l, h) \subseteq S
<1>1. PICK g : LoopGrows(l, h, g)
  BY LoopGrowth
<1> DEFINE n == Cardinality(Nodes)
           T == {k \in Nat : k <= n => g[k] \subseteq S}
<1>2. n \in Nat
  BY FS_CardinalityType
<1>3. \A k \in Nat : k <= n => g[k] \subseteq g[n]
  <2> DEFINE U == {d \in Nat : d <= n => g[n - d] \subseteq g[n]}
  <2>1. 0 \in U
    BY <1>2
  <2>2. ASSUME NEW d \in Nat, d \in U PROVE d + 1 \in U
    <3> SUFFICES ASSUME d + 1 <= n PROVE g[n - (d + 1)] \subseteq g[n]
      OBVIOUS
    <3>1. n - (d + 1) \in Nat /\ (n - (d + 1)) + 1 = n - d /\ d <= n
      BY <1>2
    <3>2. g[n - d] = LoopStep(h, g[n - (d + 1)])
      BY <1>1, <3>1 DEF LoopGrows
    <3>3. g[n - d] \subseteq g[n]
      BY <2>2, <3>1
    <3> HIDE DEF n
    <3> QED BY <3>2, <3>3 DEF LoopStep
  <2>3. Nat \subseteq U
    <3> HIDE DEF U
    <3> QED BY <2>1, <2>2, SetInduction
  <2>4. ASSUME NEW k \in Nat, k <= n PROVE g[k] \subseteq g[n]
    <3>1. n - k \in Nat /\ n - k <= n /\ n - (n - k) = k
      BY <1>2, <2>4
    <3>2. n - k \in U
      BY <2>3, <3>1
    <3> QED BY <3>1, <3>2
  <2> QED BY <2>4
<1>4. LoopOf(l, h) = g[n]
  BY <1>1 DEF LoopGrows
<1> HIDE DEF n
<1>5. 0 \in T
  BY <1>1 DEF LoopGrows
<1>6. ASSUME NEW k \in Nat, k \in T PROVE k + 1 \in T
  <2> SUFFICES ASSUME k + 1 <= n, NEW x \in g[k + 1] PROVE x \in S
    OBVIOUS
  <2>1. k <= n /\ k + 1 \in Nat
    BY <1>2
  <2>2. g[k] \subseteq S /\ g[k] \subseteq g[n] /\ g[k + 1] \subseteq g[n]
    BY <1>3, <1>6, <2>1
  <2>3. g[k + 1] = LoopStep(h, g[k])
    BY <1>1 DEF LoopGrows
  <2>4. CASE x \in g[k]
    BY <2>2, <2>4
  <2>5. CASE \E b \in g[k] \ {h} : x \in Preds(b)
    BY <1>4, <2>2, <2>5
  <2> QED BY <2>3, <2>4, <2>5 DEF LoopStep
<1>7. Nat \subseteq T
  <2> HIDE DEF T
  <2> QED BY <1>5, <1>6, SetInduction
<1>8. g[n] \subseteq S
  BY <1>2, <1>7
<1> QED BY <1>4, <1>8

LEMMA LoopClosed ==
    ASSUME NEW l \in Nodes, NEW h \in Nodes, IsFiniteSet(Nodes)
    PROVE  /\ l \in LoopOf(l, h) /\ LoopOf(l, h) \subseteq Nodes
           /\ \A b \in LoopOf(l, h) \ {h} : Preds(b) \subseteq LoopOf(l, h)
<1>1. PICK g : LoopGrows(l, h, g)
  BY LoopGrowth
<1> DEFINE n == Cardinality(Nodes)
<1>2. n \in Nat
  BY FS_CardinalityType
<1>3. LoopOf(l, h) = g[n] /\ g \in [Nat -> SUBSET Nodes] /\ g[0] = {l}
  BY <1>1 DEF LoopGrows
<1>4. \A k \in Nat : g[k + 1] = LoopStep(h, g[k])
  BY <1>1 DEF LoopGrows
<1>5. Grows(Nodes, g)
  <2>1. \A k \in Nat : g[k] \subseteq g[k + 1]
    BY <1>4 DEF LoopStep
  <2>2. ASSUME NEW k \in Nat, g[k + 1] = g[k] PROVE g[k + 2] = g[k + 1]
    <3>1. k + 1 \in Nat /\ (k + 1) + 1 = k + 2
      OBVIOUS
    <3> QED BY <1>4, <2>2, <3>1
  <2> QED BY <1>3, <2>1, <2>2 DEF Grows
<1>6. g[n + 1] = g[n]
  BY <1>5, GrowthStops
<1>7. g[n] = LoopStep(h, g[n])
  BY <1>2, <1>4, <1>6
<1>8. l \in g[n]
  <2> DEFINE T == {k \in Nat : l \in g[k]}
  <2>1. 0 \in T
    BY <1>3
  <2>2. \A k \in Nat : k \in T => k + 1 \in T
    BY <1>4 DEF LoopStep
  <2>3. Nat \subseteq T
    <3> HIDE DEF T
    <3> QED BY <2>1, <2>2, SetInduction
  <2> QED BY <1>2, <2>3
<1> HIDE DEF n
<1>9. \A b \in g[n] \ {h} : Preds(b) \subseteq g[n]
  BY <1>7 DEF LoopStep
<1> QED BY <1>2, <1>3, <1>8, <1>9

\* An edge back to a dominator of the block it leaves.
Back(l, h) == l \in Nodes /\ h \in Nodes /\ h \in succs[l] /\ Dominates(h, l)

\* The predecessors of a set without the entry are not all inside it.
LEMMA SomeWayIn ==
    ASSUME succs \in Graphs, NEW S \in SUBSET Nodes, S # {}, Entry \notin S
    PROVE  \E b \in S : ~(Preds(b) \subseteq S)
<1> SUFFICES ASSUME \A b \in S : Preds(b) \subseteq S PROVE FALSE
  OBVIOUS
<1>1. Entry \in Nodes /\ \A x \in Nodes : succs[x] \subseteq Nodes
  BY GraphsAssumption DEF Nodes
<1>2. \A x \in Nodes \ S : succs[x] \subseteq Nodes \ S
  BY <1>1 DEF Preds
<1>3. Nodes \ S = Nodes
  BY <1>1, <1>2, WholeGraph
<1> QED BY <1>3

LEMMA LoopShape ==
    ASSUME succs \in Graphs, NEW l, NEW h, Back(l, h)
    PROVE  /\ l \in Nodes /\ h \in Nodes /\ h # Entry /\ IsFiniteSet(Nodes)
           /\ LoopOf(l, h) \subseteq Nodes /\ l \in LoopOf(l, h)
           /\ \A b \in LoopOf(l, h) \ {h} : Preds(b) \subseteq LoopOf(l, h)
           /\ \A b \in LoopOf(l, h) : Dominates(h, b)
           /\ h \in LoopOf(l, h)
<1>1. l \in Nodes /\ h \in Nodes /\ h # Entry /\ IsFiniteSet(Nodes) /\ Entry \in Nodes
  BY GraphsAssumption DEF Back, Nodes
<1>2. /\ LoopOf(l, h) \subseteq Nodes /\ l \in LoopOf(l, h)
      /\ \A b \in LoopOf(l, h) \ {h} : Preds(b) \subseteq LoopOf(l, h)
  BY <1>1, LoopClosed
<1>3. \A b \in LoopOf(l, h) : Dominates(h, b)
  <2> DEFINE S == {b \in Nodes : Dominates(h, b)}
  <2>1. l \in S
    BY DEF Back
  <2>2. ASSUME NEW b \in LoopOf(l, h), b \in S, b # h
        PROVE  Preds(b) \cap LoopOf(l, h) \subseteq S
    BY <1>1, <2>2, DominatesPreds DEF Preds
  <2>3. LoopOf(l, h) \subseteq S
    <3> HIDE DEF S
    <3> QED BY <1>1, <2>1, <2>2, LoopLeast
  <2> QED BY <2>3
<1>4. h \in LoopOf(l, h)
  <2> SUFFICES ASSUME h \notin LoopOf(l, h) PROVE FALSE
    OBVIOUS
  <2>1. Entry \notin LoopOf(l, h)
    BY <1>1, <1>3, EntryAlone
  <2> QED BY <1>2, <2>1, SomeWayIn
<1> QED BY <1>1, <1>2, <1>3, <1>4

\* A loop that shares a block with a loop of a dominating head has its own head,
\* and then all of its blocks, in that loop.
LEMMA LoopNests ==
    ASSUME succs \in Graphs, NEW l, NEW h, Back(l, h), NEW m, NEW i, Back(m, i),
           h # i, Dominates(h, i), NEW z, z \in LoopOf(l, h), Dominates(i, z)
    PROVE  LoopOf(m, i) \subseteq LoopOf(l, h)
<1> DEFINE B == LoopOf(l, h)
<1>1. /\ h \in Nodes /\ i \in Nodes /\ B \subseteq Nodes /\ h # Entry /\ i # Entry
      /\ \A b \in B \ {h} : Preds(b) \subseteq B
      /\ m \in Nodes /\ i \in succs[m] /\ IsFiniteSet(Nodes)
      /\ \A b \in LoopOf(m, i) : Dominates(i, b)
  BY LoopShape DEF Back
<1>2. ~Dominates(i, h)
  BY <1>1, DominatesAntisymmetric
<1> HIDE DEF B
<1>3. i \in B
  <2> SUFFICES ASSUME i \notin B PROVE FALSE
    OBVIOUS
  <2> DEFINE T == {w \in B : Dominates(i, w)}
  <2>1. T \in SUBSET Nodes /\ T # {} /\ Entry \notin T
    BY <1>1, EntryAlone DEF B
  <2>2. ASSUME NEW w \in T PROVE Preds(w) \subseteq T
    <3>1. w # i /\ w # h /\ w \in Nodes
      BY <1>1, <1>2
    <3>2. \A p \in Preds(w) : Dominates(i, p)
      BY <1>1, <3>1, DominatesPreds
    <3> QED BY <1>1, <3>1, <3>2
  <2> HIDE DEF T
  <2> QED BY <2>1, <2>2, SomeWayIn
<1>4. m \in B
  <2>1. m \in Preds(i)
    BY <1>1 DEF Preds
  <2> QED BY <1>1, <1>3, <2>1
<1>5. ASSUME NEW b \in LoopOf(m, i), b \in B, b # i
      PROVE  Preds(b) \cap LoopOf(m, i) \subseteq B
  <2>1. b # h
    BY <1>1, <1>2
  <2> QED BY <1>1, <1>5, <2>1
<1>6. LoopOf(m, i) \subseteq B
  BY <1>1, <1>4, <1>5, LoopLeast
<1> QED BY <1>6 DEF B

Body(h) == UNION {LoopOf(l, h) : l \in {x \in Nodes : BackEdge(x, h)}}

BackExact == \A l, h \in Nodes : BackEdge(l, h) <=> Back(l, h)

LEMMA BodyOf ==
    ASSUME succs \in Graphs, BackExact, NEW h \in Nodes, NEW b, b \in Body(h)
    PROVE  \E l \in Nodes : Back(l, h) /\ b \in LoopOf(l, h) /\ LoopOf(l, h) \subseteq Body(h)
<1>1. PICK l \in Nodes : BackEdge(l, h) /\ b \in LoopOf(l, h)
  BY DEF Body
<1>2. LoopOf(l, h) \subseteq Body(h)
  BY <1>1 DEF Body
<1> QED BY <1>1, <1>2 DEF BackExact

LEMMA LoopsNested ==
    ASSUME succs \in Graphs, BackExact, NEW h \in Nodes, NEW i \in Nodes, h # i,
           Dominates(h, i), NEW z, z \in Body(h), z \in Body(i)
    PROVE  Body(i) \subseteq Body(h)
<1>1. PICK l \in Nodes : Back(l, h) /\ z \in LoopOf(l, h) /\ LoopOf(l, h) \subseteq Body(h)
  BY BodyOf
<1>2. PICK n \in Nodes : Back(n, i) /\ z \in LoopOf(n, i)
  BY BodyOf
<1>3. Dominates(i, z)
  BY <1>2, LoopShape
<1>4. ASSUME NEW x \in Body(i) PROVE x \in Body(h)
  <2>1. PICK m \in Nodes : Back(m, i) /\ x \in LoopOf(m, i)
    BY BodyOf
  <2>2. LoopOf(m, i) \subseteq LoopOf(l, h)
    BY <1>1, <1>3, <2>1, LoopNests
  <2> QED BY <1>1, <2>1, <2>2
<1> QED BY <1>4

LEMMA BodyNatural ==
    ASSUME succs \in Graphs, BackExact, NEW h \in Nodes, NEW k \in Nodes, BackEdge(k, h)
    PROVE  /\ Body(h) \subseteq Nodes /\ h \in Body(h)
           /\ \A b \in Nodes \ Body(h) : succs[b] \cap Body(h) \subseteq {h}
           /\ \A S \in SUBSET Body(h) :
                 (h \in S /\ \A b \in Body(h) : succs[b] \cap S # {} => b \in S) => S = Body(h)
           /\ \A i \in Nodes :
                 \/ Body(h) \cap Body(i) = {}
                 \/ Body(h) \subseteq Body(i) \/ Body(i) \subseteq Body(h)
<1>1. Body(h) \subseteq Nodes
  BY BodyOf, LoopShape
<1>2. h \in Body(h)
  <2>1. h \in LoopOf(k, h)
    BY LoopShape DEF BackExact
  <2> QED BY <2>1 DEF Body
<1>3. ASSUME NEW b \in Nodes \ Body(h), NEW t \in succs[b], t \in Body(h) PROVE t = h
  <2> SUFFICES ASSUME t # h PROVE FALSE
    OBVIOUS
  <2>1. PICK l \in Nodes : Back(l, h) /\ t \in LoopOf(l, h) /\ LoopOf(l, h) \subseteq Body(h)
    BY <1>3, BodyOf
  <2>2. b \in Preds(t)
    BY DEF Preds
  <2> QED BY <2>1, <2>2, LoopShape
<1>4. ASSUME NEW S \in SUBSET Body(h), h \in S,
             \A b \in Body(h) : succs[b] \cap S # {} => b \in S
      PROVE  S = Body(h)
  <2>1. ASSUME NEW x \in Body(h) PROVE x \in S
    <3>1. PICK l \in Nodes : Back(l, h) /\ x \in LoopOf(l, h) /\ LoopOf(l, h) \subseteq Body(h)
      BY BodyOf
    <3>2. l \in LoopOf(l, h) /\ IsFiniteSet(Nodes) /\ h \in succs[l]
      BY <3>1, LoopShape DEF Back
    <3>3. l \in S
      BY <1>4, <3>1, <3>2
    <3>4. ASSUME NEW b \in LoopOf(l, h), b \in S
          PROVE  Preds(b) \cap LoopOf(l, h) \subseteq S
      BY <1>4, <3>1, <3>4 DEF Preds
    <3>5. LoopOf(l, h) \subseteq S
      BY <3>2, <3>3, <3>4, LoopLeast
    <3> QED BY <3>1, <3>5
  <2> QED BY <2>1
<1>5. ASSUME NEW i \in Nodes, NEW z, z \in Body(h), z \in Body(i)
      PROVE  Body(h) \subseteq Body(i) \/ Body(i) \subseteq Body(h)
  <2>1. PICK l \in Nodes : Back(l, h) /\ z \in LoopOf(l, h)
    BY <1>5, BodyOf
  <2>2. PICK m \in Nodes : Back(m, i) /\ z \in LoopOf(m, i)
    BY <1>5, BodyOf
  <2>3. Dominates(h, z) /\ Dominates(i, z) /\ z \in Nodes
    BY <2>1, <2>2, LoopShape
  <2>4. Dominates(h, i) \/ Dominates(i, h)
    BY <2>3, DominatorsChain
  <2> QED BY <1>5, <2>4, LoopsNested
<1> QED BY <1>1, <1>2, <1>3, <1>4, <1>5

-----------------------------------------------------------------------------
(***************************************************************************)
(* The numbers of the dominator tree and the loops along the stages.       *)
(***************************************************************************)
ShapeInv ==
    /\ TreeInv
    /\ stage \in {"frontier", "loops"} =>
          \A a, b \in Nodes : FastDominates(a, b) <=> Dominates(a, b)
    /\ LoopsNatural

LEMMA ShapeInit == Init => ShapeInv
BY TreeInit DEF Init, ShapeInv, LoopsNatural

LEMMA ShapeStep ==
    ASSUME ShapeInv, [Next]_vars
    PROVE  ShapeInv'
<1>1. TreeInv' /\ TreeInv
  BY TreeStep DEF ShapeInv
<1>2. CASE FastDominancePreComputation
  <2>1. /\ stage = "tree" /\ stage' = "frontier" /\ UNCHANGED <<succs, idom>>
        /\ tree' = [dfn |-> PreNumber,
                    max |-> [b \in Nodes |-> MaxBelow(PreNumber[b], Cardinality(Below(b)))]]
    BY <1>2 DEF FastDominancePreComputation
  <2>2. Tree
    BY <1>1, <2>1, TreeOf
  <2>3. /\ \A b \in Nodes : tree'.dfn[b] = PreNumber[b]
        /\ \A b \in Nodes : tree'.max[b] = After(b) - 1
    <3>1. /\ tree'.dfn = PreNumber
          /\ tree'.max = [b \in Nodes |-> MaxBelow(PreNumber[b], Cardinality(Below(b)))]
      BY <2>1
    <3>2. \A b \in Nodes : MaxBelow(PreNumber[b], Cardinality(Below(b))) = After(b) - 1
      BY <2>2, PreNumberEquations, SizesFinite DEF MaxBelow, After, Size
    <3> QED BY <3>1, <3>2
  <2>4. ASSUME NEW a \in Nodes, NEW b \in Nodes
        PROVE  (a = b \/ (tree'.dfn[a] < tree'.dfn[b] /\ tree'.max[a] >= tree'.dfn[b]))
                  <=> Dominates(a, b)
    BY <2>2, <2>3, IntervalsExact
  <2>5. \A a, b \in Nodes : FastDominates(a, b)' <=> Dominates(a, b)
    BY <2>4 DEF FastDominates
  <2>6. \A a, b \in Nodes' : FastDominates(a, b)' <=> Dominates(a, b)'
    BY <2>1, <2>5, SameGraph
  <2> QED BY <1>1, <2>1, <2>6 DEF ShapeInv, LoopsNatural
<1>3. CASE ComputeDominanceFrontiers
  <2>1. stage = "frontier" /\ stage' = "loops" /\ UNCHANGED <<succs, tree>>
    BY <1>3 DEF ComputeDominanceFrontiers
  <2>2. \A a, b \in Nodes' : FastDominates(a, b)' <=> Dominates(a, b)'
    BY <2>1, SameGraph DEF ShapeInv, FastDominates
  <2> QED BY <1>1, <2>1, <2>2 DEF ShapeInv, LoopsNatural
<1>4. CASE FindNaturalLoops
  <2>1. /\ stage = "loops" /\ stage' = "defs" /\ UNCHANGED succs
        /\ loops' = {[head |-> h, body |-> Body(h)] :
                       h \in {x \in Nodes : \E l \in Nodes : BackEdge(l, x)}}
    BY <1>4 DEF FindNaturalLoops, Body
  <2>2. succs \in Graphs /\ Nodes' = Nodes
    BY <1>1, <2>1 DEF TreeInv, IndInv, DomTyped, Nodes
  <2>3. BackExact
    BY <2>1 DEF ShapeInv, BackExact, BackEdge, Back
  <2>4. ASSUME NEW x \in loops'
        PROVE  \E k \in Nodes : x.head \in Nodes /\ BackEdge(k, x.head) /\ x.body = Body(x.head)
    BY <2>1
  <2>5. ASSUME NEW x \in loops'
        PROVE  /\ x.head \in x.body
               /\ \A b \in Nodes \ x.body : succs[b] \cap x.body \subseteq {x.head}
               /\ \A S \in SUBSET x.body :
                     (x.head \in S /\ \A b \in x.body : succs[b] \cap S # {} => b \in S)
                        => S = x.body
               /\ \A y \in loops' : \/ x.body \cap y.body = {}
                                    \/ x.body \subseteq y.body \/ y.body \subseteq x.body
    <3>1. PICK k \in Nodes : x.head \in Nodes /\ BackEdge(k, x.head) /\ x.body = Body(x.head)
      BY <2>4
    <3>2. \A y \in loops' : y.head \in Nodes /\ y.body = Body(y.head)
      BY <2>4
    <3>3. /\ Body(x.head) \subseteq Nodes /\ x.head \in Body(x.head)
          /\ \A b \in Nodes \ Body(x.head) : succs[b] \cap Body(x.head) \subseteq {x.head}
          /\ \A S \in SUBSET Body(x.head) :
                (x.head \in S /\ \A b \in Body(x.head) : succs[b] \cap S # {} => b \in S)
                   => S = Body(x.head)
          /\ \A i \in Nodes :
                \/ Body(x.head) \cap Body(i) = {}
                \/ Body(x.head) \subseteq Body(i) \/ Body(i) \subseteq Body(x.head)
      BY <2>2, <2>3, <3>1, BodyNatural
    <3>4. \A y \in loops' : \/ x.body \cap y.body = {}
                            \/ x.body \subseteq y.body \/ y.body \subseteq x.body
      BY <3>1, <3>2, <3>3
    <3> QED BY <3>1, <3>3, <3>4
  <2>6. LoopsNatural'
    BY <2>1, <2>2, <2>5 DEF LoopsNatural
  <2> QED BY <1>1, <2>1, <2>6 DEF ShapeInv
<1>5. CASE UNCHANGED vars
  <2>1. UNCHANGED <<succs, stage, tree, loops>>
    BY <1>5 DEF vars, shapeVars
  <2>2. Nodes' = Nodes
    BY <2>1 DEF Nodes
  <2>3. stage' \in {"frontier", "loops"} =>
           \A a, b \in Nodes' : FastDominates(a, b)' <=> Dominates(a, b)'
    BY <2>1, <2>2, SameGraph DEF ShapeInv, FastDominates
  <2>4. LoopsNatural'
    BY <2>1, <2>2 DEF ShapeInv, LoopsNatural
  <2> QED BY <1>1, <2>3, <2>4 DEF ShapeInv
<1>6. CASE \/ Descend \/ Return \/ Numbered \/ Visit \/ PassDone \/ ImmediateDom
           \/ Semidominator \/ Link \/ Settle \/ BlockDone \/ Defer
           \/ GetRegDefBlocks \/ InducePhis \/ Generate \/ Run \/ Abort
  <2>1. stage' \notin {"frontier", "loops", "defs"}
    BY <1>1, <1>6 DEF TreeInv, Descend, Return, Numbered, Visit, PassDone, ImmediateDom,
         Semidominator, Link, Settle, BlockDone, Defer,
         GetRegDefBlocks, InducePhis, Generate, Run, Abort
  <2> QED BY <1>1, <2>1 DEF ShapeInv, LoopsNatural
<1> QED BY <1>2, <1>3, <1>4, <1>5, <1>6 DEF Next, Analyze

LEMMA ShapeInvariance == Spec => []ShapeInv
<1>1. ShapeInv /\ [Next]_vars => ShapeInv'
  BY ShapeStep
<1> QED BY <1>1, ShapeInit, PTL DEF Spec

\* The test on two numbers of each block and the climb up the dominator tree
\* both decide dominance, for every shape of the tree and order of siblings.
THEOREM FastTestExact == Spec => []FastDominanceExact
<1>1. ShapeInv => FastDominanceExact
  <2> SUFFICES ASSUME ShapeInv, stage = "frontier", NEW a \in Nodes, NEW b \in Nodes
               PROVE  /\ FastDominates(a, b) <=> Dominates(a, b)
                      /\ Climbs(a, b) <=> Dominates(a, b)
    BY DEF FastDominanceExact
  <2>1. Tree
    BY TreeOf DEF ShapeInv
  <2> QED BY <2>1, ClimbsExact DEF ShapeInv
<1> QED BY <1>1, ShapeInvariance, PTL

\* findLoop's loops are entered at their heads only, are strongly connected and
\* nest, in every region graph.
THEOREM LoopsAreNatural == Spec => []LoopsNatural
<1>1. ShapeInv => LoopsNatural
  BY DEF ShapeInv
<1> QED BY <1>1, ShapeInvariance, PTL

-----------------------------------------------------------------------------
\* A block with one predecessor has it for its immediate dominator.
LEMMA OnlyPredecessor ==
    ASSUME Tree, NEW t \in Nodes, NEW p \in Preds(t), \A q \in Preds(t) : q = p
    PROVE  idom[t] = p
<1>1. /\ succs \in Graphs /\ Entry \in Nodes /\ p \in Nodes /\ t \in succs[p] /\ t # Entry
      /\ \A x \in Nodes : succs[x] \subseteq Nodes
  BY TreeRoot, GraphsAssumption DEF Tree, Preds, Nodes
<1>2. p # t
  <2> SUFFICES ASSUME p = t PROVE FALSE
    OBVIOUS
  <2> DEFINE S == Nodes \ {t}
  <2>1. Entry \in S
    BY <1>1
  <2>2. \A x \in S : succs[x] \subseteq S
    BY <1>1 DEF Preds
  <2>3. S = Nodes
    BY <1>1, <2>1, <2>2, WholeGraph
  <2> QED BY <1>1, <2>3
<1>3. Dominates(p, t)
  <2> SUFFICES ASSUME ~Dominates(p, t) PROVE FALSE
    OBVIOUS
  <2> DEFINE S == Undominated(p) \ {t}
  <2>1. p # Entry
    BY TreeUp
  <2>2. Entry \in S
    BY <1>1, <2>1, EntryAlone DEF Undominated
  <2>3. ASSUME NEW x \in S, NEW y \in succs[x], y # p PROVE y \in S
    <3>1. y \in Undominated(p)
      BY <1>1, <2>3, UndominatedClosed
    <3>2. y # t
      <4> SUFFICES ASSUME y = t PROVE FALSE
        OBVIOUS
      <4>1. x \in Preds(t)
        BY DEF Preds, Undominated
      <4>2. x = p /\ Dominates(p, p)
        BY <1>1, <4>1, TreeUp
      <4> QED BY <4>2 DEF Undominated
    <3> QED BY <3>1, <3>2
  <2>4. ClosedBut(succs, p, S) /\ S \in SUBSET Nodes /\ t \notin S
    BY <2>3 DEF ClosedBut, Undominated
  <2> QED BY <2>2, <2>4 DEF Dominates
<1>4. Imm(p, t)
  <2>1. \A x \in Nodes : x # t /\ Dominates(x, t) => Dominates(x, p)
    BY <1>1, DominatesPreds
  <2> QED BY <1>1, <1>2, <1>3, <2>1 DEF Imm
<1>5. Imm(idom[t], t)
  BY <1>1, TreeUp
<1> QED BY <1>1, <1>4, <1>5, ImmUnique

\* The frontier of n holds each block that n has a predecessor of below it but
\* does not strictly dominate.
FrontierSound ==
    /\ frontier \in [Nodes -> SUBSET Nodes]
    /\ \A n, t \in Nodes :
          (/\ Cardinality(Preds(t)) > 1
           /\ \E p \in Preds(t) : Dominates(n, p) /\ ~Dominates(n, idom[t]))
             => t \in frontier[n]

LEMMA FrontierFound ==
    ASSUME Tree, NEW n \in Nodes, NEW t \in Nodes, NEW p \in Preds(t),
           Dominates(n, p), ~Dominates(n, idom[t])
    PROVE  n \in Upto(p, idom[t])
<1>1. p \in Nodes /\ t # Entry
  BY GraphsAssumption DEF Tree, Preds, Nodes
<1>2. idom[t] \in Nodes
  BY <1>1, TreeUp
<1> QED BY <1>1, <1>2, UptoDominates

-----------------------------------------------------------------------------
(***************************************************************************)
(* Names.                                                                  *)
(***************************************************************************)
LEMMA NamesTyped ==
    Memory \in Names /\ \A b \in Nodes : DefOf(b) \in Names /\ PhiOf(b) \in Names
BY DEF Names, Memory, DefOf, PhiOf

LEMMA OutEquations ==
    ASSUME Tree, NEW b \in Nodes
    PROVE  /\ Out(b) \in Names
           /\ Out(b) = IF b \in defs \cup {Entry} THEN DefOf(b)
                       ELSE IF b \in phis THEN PhiOf(b) ELSE Out(idom[b])
<1> DEFINE Eq(g) == g = [x \in Nodes |-> IF x \in defs \cup {Entry} THEN DefOf(x)
                                         ELSE IF x \in phis THEN PhiOf(x) ELSE g[idom[x]]]
           F == [s \in Nodes \X Names |->
                   IF s[1] \in defs \cup {Entry} THEN DefOf(s[1])
                   ELSE IF s[1] \in phis THEN PhiOf(s[1]) ELSE s[2]]
<1>1. F \in [Nodes \X Names -> Names] /\ Memory \in Names
  BY DEF Names, Memory, DefOf, PhiOf
<1>2. PICK f \in [Nodes -> Names] : TreeRec(F, Memory, f)
  <2> HIDE DEF F
  <2> QED BY <1>1, TreeRecursion
<1>3. \A x \in Nodes : f[x] = IF x \in defs \cup {Entry} THEN DefOf(x)
                              ELSE IF x \in phis THEN PhiOf(x) ELSE f[idom[x]]
  <2> SUFFICES ASSUME NEW x \in Nodes
               PROVE  f[x] = IF x \in defs \cup {Entry} THEN DefOf(x)
                             ELSE IF x \in phis THEN PhiOf(x) ELSE f[idom[x]]
    OBVIOUS
  <2>1. CASE x = Entry
    <3>1. f[x] = F[<<x, Memory>>]
      BY <1>2, <2>1 DEF TreeRec
    <3>2. F[<<x, Memory>>] = DefOf(x)
      BY <1>1, <2>1
    <3> QED BY <2>1, <3>1, <3>2
  <2>2. CASE x # Entry
    <3>1. f[x] = F[<<x, f[idom[x]]>>] /\ f[idom[x]] \in Names
      BY <1>2, <2>2, TreeUp DEF TreeRec
    <3> QED BY <3>1
  <2> QED BY <2>1, <2>2
<1>4. Eq(f)
  BY <1>3
<1> DEFINE end == CHOOSE g : Eq(g)
<1>5. Eq(end)
  <2> HIDE DEF Eq
  <2> QED BY <1>4
<1>6. \A x : Out(x) = end[x]
  BY DEF Out
<1> HIDE DEF end
<1>7. \A x \in Nodes : end[x] = IF x \in defs \cup {Entry} THEN DefOf(x)
                                ELSE IF x \in phis THEN PhiOf(x) ELSE end[idom[x]]
  BY <1>5
<1> DEFINE S == {x \in Nodes : end[x] \in Names}
<1>8. Entry \in S
  BY <1>7, TreeRoot, NamesTyped
<1>9. \A x \in Nodes \ {Entry} : idom[x] \in S => x \in S
  BY <1>7, NamesTyped
<1>10. Nodes \subseteq S
  <2> HIDE DEF S
  <2> QED BY <1>8, <1>9, TreeInduction
<1> QED BY <1>6, <1>7, <1>10

\* The blocks with a phi node are closed under the frontiers.
PhisClosed == \A x \in defs \cup phis : frontier[x] \subseteq phis

\* Without a phi node in t the names at the ends of its predecessors agree.
LEMMA NamesAgree ==
    ASSUME Tree, FrontierSound, PhisClosed, NEW t \in Nodes \ phis, NEW p \in Preds(t)
    PROVE  Out(p) = Out(idom[t])
<1>1. p \in Nodes /\ t # Entry /\ IsFiniteSet(Nodes)
  BY GraphsAssumption DEF Tree, Preds, Nodes
<1>2. idom[t] \in Nodes /\ Imm(idom[t], t) /\ succs \in Graphs
  BY <1>1, TreeUp DEF Tree
<1>3. CASE \A q \in Preds(t) : q = p
  BY <1>3, OnlyPredecessor
<1>4. CASE \E q \in Preds(t) : q # p
  <2>1. Cardinality(Preds(t)) > 1
    <3>1. PICK q \in Preds(t) : q # p
      BY <1>4
    <3>2. {p, q} \subseteq Preds(t) /\ Preds(t) \subseteq Nodes
      BY DEF Preds
    <3>3. IsFiniteSet(Preds(t))
      BY <1>1, <3>2, FS_Subset
    <3>4. IsFiniteSet({p}) /\ Cardinality({p}) = 1
      BY FS_Singleton
    <3>5. Cardinality({p} \cup {q}) = 2
      <4>1. q \notin {p}
        BY <3>1
      <4>2. Cardinality({p} \cup {q}) = Cardinality({p}) + 1
        BY <3>4, <4>1, FS_AddElement
      <4> QED BY <3>4, <4>2
    <3>6. {p} \cup {q} \in SUBSET Preds(t)
      BY <3>1
    <3>7. Cardinality({p} \cup {q}) <= Cardinality(Preds(t))
      BY <3>3, <3>6, FS_Subset
    <3>8. Cardinality(Preds(t)) \in Nat
      BY <3>3, FS_CardinalityType
    <3> QED BY <3>5, <3>7, <3>8
  <2>2. ASSUME NEW x \in Nodes, Dominates(x, p), ~Dominates(x, idom[t])
        PROVE  x \notin defs \cup phis
    BY <2>1, <2>2 DEF FrontierSound, PhisClosed
  <2> DEFINE S == {x \in Nodes : Dominates(idom[t], x) /\ Dominates(x, p) => Out(x) = Out(idom[t])}
  <2>3. Entry \in S
    <3>1. Entry \in Nodes
      BY TreeRoot
    <3>2. Dominates(idom[t], Entry) => idom[t] = Entry
      BY <1>2, EntryAlone
    <3> QED BY <3>1, <3>2
  <2>4. ASSUME NEW x \in Nodes \ {Entry}, idom[x] \in S PROVE x \in S
    <3> SUFFICES ASSUME Dominates(idom[t], x), Dominates(x, p), x # idom[t]
                 PROVE  Out(x) = Out(idom[t])
      OBVIOUS
    <3>1. idom[x] \in Nodes /\ Imm(idom[x], x)
      BY TreeUp
    <3>2. Dominates(idom[t], idom[x])
      BY <1>2, <3>1 DEF Imm
    <3>3. Dominates(idom[x], p)
      BY <1>1, <1>2, <3>1, DominatesTransitive DEF Imm
    <3>4. ~Dominates(x, idom[t])
      BY <1>2, DominatesAntisymmetric
    <3>5. x \notin defs \cup phis
      BY <2>2, <3>4
    <3>6. Out(x) = Out(idom[x])
      BY <3>5, OutEquations
    <3> QED BY <2>4, <3>1, <3>2, <3>3, <3>6
  <2>5. Nodes \subseteq S
    <3> HIDE DEF S
    <3> QED BY <2>3, <2>4, TreeInduction
  <2>6. Dominates(idom[t], p)
    BY <1>1, <1>2, DominatesPreds DEF Imm
  <2>7. Dominates(p, p)
    BY <1>1, TreeUp
  <2> QED BY <1>1, <2>5, <2>6, <2>7
<1> QED BY <1>3, <1>4

-----------------------------------------------------------------------------
(***************************************************************************)
(* Along the stages.                                                       *)
(***************************************************************************)
\* The work list: what is off it has its frontier among the blocks with a phi.
Placed ==
    /\ defs \subseteq Nodes /\ phis \subseteq Nodes
    /\ queued = defs \cup phis /\ work \subseteq queued
    /\ \A x \in queued \ work : frontier[x] \subseteq phis

\* In the generated code.
NameInHand ==
    /\ cur \in Nodes
    /\ cur = Entry => Memory \in fresh /\ DefOf(Entry) \in fresh
    /\ cur # Entry => In(cur) \in fresh
    /\ defs = {} => Memory \in fresh

PhiInv ==
    /\ ShapeInv
    /\ stage \in {"loops", "defs", "phis", "run", "left"} => FrontierSound
    /\ stage \notin {"phis", "run", "left"} => phis = {}
    /\ stage \in {"phis", "run", "left"} => Placed
    /\ stage \in {"run", "left"} => work = {}
    /\ stage = "run" => NameInHand
    /\ StoredLatest

LEMMA SameNames ==
    ASSUME UNCHANGED <<succs, idom, defs, phis>>
    PROVE  \A b : Out(b)' = Out(b) /\ In(b)' = In(b)
<1>1. \A b : Out(b)' = Out(b)
  BY DEF Out, DefOf, PhiOf, Nodes
<1> QED BY <1>1 DEF In, PhiOf

\* At the end of a block the name in the register table is a latest one.
LEMMA OutIsLatest ==
    ASSUME Tree, NameInHand
    PROVE  Out(cur) \in AtEnd(cur)
<1>0. cur \in Nodes
  BY DEF NameInHand
<1>1. CASE cur \in defs \ {Entry}
  BY <1>0, <1>1, OutEquations DEF AtEnd
<1>2. CASE cur = Entry
  BY <1>0, <1>2, OutEquations DEF AtEnd, NameInHand
<1>3. CASE cur \notin defs \cup {Entry} /\ cur \in phis
  BY <1>0, <1>3, OutEquations DEF AtEnd, NameInHand, In
<1>4. CASE cur \notin defs \cup {Entry} /\ cur \notin phis
  BY <1>0, <1>4, OutEquations DEF AtEnd, NameInHand, In
<1> QED BY <1>1, <1>2, <1>3, <1>4

LEMMA PhiInit == Init => PhiInv
BY ShapeInit DEF Init, PhiInv, StoredLatest

LEMMA PhiStep ==
    ASSUME PhiInv, [Next]_vars
    PROVE  PhiInv'
<1>1. ShapeInv' /\ ShapeInv /\ TreeInv /\ TreeInv'
  BY ShapeStep DEF PhiInv, ShapeInv
<1>2. CASE ComputeDominanceFrontiers
  <2>1. /\ stage = "frontier" /\ stage' = "loops" /\ UNCHANGED <<succs, idom, phis>>
        /\ frontier' = [n \in Nodes |->
                          {b \in Nodes : Cardinality(Preds(b)) > 1
                                           /\ \E p \in Preds(b) : n \in Upto(p, idom[b])}]
    BY <1>2 DEF ComputeDominanceFrontiers, phiVars
  <2>2. Tree /\ Nodes' = Nodes /\ \A t : Preds(t)' = Preds(t)
    BY <1>1, <2>1, TreeOf DEF Nodes, Preds
  <2>3. \A n, t \in Nodes : \A p \in Preds(t) :
           Dominates(n, p) /\ ~Dominates(n, idom[t]) => n \in Upto(p, idom[t])
    BY <2>2, FrontierFound
  <2>4. \A n, t \in Nodes :
           (/\ Cardinality(Preds(t)) > 1
            /\ \E p \in Preds(t) : Dominates(n, p) /\ ~Dominates(n, idom[t]))
              => t \in frontier'[n]
    BY <2>1, <2>3
  <2>5. frontier' \in [Nodes -> SUBSET Nodes]
    BY <2>1
  <2>6. FrontierSound'
    BY <2>1, <2>2, <2>4, <2>5, SameGraph DEF FrontierSound
  <2>7. phis' = {}
    BY <2>1 DEF PhiInv
  <2> QED BY <1>1, <2>1, <2>6, <2>7 DEF PhiInv, StoredLatest
<1>3. CASE FindNaturalLoops
  <2>1. stage = "loops" /\ stage' = "defs" /\ UNCHANGED <<succs, idom, frontier, phis>>
    BY <1>3 DEF FindNaturalLoops, phiVars
  <2>2. Nodes' = Nodes /\ \A t : Preds(t)' = Preds(t)
    BY <2>1 DEF Nodes, Preds
  <2>3. FrontierSound'
    BY <2>1, <2>2, SameGraph DEF PhiInv, FrontierSound
  <2> QED BY <1>1, <2>1, <2>3 DEF PhiInv, StoredLatest
<1>4. CASE GetRegDefBlocks
  <2>1. /\ stage = "defs" /\ stage' = "phis"
        /\ UNCHANGED <<succs, idom, frontier, phis>>
        /\ work' = defs' /\ queued' = defs'
        /\ defs' \in {{}} \cup {D \cup {Entry} : D \in (SUBSET (Nodes \ {Entry})) \ {{}}}
    BY <1>4 DEF GetRegDefBlocks, shapeVars
  <2>2. Nodes' = Nodes /\ \A t : Preds(t)' = Preds(t)
    BY <2>1 DEF Nodes, Preds
  <2>3. FrontierSound'
    BY <2>1, <2>2, SameGraph DEF PhiInv, FrontierSound
  <2>4. phis' = {}
    BY <2>1 DEF PhiInv
  <2>5. Entry \in Nodes
    BY <1>1, <2>1, TreeOf, TreeRoot
  <2>6. Placed'
    BY <2>1, <2>2, <2>4, <2>5 DEF Placed
  <2> QED BY <1>1, <2>1, <2>3, <2>6 DEF PhiInv, StoredLatest
<1>5. CASE InducePhis
  <2>1. PICK b \in work :
           /\ phis' = phis \cup frontier[b]
           /\ work' = (work \ {b}) \cup (frontier[b] \ queued)
           /\ queued' = queued \cup frontier[b]
    BY <1>5 DEF InducePhis, Requeued
  <2>2. stage = "phis" /\ UNCHANGED <<succs, stage, idom, frontier, defs>>
    BY <1>5 DEF InducePhis, shapeVars
  <2>3. Nodes' = Nodes /\ \A t : Preds(t)' = Preds(t)
    BY <2>2 DEF Nodes, Preds
  <2>4. FrontierSound' /\ FrontierSound /\ Placed
    BY <2>2, <2>3, SameGraph DEF PhiInv, FrontierSound
  <2>5. b \in Nodes /\ frontier[b] \subseteq Nodes
    BY <2>4 DEF Placed, FrontierSound
  <2>6. ASSUME NEW x \in queued' \ work' PROVE frontier[x] \subseteq phis'
    <3>1. CASE x = b
      BY <2>1, <3>1
    <3>2. CASE x # b
      <4>1. x \in queued \ work
        BY <2>1, <2>6, <3>2
      <4> QED BY <2>1, <2>4, <4>1 DEF Placed
    <3> QED BY <3>1, <3>2
  <2>7. queued' = defs' \cup phis' /\ work' \subseteq queued'
    BY <2>1, <2>2, <2>4 DEF Placed
  <2>8. Placed'
    BY <2>1, <2>2, <2>3, <2>4, <2>5, <2>6, <2>7 DEF Placed
  <2> QED BY <1>1, <2>2, <2>4, <2>8 DEF PhiInv, StoredLatest
<1>6. CASE Generate
  <2>1. /\ stage = "phis" /\ work = {} /\ stage' = "run"
        /\ cur' = Entry /\ fresh' = {Memory, DefOf(Entry)}
        /\ UNCHANGED <<succs, idom, frontier, defs, work, queued, phis>>
    BY <1>6 DEF Generate, shapeVars, phiVars
  <2>2. Nodes' = Nodes /\ \A t : Preds(t)' = Preds(t)
    BY <2>1 DEF Nodes, Preds
  <2>3. FrontierSound' /\ Placed'
    BY <2>1, <2>2, SameGraph DEF PhiInv, FrontierSound, Placed
  <2>4. Entry \in Nodes
    BY <1>1, <2>1, TreeOf, TreeRoot
  <2>5. Memory' = Memory /\ DefOf(Entry)' = DefOf(Entry)
    BY DEF Memory, DefOf
  <2>6. NameInHand'
    BY <2>1, <2>2, <2>4, <2>5 DEF NameInHand
  <2> QED BY <1>1, <2>1, <2>3, <2>6 DEF PhiInv, StoredLatest
<1>7. CASE Run
  <2>1. PICK t \in succs[cur] :
           /\ cur' = t
           /\ fresh' = IF t \notin phis THEN AtEnd(cur)
                       ELSE IF Incoming(cur) \in AtEnd(cur) THEN AtEnd(cur) \cup {PhiOf(t)}
                       ELSE AtEnd(cur) \ {PhiOf(t)}
    BY <1>7 DEF Run
  <2>2. stage = "run" /\ UNCHANGED <<succs, stage, idom, frontier, defs, work, queued, phis>>
    BY <1>7 DEF Run, shapeVars, phiVars
  <2>3. Nodes' = Nodes /\ \A x : Preds(x)' = Preds(x)
    BY <2>2 DEF Nodes, Preds
  <2>4. /\ FrontierSound' /\ Placed' /\ Tree /\ FrontierSound /\ Placed /\ NameInHand
        /\ work = {}
    BY <1>1, <2>2, <2>3, SameGraph, TreeOf DEF PhiInv, FrontierSound, Placed
  <2>5. cur \in Nodes /\ t \in Nodes /\ t # Entry /\ cur \in Preds(t)
    <3>1. cur \in Nodes
      BY <2>4 DEF NameInHand
    <3> QED BY <2>4, <3>1, GraphsAssumption DEF Tree, Preds, Nodes
  <2>6. Out(cur) \in AtEnd(cur)
    BY <2>4, OutIsLatest
  <2>7. In(t) \in fresh'
    <3>1. CASE t \in phis
      BY <2>1, <2>6, <3>1 DEF Incoming, In
    <3>2. CASE t \notin phis
      <4>1. PhisClosed
        BY <2>4 DEF Placed, PhisClosed
      <4>2. Out(cur) = Out(idom[t])
        BY <2>4, <2>5, <3>2, <4>1, NamesAgree
      <4> QED BY <2>1, <2>6, <3>2, <4>2 DEF In
    <3> QED BY <3>1, <3>2
  <2>8. defs = {} => Memory \in fresh'
    <3> SUFFICES ASSUME defs = {} PROVE Memory \in fresh'
      OBVIOUS
    <3>1. Memory \in AtEnd(cur)
      BY <2>4 DEF AtEnd, NameInHand
    <3>2. Memory # PhiOf(t)
      BY DEF Memory, PhiOf
    <3> QED BY <2>1, <3>1, <3>2
  <2>9. In(t)' = In(t) /\ Memory' = Memory
    BY <2>2, SameNames DEF Memory
  <2>10. NameInHand'
    BY <2>1, <2>2, <2>3, <2>5, <2>7, <2>8, <2>9, SameNames DEF NameInHand
  <2> QED BY <1>1, <2>2, <2>4, <2>10 DEF PhiInv, StoredLatest
<1>8. CASE Abort
  <2>1. /\ stage = "run" /\ stage' = "left" /\ cur # Entry
        /\ UNCHANGED <<succs, idom, frontier, defs, work, queued, phis>>
        /\ fresh' = IF ~Stored(cur) THEN AtEnd(cur)
                    ELSE IF Out(cur) \in AtEnd(cur) THEN AtEnd(cur) \cup {Memory}
                    ELSE AtEnd(cur) \ {Memory}
    BY <1>8 DEF Abort, shapeVars, phiVars
  <2>2. Nodes' = Nodes /\ \A x : Preds(x)' = Preds(x)
    BY <2>1 DEF Nodes, Preds
  <2>3. /\ FrontierSound' /\ Placed' /\ Tree /\ NameInHand /\ work' = {}
    BY <1>1, <2>1, <2>2, SameGraph, TreeOf DEF PhiInv, FrontierSound, Placed
  <2>4. Memory \in fresh'
    <3>1. CASE defs # {}
      BY <2>1, <2>3, <3>1, OutIsLatest DEF Stored
    <3>2. CASE defs = {}
      BY <2>1, <2>3, <3>2 DEF Stored, AtEnd, NameInHand
    <3> QED BY <3>1, <3>2
  <2>5. StoredLatest'
    BY <2>4 DEF StoredLatest, Memory
  <2> QED BY <1>1, <2>1, <2>3, <2>5 DEF PhiInv
<1>9. CASE UNCHANGED vars
  <2>1. UNCHANGED <<succs, stage, idom, frontier, defs, work, queued, phis, cur, fresh>>
    BY <1>9 DEF vars, shapeVars, phiVars, runVars
  <2>2. Nodes' = Nodes /\ \A x : Preds(x)' = Preds(x)
    BY <2>1 DEF Nodes, Preds
  <2>3. /\ FrontierSound => FrontierSound'
        /\ Placed => Placed'
    BY <2>1, <2>2, SameGraph DEF FrontierSound, Placed
  <2>4. Memory' = Memory /\ DefOf(Entry)' = DefOf(Entry) /\ In(cur)' = In(cur)
    BY <2>1, SameNames DEF Memory, DefOf, In, PhiOf
  <2>5. NameInHand => NameInHand'
    BY <2>1, <2>2, <2>4 DEF NameInHand
  <2>6. StoredLatest'
    BY <2>1, <2>4 DEF PhiInv, StoredLatest
  <2> QED BY <1>1, <2>1, <2>3, <2>5, <2>6 DEF PhiInv
<1>10. CASE \/ Descend \/ Return \/ Numbered \/ Visit \/ PassDone \/ ImmediateDom
            \/ Semidominator \/ Link \/ Settle \/ BlockDone \/ Defer
            \/ FastDominancePreComputation
  <2>1. /\ stage \notin {"phis", "run", "left"} /\ phis' = phis
        /\ stage' \notin {"loops", "defs", "phis", "run", "left"}
    BY <1>1, <1>10 DEF TreeInv, Descend, Return, Numbered, Visit, PassDone, ImmediateDom,
         Semidominator, Link, Settle, BlockDone, Defer, FastDominancePreComputation, phiVars
  <2> QED BY <1>1, <2>1 DEF PhiInv, StoredLatest
<1> QED BY <1>2, <1>3, <1>4, <1>5, <1>6, <1>7, <1>8, <1>9, <1>10 DEF Next, Analyze

LEMMA PhiInvariance == Spec => []PhiInv
<1>1. PhiInv /\ [Next]_vars => PhiInv'
  BY PhiStep
<1> QED BY <1>1, PhiInit, PTL DEF Spec

\* Wherever the generated code goes, what a block reads the register by holds
\* its latest value.
THEOREM LatestIsRead == Spec => []ReadsLatest
<1>1. PhiInv => ReadsLatest
  BY DEF PhiInv, NameInHand, ReadsLatest
<1> QED BY <1>1, PhiInvariance, PTL

\* Wherever the generated code is left, s->gpr[] has the latest value.
THEOREM LatestIsStored == Spec => []StoredLatest
<1>1. PhiInv => StoredLatest
  BY DEF PhiInv
<1> QED BY <1>1, PhiInvariance, PTL

-----------------------------------------------------------------------------
(***************************************************************************)
(* Types.                                                                  *)
(***************************************************************************)
LEMMA NumberedOnce ==
    ASSUME NEW N, IsFiniteSet(N), NEW s \in Seq(N), \A i, j \in DOMAIN s : s[i] = s[j] => i = j
    PROVE  Len(s) \in Nat /\ Cardinality(N) \in Nat /\ Len(s) <= Cardinality(N)
<1> DEFINE n == Len(s)
           Places == 1..n
           f == [i \in Places |-> s[i]]
<1>1. n \in Nat /\ DOMAIN s = Places /\ Cardinality(N) \in Nat
  BY FS_CardinalityType
<1>2. f \in Injection(Places, N)
  <2>1. f \in [Places -> N]
    BY <1>1
  <2>2. \A i, j \in Places : f[i] = f[j] => i = j
    BY <1>1
  <2> HIDE DEF f
  <2> QED BY <2>1, <2>2 DEF Injection, IsInjective
<1>3. Cardinality(Places) = n
  <2>1. n \in Int /\ 1 \in Int
    BY <1>1
  <2>2. Cardinality(1..n) = IF 1 > n THEN 0 ELSE n - 1 + 1
    BY <2>1, FS_Interval
  <2> QED BY <1>1, <2>2
<1>4. Cardinality(Places) <= Cardinality(N)
  BY <1>2, FS_Injection
<1> QED BY <1>1, <1>3, <1>4

TypeInv == TypeOK /\ (stage = "number" => at = 1)

LEMMA TypeInit == Init => TypeInv
<1> SUFFICES ASSUME Init PROVE TypeInv
  OBVIOUS
<1>1. /\ TreeInv /\ succs \in Graphs /\ stage = "number" /\ order = <<Entry>> /\ stack = <<Entry>>
      /\ at = 1 /\ changed = FALSE /\ maps = Unstarted /\ todo = {}
  BY TreeInit DEF Init
<1>2. Entry \in Nodes /\ IsFiniteSet(Nodes)
  BY <1>1, GraphsAssumption DEF Nodes
<1>3. order \in Seq(Nodes) /\ stack \in Seq(Nodes)
  BY <1>1, <1>2
<1>4. Len(order) <= Cardinality(Nodes) /\ Cardinality(Nodes) \in Nat
  BY <1>1, <1>2, NumberedOnce DEF TreeInv, NumberedBefore
<1>5. maps \in Maps
  BY <1>1 DEF Unstarted, Maps
<1>6. at \in 1..(Cardinality(Nodes) + 1)
  BY <1>1, <1>4
<1>7. /\ parent \in [Nodes -> Nodes \cup {Null}]
      /\ dom \in [Nodes -> SUBSET Nodes]
      /\ idom \in [Nodes -> Nodes \cup {Null}]
      /\ frontier \in [Nodes -> SUBSET Nodes]
      /\ loops \subseteq [head : Nodes, body : SUBSET Nodes]
      /\ defs \subseteq Nodes /\ work \subseteq Nodes /\ queued \subseteq Nodes
      /\ phis \subseteq Nodes
      /\ cur \in Nodes
      /\ fresh \subseteq Names
  BY <1>2 DEF Init
<1>8. tree \in [dfn : [Nodes -> Nat], max : [Nodes -> Nat]]
  BY DEF Init
<1>9. stage \in Stages /\ changed \in BOOLEAN
  BY <1>1 DEF Stages
<1> QED BY <1>1, <1>3, <1>4, <1>5, <1>6, <1>7, <1>8, <1>9 DEF TypeInv, TypeOK

\* The loops that findNaturalLoops records are sets of blocks.
LEMMA LoopTypes ==
    ASSUME succs \in Graphs, BackExact
    PROVE  {[head |-> h, body |-> Body(h)] : h \in {x \in Nodes : \E l \in Nodes : BackEdge(l, x)}}
              \subseteq [head : Nodes, body : SUBSET Nodes]
<1>1. \A h \in Nodes : (\E l \in Nodes : BackEdge(l, h)) => Body(h) \in SUBSET Nodes
  BY BodyNatural
<1> QED BY <1>1

\* The types of the numbering and of domMap, which the first stages write.
LEMMA EarlyTypes ==
    ASSUME PhiInv, PhiInv', TypeInv, UNCHANGED succs
    PROVE  /\ Nodes' = Nodes /\ IsFiniteSet(Nodes)
           /\ stage' \in Stages /\ order' \in Seq(Nodes)
           /\ Len(order') <= Cardinality(Nodes) /\ stack' \in Seq(Nodes)
           /\ changed' \in BOOLEAN /\ idom' \in [Nodes -> Nodes \cup {Null}]
           /\ stage' \in {"number", "visit", "idom"} => dom' \in [Nodes -> SUBSET Nodes]
           /\ stage' \in {"visit", "idom", "semi", "bucket", "defer"} =>
                 at' \in 1..(Cardinality(Nodes) + 1)
           /\ stage' \in {"semi", "bucket", "defer"} => maps' \in Maps
<1>1. Nodes' = Nodes
  BY DEF Nodes
<1>2. IndInv /\ IndInv' /\ TreeInv /\ TreeInv' /\ DomTyped /\ DomTyped'
  BY DEF PhiInv, ShapeInv, TreeInv, IndInv
<1>3. IsFiniteSet(Nodes)
  BY <1>2, GraphsAssumption DEF DomTyped, Nodes
<1>4. NumberedBefore'
  BY <1>2 DEF TreeInv
<1>5. Len(order') \in Nat /\ Cardinality(Nodes) \in Nat /\ Len(order') <= Cardinality(Nodes)
  BY <1>1, <1>3, <1>4, NumberedOnce DEF NumberedBefore
<1>6. idom' \in [Nodes -> Nodes \cup {Null}]
  <2>1. CASE (stage \in FirstStages)'
    <3>1. idom' = [b \in Nodes |-> Null]
      BY <1>1, <1>2, <2>1 DEF TreeInv
    <3> QED BY <3>1
  <2>2. CASE stage' = "idom"
    BY <1>1, <1>2, <2>2 DEF TreeInv, CutSoFar
  <2>3. CASE (stage \notin FirstStages \cup {"idom"})'
    BY <1>1, <1>2, <2>3 DEF TreeInv, TreeShape
  <2> QED BY <2>1, <2>2, <2>3
<1>7. stage' \in {"number", "visit", "idom"} => dom' \in [Nodes -> SUBSET Nodes]
  BY <1>1, <1>2 DEF DomTyped, TreeInv, CutSoFar, CutBefore
<1>8. ASSUME stage' \in {"visit", "idom", "semi", "bucket", "defer"}
      PROVE  at' \in 1..(Cardinality(Nodes) + 1)
  <2>1. at' \in 1..(Len(order') + 1)
    <3>1. CASE stage' = "visit"
      BY <1>2, <3>1 DEF IndInv, IterationSound
    <3>2. CASE stage' = "idom"
      BY <1>2, <3>2 DEF TreeInv, CutSoFar
    <3>3. CASE stage' \in {"semi", "bucket"}
      BY <1>2, <1>5, <3>3 DEF TreeInv, LengauerTarjanSound
    <3>4. CASE stage' = "defer"
      BY <1>2, <1>5, <3>4 DEF TreeInv, LengauerTarjanSound
    <3> QED BY <1>8, <3>1, <3>2, <3>3, <3>4
  <2> QED BY <1>5, <2>1
<1>9. /\ stage' \in Stages /\ order' \in Seq(Nodes) /\ stack' \in Seq(Nodes)
      /\ changed' \in BOOLEAN
  BY <1>1, <1>2 DEF DomTyped
<1>10. ASSUME stage' \in {"semi", "bucket", "defer"} PROVE maps' \in Maps
  <2>1. (maps \in Maps)'
    BY <1>2, <1>10 DEF TreeInv, LengauerTarjanSound, LookingUp, Settling, Deferring
  <2>2. Maps' = Maps
    BY <1>1 DEF Maps
  <2> QED BY <2>1, <2>2
<1> QED BY <1>1, <1>3, <1>5, <1>6, <1>7, <1>8, <1>9, <1>10

LEMMA TypeStep ==
    ASSUME PhiInv, TypeInv, [Next]_vars
    PROVE  TypeInv'
<1>1. PhiInv' /\ ShapeInv /\ TreeInv /\ DomTyped
  BY PhiStep DEF PhiInv, ShapeInv, TreeInv, IndInv
<1>2. UNCHANGED succs
  BY DEF Next, Analyze, vars, Descend, Return, Numbered, Visit, PassDone, ImmediateDom,
     Semidominator, Link, Settle, BlockDone, Defer,
     FastDominancePreComputation, ComputeDominanceFrontiers,
     FindNaturalLoops, GetRegDefBlocks, InducePhis, Generate, Run, Abort
<1>3. /\ Nodes' = Nodes /\ IsFiniteSet(Nodes)
      /\ stage' \in Stages /\ order' \in Seq(Nodes)
      /\ Len(order') <= Cardinality(Nodes) /\ stack' \in Seq(Nodes)
      /\ changed' \in BOOLEAN /\ idom' \in [Nodes -> Nodes \cup {Null}]
      /\ stage' \in {"number", "visit", "idom"} => dom' \in [Nodes -> SUBSET Nodes]
      /\ stage' \in {"visit", "idom", "semi", "bucket", "defer"} =>
            at' \in 1..(Cardinality(Nodes) + 1)
      /\ stage' \in {"semi", "bucket", "defer"} => maps' \in Maps
  BY <1>1, <1>2, EarlyTypes
<1> DEFINE DomType == dom \in [Nodes -> SUBSET Nodes]
           AtType == at \in 1..(Cardinality(Nodes) + 1) /\ (stage = "number" => at = 1)
           MapsType == maps \in Maps /\ todo \subseteq Nodes
           TreeType == tree \in [dfn : [Nodes -> Nat], max : [Nodes -> Nat]]
           LoopsType == loops \subseteq [head : Nodes, body : SUBSET Nodes]
           RestType == /\ parent \in [Nodes -> Nodes \cup {Null}]
                       /\ frontier \in [Nodes -> SUBSET Nodes]
                       /\ defs \subseteq Nodes /\ work \subseteq Nodes
                       /\ queued \subseteq Nodes /\ phis \subseteq Nodes
                       /\ cur \in Nodes
                       /\ fresh \subseteq Names
<1>4. DomType /\ AtType /\ MapsType /\ TreeType /\ LoopsType /\ RestType
  BY DEF TypeInv, TypeOK
<1>5. Maps' = Maps /\ Names' = Names
  BY <1>3 DEF Maps, Names
<1>6. DomType'
  <2>1. dom' = dom \/ stage' \in {"number", "visit", "idom"} \/ (stage = "idom" /\ dom' = dom)
    BY DEF Next, Analyze, vars, Descend, Return, Numbered, Visit, PassDone, ImmediateDom,
       Semidominator, Link, Settle, BlockDone, Defer,
       FastDominancePreComputation, ComputeDominanceFrontiers,
       FindNaturalLoops, GetRegDefBlocks, InducePhis, Generate, Run, Abort, domVars
  <2> QED BY <1>3, <1>4, <2>1
<1>7. AtType'
  <2>1. \/ at' = at /\ stage' = stage
        \/ at' = at /\ stage' # "number"
        \/ stage' \in {"visit", "idom", "semi", "bucket", "defer"}
    BY <1>1 DEF Next, Analyze, vars, Descend, Return, Numbered, Visit, PassDone,
       ImmediateDom, Semidominator, Link, Settle, BlockDone, Defer,
       FastDominancePreComputation, ComputeDominanceFrontiers, FindNaturalLoops,
       GetRegDefBlocks, InducePhis, Generate, Run, Abort
  <2> QED BY <1>3, <1>4, <2>1
<1>8. (maps \in Maps)'
  <2>1. maps' = maps \/ stage' \in {"semi", "bucket", "defer"}
    BY DEF Next, Analyze, vars, Descend, Return, Numbered, Visit, PassDone,
       ImmediateDom, Semidominator, Link, Settle, BlockDone, Defer,
       FastDominancePreComputation, ComputeDominanceFrontiers, FindNaturalLoops,
       GetRegDefBlocks, InducePhis, Generate, Run, Abort, domVars
  <2> QED BY <1>3, <1>4, <1>5, <2>1
<1>9. (todo \subseteq Nodes)'
  <2>1. CASE stage' = "semi"
    <3>1. (LookingUp(Tr, maps, order[at], todo))'
      BY <1>1, <2>1 DEF PhiInv, ShapeInv, TreeInv, LengauerTarjanSound
    <3>2. (todo \subseteq PredsIn(Tr, order[at]))'
      BY <3>1 DEF LookingUp
    <3>3. Tr'.g = succs'
      BY DEF Tr
    <3>4. todo' \subseteq DOMAIN succs'
      BY <3>2, <3>3 DEF PredsIn, Blocks
    <3> QED BY <3>4 DEF Nodes
  <2>2. CASE stage' = "bucket"
    <3>1. (Settling(Tr, maps, order[at], todo))'
      BY <1>1, <2>2 DEF PhiInv, ShapeInv, TreeInv, LengauerTarjanSound
    <3>2. /\ (todo \subseteq maps.bucket[Tr.p[order[at]]])'
          /\ (order[at] \in Blocks(Tr) \ {Entry})' /\ (AsNumbered(Tr))'
      BY <1>1, <2>2, <3>1 DEF Settling, PhiInv, ShapeInv, TreeInv
    <3>3. (Tr.p[order[at]] \in Nodes)'
      <4>1. (DfsTree(Tr))'
        BY <3>2 DEF AsNumbered, TreeOfGraph
      <4>2. (Tr.p[order[at]] \in Blocks(Tr))'
        BY <3>2, <4>1 DEF DfsTree
      <4> QED BY <4>2 DEF Blocks, Tr, Nodes
    <3>4. (maps.bucket \in [Nodes -> SUBSET Nodes])'
      BY <1>8 DEF Maps
    <3> QED BY <3>2, <3>3, <3>4
  <2>3. CASE stage' \notin {"semi", "bucket"}
    <3>1. todo' = todo
      BY <2>3 DEF Next, Analyze, vars, Descend, Return, Numbered, Visit, PassDone,
         ImmediateDom, Semidominator, Link, Settle, BlockDone, Defer,
         FastDominancePreComputation, ComputeDominanceFrontiers, FindNaturalLoops,
         GetRegDefBlocks, InducePhis, Generate, Run, Abort, domVars
    <3> QED BY <1>3, <1>4, <3>1
  <2> QED BY <2>1, <2>2, <2>3
<1>10. TreeType'
  <2>1. CASE FastDominancePreComputation
    <3>1. /\ stage = "tree"
          /\ tree' = [dfn |-> PreNumber,
                      max |-> [b \in Nodes |-> MaxBelow(PreNumber[b], Cardinality(Below(b)))]]
      BY <2>1 DEF FastDominancePreComputation
    <3>2. Tree
      BY <1>1, <3>1, TreeOf
    <3>3. PreNumber \in [Nodes -> Nat]
      BY <3>2, PreNumberEquations
    <3>4. ASSUME NEW b \in Nodes PROVE MaxBelow(PreNumber[b], Cardinality(Below(b))) \in Nat
      <4>1. PreNumber[b] \in Nat /\ Cardinality(Below(b)) \in Nat \ {0}
        BY <3>2, <3>3, SizesFinite DEF Size
      <4> QED BY <4>1 DEF MaxBelow
    <3>5. [b \in Nodes |-> MaxBelow(PreNumber[b], Cardinality(Below(b)))] \in [Nodes -> Nat]
      BY <3>4
    <3>6. tree' \in [dfn : [Nodes -> Nat], max : [Nodes -> Nat]]
      BY <3>1, <3>3, <3>5
    <3> QED BY <1>3, <3>6
  <2>2. CASE UNCHANGED tree
    BY <1>3, <1>4, <2>2
  <2>3. FastDominancePreComputation \/ UNCHANGED tree
    BY DEF Next, Analyze, vars, Descend, Return, Numbered, Visit, PassDone, ImmediateDom,
       Semidominator, Link, Settle, BlockDone, Defer,
       ComputeDominanceFrontiers, FindNaturalLoops, GetRegDefBlocks,
       InducePhis, Generate, Run, Abort, shapeVars
  <2> QED BY <2>1, <2>2, <2>3
<1>11. LoopsType'
  <2>1. CASE FindNaturalLoops
    <3>1. /\ stage = "loops"
          /\ loops' = {[head |-> h, body |-> Body(h)] :
                         h \in {x \in Nodes : \E l \in Nodes : BackEdge(l, x)}}
      BY <2>1 DEF FindNaturalLoops, Body
    <3>2. BackExact
      BY <1>1, <3>1 DEF ShapeInv, BackExact, BackEdge, Back
    <3>3. loops' \subseteq [head : Nodes, body : SUBSET Nodes]
      BY <1>1, <3>1, <3>2, LoopTypes DEF DomTyped
    <3> QED BY <1>3, <3>3
  <2>2. CASE UNCHANGED loops
    BY <1>3, <1>4, <2>2
  <2>3. FindNaturalLoops \/ UNCHANGED loops
    BY DEF Next, Analyze, vars, Descend, Return, Numbered, Visit, PassDone, ImmediateDom,
       Semidominator, Link, Settle, BlockDone, Defer,
       FastDominancePreComputation, ComputeDominanceFrontiers,
       GetRegDefBlocks, InducePhis, Generate, Run, Abort, shapeVars
  <2> QED BY <2>1, <2>2, <2>3
<1>12. RestType'
  <2>0. Entry \in Nodes /\ \A b \in Nodes : succs[b] \subseteq Nodes
    BY <1>1, GraphsAssumption DEF DomTyped, Nodes
  <2>1. CASE Descend
    <3>1. PICK t \in succs[stack[1]] : parent' = [parent EXCEPT ![t] = stack[1]]
      BY <2>1 DEF Descend
    <3>2. stack[1] \in Nodes
      BY <1>1, <2>1 DEF Descend, DomTyped
    <3>3. parent' \in [Nodes -> Nodes \cup {Null}]
      BY <1>4, <2>0, <3>1, <3>2
    <3> QED BY <1>3, <1>4, <1>5, <2>1, <3>3 DEF Descend, shapeVars, phiVars, runVars
  <2>2. CASE ComputeDominanceFrontiers
    <3>1. frontier' \in [Nodes -> SUBSET Nodes]
      BY <2>2 DEF ComputeDominanceFrontiers
    <3> QED BY <1>3, <1>4, <1>5, <2>2, <3>1 DEF ComputeDominanceFrontiers, dfsVars, phiVars, runVars
  <2>3. CASE GetRegDefBlocks
    <3>1. defs' \subseteq Nodes /\ work' = defs' /\ queued' = defs' /\ phis' = phis
      BY <2>0, <2>3 DEF GetRegDefBlocks
    <3> QED BY <1>3, <1>4, <1>5, <2>3, <3>1 DEF GetRegDefBlocks, dfsVars, shapeVars, runVars
  <2>4. CASE InducePhis
    <3>1. PICK b \in work : /\ phis' = phis \cup frontier[b]
                            /\ work' = (work \ {b}) \cup (frontier[b] \ queued)
                            /\ queued' = queued \cup frontier[b]
      BY <2>4 DEF InducePhis, Requeued
    <3>2. b \in Nodes /\ frontier[b] \subseteq Nodes
      BY <1>4
    <3>3. phis' \subseteq Nodes /\ work' \subseteq Nodes /\ queued' \subseteq Nodes
      BY <1>4, <3>1, <3>2
    <3> QED BY <1>3, <1>4, <1>5, <2>4, <3>3 DEF InducePhis, dfsVars, shapeVars, runVars
  <2>5. CASE Generate
    <3>1. cur' \in Nodes /\ fresh' \subseteq Names
      BY <2>0, <2>5, NamesTyped DEF Generate
    <3> QED BY <1>3, <1>4, <1>5, <2>5, <3>1 DEF Generate, dfsVars, shapeVars, phiVars
  <2>6. AtEnd(cur) \subseteq Names
    BY <1>4, NamesTyped DEF AtEnd
  <2>7. CASE Run
    <3>1. cur' \in Nodes
      BY <1>4, <2>0, <2>7 DEF Run
    <3>2. fresh' \subseteq Names
      <4>1. PICK t \in succs[cur] :
               fresh' = IF t \notin phis THEN AtEnd(cur)
                        ELSE IF Incoming(cur) \in AtEnd(cur) THEN AtEnd(cur) \cup {PhiOf(t)}
                        ELSE AtEnd(cur) \ {PhiOf(t)}
        BY <2>7 DEF Run
      <4>2. PhiOf(t) \in Names
        BY <1>4, <2>0, NamesTyped
      <4> QED BY <2>6, <4>1, <4>2
    <3> QED BY <1>3, <1>4, <1>5, <2>7, <3>1, <3>2 DEF Run, dfsVars, shapeVars, phiVars
  <2>8. CASE Abort
    <3>1. fresh' \subseteq Names
      BY <2>6, <2>8, NamesTyped DEF Abort
    <3> QED BY <1>3, <1>4, <1>5, <2>8, <3>1 DEF Abort, dfsVars, shapeVars, phiVars
  <2>9. CASE UNCHANGED <<parent, frontier, defs, work, queued, phis, cur, fresh>>
    BY <1>3, <1>4, <1>5, <2>9
  <2>10. \/ Descend \/ ComputeDominanceFrontiers \/ GetRegDefBlocks \/ InducePhis \/ Generate
         \/ Run \/ Abort
         \/ UNCHANGED <<parent, frontier, defs, work, queued, phis, cur, fresh>>
    BY DEF Next, Analyze, vars, Return, Numbered, Visit, PassDone, ImmediateDom,
       Semidominator, Link, Settle, BlockDone, Defer,
       FastDominancePreComputation, FindNaturalLoops,
       dfsVars, shapeVars, phiVars, runVars
  <2> QED BY <2>1, <2>2, <2>3, <2>4, <2>5, <2>7, <2>8, <2>9, <2>10
<1> QED BY <1>3, <1>6, <1>7, <1>8, <1>9, <1>10, <1>11, <1>12 DEF TypeInv, TypeOK

\* Every block is numbered once at most, and the maps of analyzeGraph hold
\* blocks of the region.
THEOREM AnalysisTyped == Spec => []TypeOK
<1>1. PhiInv /\ TypeInv /\ [Next]_vars => TypeInv'
  BY TypeStep
<1>2. TypeInv => TypeOK
  BY DEF TypeInv
<1> QED BY <1>1, <1>2, TypeInit, PhiInvariance, PTL DEF Spec
=============================================================================
