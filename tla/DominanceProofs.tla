--------------------------- MODULE DominanceProofs ---------------------------
(***************************************************************************)
(* Both algorithms find the immediate dominators, in every graph and for   *)
(* every order of the depth-first numbering: computeDominance because it   *)
(* computes dominance, the algorithm of Lengauer and Tarjan because it     *)
(* computes semidominators.  No induction along paths is needed: Dominates *)
(* speaks of the sets that are closed under the edges, the blocks that a   *)
(* is not recorded for are such a set, and semidominators are defined by   *)
(* the least such set.                                                     *)
(***************************************************************************)
EXTENDS Dominance, Induction

\* Types of what the iteration works on.
DomTyped ==
    /\ succs \in Graphs
    /\ stage \in Stages
    /\ order \in Seq(Nodes)
    /\ stack \in Seq(Nodes)
    /\ stage \in {"number", "visit"} => dom \in [Nodes -> SUBSET Nodes]
    /\ at \in Nat
    /\ changed \in BOOLEAN

\* A numbered block has all its successors numbered, unless its call is still
\* in progress; when none is, every block is numbered.
NumberingSound ==
    /\ Entry \in Visited
    /\ stage = "number" =>
          /\ \A b \in Visited :
                (\E i \in DOMAIN stack : stack[i] = b) \/ succs[b] \subseteq Visited
          /\ dom = [b \in Nodes |-> Nodes]
    /\ stage # "number" => Visited = Nodes

\* The iteration: what dominates is kept, and as long as nothing has changed in
\* this pass, the blocks it has visited are as their predecessors want them.
IterationSound ==
    stage = "visit" =>
        /\ dom[Entry] = {Entry}
        /\ DominatorsKept
        /\ at \in 1..(Len(order) + 1)
        /\ ~changed => \A i \in 1..(at - 1) : dom[order[i]] = Meet(dom, order[i])

IndInv ==
    /\ DomTyped
    /\ NumberingSound
    /\ IterationSound
    /\ stage = "idom" => at >= 2
    /\ DominatorsExact

-----------------------------------------------------------------------------
\* What the assumption says of the graph of a state.
LEMMA GraphShape ==
    ASSUME DomTyped
    PROVE  /\ Entry \in Nodes
           /\ \A b \in Nodes : succs[b] \subseteq Nodes \ {Entry} /\ Null \notin succs[b]
           /\ \A S \in SUBSET Nodes :
                 Entry \in S /\ (\A b \in S : succs[b] \subseteq S) => S = Nodes
<1>1. /\ {Entry, CfgHead} \subseteq Nodes /\ Nodes \subseteq Nat \ {Null}
      /\ \A b \in Nodes : succs[b] \subseteq Nodes \ {Entry}
      /\ \A S \in SUBSET Nodes : Entry \in S /\ ClosedBut(succs, Null, S) => S = Nodes
  BY GraphsAssumption DEF DomTyped, Nodes
<1>2. \A b \in Nodes : Null \notin succs[b]
  BY <1>1
<1>3. ASSUME NEW S \in SUBSET Nodes, Entry \in S, \A b \in S : succs[b] \subseteq S
      PROVE  S = Nodes
  <2>1. ClosedBut(succs, Null, S)
    BY <1>3 DEF ClosedBut
  <2> QED BY <1>1, <1>3, <2>1
<1> QED BY <1>1, <1>2, <1>3

\* Only the entry dominates the entry.
LEMMA EntryAlone == \A a \in Nodes : Dominates(a, Entry) => a = Entry
BY DEF Dominates

\* Dominance passes from a block to its predecessors.
LEMMA DominatesPreds ==
    ASSUME NEW a \in Nodes, NEW b \in Nodes, a # b, Dominates(a, b), NEW p \in Preds(b)
    PROVE  Dominates(a, p)
<1>1. PICK S \in SUBSET Nodes :
         (a # Entry => Entry \in S) /\ ClosedBut(succs, a, S) /\ b \notin S
  BY DEF Dominates
<1>2. p \notin S
  BY <1>1 DEF ClosedBut, Preds
<1> QED BY <1>1, <1>2 DEF Dominates

\* Where every block is as its predecessors want it, only dominators are left.
LEMMA SolutionDominates ==
    ASSUME DomTyped, stage = "visit", dom[Entry] = {Entry},
           \A b \in Nodes : dom[b] = Meet(dom, b),
           NEW b \in Nodes, NEW a \in dom[b]
    PROVE  Dominates(a, b)
<1>1. CASE a = b
  BY <1>1 DEF Dominates
<1>2. CASE a # b
  <2> DEFINE S == {x \in Nodes : a \notin dom[x]}
  <2>1. a # Entry => Entry \in S
    BY GraphShape
  <2>2. ASSUME NEW x \in S, NEW y \in succs[x] \ {a}
        PROVE  y \in S
    <3>1. y \in Nodes /\ x \in Preds(y)
      BY GraphShape DEF Preds
    <3>2. a \in dom[y] => a \in dom[x]
      BY <3>1, a # y DEF Meet
    <3> QED BY <3>1, <3>2
  <2>3. ClosedBut(succs, a, S)
    BY <2>2 DEF ClosedBut
  <2>4. S \in SUBSET Nodes /\ b \notin S
    OBVIOUS
  <2> QED BY <2>1, <2>3, <2>4 DEF Dominates
<1> QED BY <1>1, <1>2

-----------------------------------------------------------------------------
LEMMA InitInv == Init => IndInv
<1> SUFFICES ASSUME Init PROVE IndInv
  OBVIOUS
<1>1. {Entry, CfgHead} \subseteq Nodes
  BY GraphsAssumption DEF Init, Nodes
<1>2. DomTyped
  <2>1. /\ succs \in Graphs /\ stage = "number" /\ order = <<Entry>> /\ stack = <<Entry>>
        /\ dom = [b \in Nodes |-> Nodes] /\ at = 1 /\ changed = FALSE
    BY DEF Init
  <2>2. order \in Seq(Nodes) /\ stack \in Seq(Nodes)
    BY <1>1, <2>1
  <2>3. dom \in [Nodes -> SUBSET Nodes]
    BY <2>1
  <2> QED BY <2>1, <2>2, <2>3 DEF DomTyped, Stages
<1>3. NumberingSound
  BY <1>1 DEF Init, NumberingSound, Visited
<1> QED BY <1>2, <1>3 DEF Init, IndInv, IterationSound, DominatorsExact

\* Steps that leave the numbering and domMap alone and do not enter or stay in
\* a stage of the iteration.
LEMMA LaterStep ==
    ASSUME IndInv, UNCHANGED <<succs, order, stack, changed>>,
           at' \in Nat,
           stage \notin {"number", "visit", "idom"},
           stage' \in Stages \ {"number", "visit", "idom"}
    PROVE  IndInv'
<1>1. Nodes' = Nodes /\ Visited' = Visited
  BY DEF Nodes, Visited
<1>2. DomTyped'
  BY <1>1 DEF IndInv, DomTyped
<1>3. NumberingSound'
  BY <1>1 DEF IndInv, NumberingSound
<1> QED BY <1>2, <1>3 DEF IndInv, IterationSound, DominatorsExact

LEMMA StepInv == IndInv /\ [Next]_vars => IndInv'
<1> SUFFICES ASSUME IndInv, [Next]_vars PROVE IndInv'
  OBVIOUS
<1> USE DEF IndInv
<1>1. CASE Descend
  <2>1. PICK t \in succs[stack[1]] : order' = Append(order, t) /\ stack' = <<t>> \o stack
    BY <1>1 DEF Descend
  <2>2. /\ stage = "number" /\ stack # <<>>
        /\ UNCHANGED <<succs, stage, dom, at, changed>>
    BY <1>1 DEF Descend, domVars
  <2>3. Nodes' = Nodes /\ stack[1] \in Nodes /\ t \in Nodes
    BY <2>2, GraphShape DEF Nodes, DomTyped
  <2>4. DomTyped'
    BY <2>1, <2>2, <2>3 DEF DomTyped
  <2>5. Visited' = Visited \cup {t}
    <3>1. /\ Len(order) \in Nat /\ DOMAIN order = 1..Len(order)
          /\ DOMAIN order' = 1..(Len(order) + 1)
          /\ \A i \in 1..Len(order) : order'[i] = order[i]
          /\ order'[Len(order) + 1] = t
      BY <2>1, <2>3 DEF DomTyped
    <3>2. 1..(Len(order) + 1) = 1..Len(order) \cup {Len(order) + 1}
      BY <3>1
    <3>3. \A x : x \in Visited' <=> x \in Visited \/ x = t
      BY <3>1, <3>2 DEF Visited
    <3> QED BY <3>3
  <2>6. \A b : (\E i \in DOMAIN stack : stack[i] = b) => \E i \in DOMAIN stack' : stack'[i] = b
    <3>1. \A i \in DOMAIN stack : i + 1 \in DOMAIN stack' /\ stack'[i + 1] = stack[i]
      BY <2>1, <2>3 DEF DomTyped
    <3> QED BY <3>1
  <2>7. 1 \in DOMAIN stack' /\ stack'[1] = t
    BY <2>1, <2>3 DEF DomTyped
  <2>8. NumberingSound'
    BY <2>2, <2>3, <2>5, <2>6, <2>7 DEF NumberingSound
  <2> QED BY <2>2, <2>4, <2>8 DEF IterationSound, DominatorsExact
<1>2. CASE Return
  <2>1. /\ stage = "number" /\ stack # <<>>
        /\ succs[stack[1]] \subseteq Visited
        /\ stack' = Tail(stack)
        /\ UNCHANGED <<succs, stage, order, dom, at, changed>>
    BY <1>2 DEF Return, domVars
  <2>2. Nodes' = Nodes /\ Visited' = Visited
    BY <2>1 DEF Nodes, Visited
  <2>3. DomTyped'
    BY <2>1, <2>2 DEF DomTyped
  <2>4. \A i \in DOMAIN stack : i = 1 \/ (i - 1 \in DOMAIN stack' /\ stack'[i - 1] = stack[i])
    BY <2>1 DEF DomTyped
  <2>5. ASSUME NEW b \in Visited
        PROVE  (\E i \in DOMAIN stack' : stack'[i] = b) \/ succs[b] \subseteq Visited
    <3>1. CASE succs[b] \subseteq Visited
      BY <3>1
    <3>2. CASE \E i \in DOMAIN stack : stack[i] = b
      BY <2>1, <2>4, <3>2
    <3> QED BY <2>1, <3>1, <3>2 DEF NumberingSound
  <2>6. NumberingSound'
    BY <2>1, <2>2, <2>5 DEF NumberingSound
  <2> QED BY <2>1, <2>3, <2>6 DEF IterationSound, DominatorsExact
<1>3. CASE Numbered
  <2>1. /\ stage = "number" /\ stack = <<>>
        /\ UNCHANGED <<succs, order, stack, changed>>
        /\ \/ stage' = "visit" /\ at' = 1 /\ dom' = [dom EXCEPT ![Entry] = {Entry}]
           \/ stage' = "semi" /\ at' = Len(order) /\ UNCHANGED dom
    BY <1>3 DEF Numbered, dfsVars
  <2>2. Nodes' = Nodes /\ Visited' = Visited
    BY <2>1 DEF Nodes, Visited
  <2>3. DomTyped'
    BY <2>1, <2>2, GraphShape DEF DomTyped, Stages
  <2>4. Visited = Nodes
    <3>1. Visited \in SUBSET Nodes
      BY DEF DomTyped, Visited
    <3>2. \A b \in Visited : succs[b] \subseteq Visited
      BY <2>1 DEF NumberingSound
    <3> QED BY <3>1, <3>2, GraphShape DEF NumberingSound
  <2>5. NumberingSound'
    BY <2>1, <2>2, <2>4, GraphShape DEF NumberingSound
  <2>6. IterationSound'
    <3> SUFFICES ASSUME stage' = "visit" PROVE IterationSound'
      BY DEF IterationSound
    <3>1. /\ at' = 1 /\ dom' = [dom EXCEPT ![Entry] = {Entry}]
          /\ dom = [b \in Nodes |-> Nodes]
      BY <2>1 DEF NumberingSound
    <3>2. \A a, b \in Nodes : Dominates(a, b)' <=> Dominates(a, b)
      BY <2>1, <2>2 DEF Dominates
    <3>3. DominatorsKept'
      BY <2>2, <3>1, <3>2, EntryAlone, GraphShape DEF DominatorsKept
    <3>4. Len(order) \in Nat /\ order' = order
      BY <2>1 DEF DomTyped
    <3> QED BY <3>1, <3>3, <3>4, GraphShape DEF IterationSound
  <2> QED BY <2>1, <2>3, <2>5, <2>6 DEF DominatorsExact
<1>4. CASE Visit
  <2> DEFINE b == order[at]
             new == Meet(dom, b)
  <2>1. /\ stage = "visit" /\ at <= Len(order)
        /\ dom' = [dom EXCEPT ![b] = new]
        /\ changed' = (changed \/ new # dom[b])
        /\ at' = at + 1
        /\ UNCHANGED <<succs, stage, order, stack>>
    BY <1>4 DEF Visit, Changed, dfsVars
  <2>2. Nodes' = Nodes /\ Visited' = Visited
    BY <2>1 DEF Nodes, Visited
  <2>3. at \in 1..Len(order) /\ Len(order) \in Nat
    BY <2>1 DEF IterationSound, DomTyped
  <2>4. b \in Nodes
    BY <2>3 DEF DomTyped
  <2>5. new \in SUBSET Nodes
    BY <2>1, <2>4 DEF Meet, DomTyped
  <2>6. DomTyped'
    <3>1. dom' \in [Nodes -> SUBSET Nodes]
      BY <2>1, <2>4, <2>5 DEF DomTyped
    <3>2. changed' \in BOOLEAN
      <4>1. changed' = (changed \/ new # dom[b])
        BY <2>1
      <4> QED BY <4>1, Zenon
    <3> QED BY <2>1, <2>2, <3>1, <3>2 DEF DomTyped
  <2>7. NumberingSound'
    BY <2>1, <2>2 DEF NumberingSound
  <2>8. dom'[Entry] = {Entry}
    BY <2>1, <2>4, GraphShape DEF IterationSound, DomTyped, Meet
  <2>9. DominatorsKept'
    <3>1. \A a, x \in Nodes : Dominates(a, x)' <=> Dominates(a, x)
      BY <2>1, <2>2 DEF Dominates
    <3>2. \A a \in Nodes : Dominates(a, b) => a \in new
      <4> SUFFICES ASSUME NEW a \in Nodes, Dominates(a, b), a # b
                   PROVE  a \in new
        BY <2>4 DEF Meet
      <4>1. \A p \in Preds(b) : Dominates(a, p)
        BY <2>4, DominatesPreds
      <4> HIDE DEF b
      <4> QED BY <2>1, <2>4, <4>1 DEF Meet, IterationSound, DominatorsKept, Preds
    <3> HIDE DEF b, new
    <3>3. ASSUME NEW a \in Nodes, NEW x \in Nodes, Dominates(a, x)
          PROVE  a \in dom'[x]
      BY <2>1, <2>4, <3>2, <3>3 DEF IterationSound, DominatorsKept, DomTyped
    <3> QED BY <2>2, <3>1, <3>3 DEF DominatorsKept
  <2>10. ~changed' => \A i \in 1..(at' - 1) : dom'[order'[i]] = Meet(dom, order[i])'
    <3> SUFFICES ASSUME ~changed', NEW i \in 1..(at' - 1)
                 PROVE  dom'[order'[i]] = Meet(dom, order[i])'
      OBVIOUS
    <3>1. ~changed /\ new = dom[b]
      BY <2>1, Zenon
    <3>2. dom' = dom
      BY <2>1, <2>4, <3>1 DEF DomTyped
    <3>3. \A x : Meet(dom, x)' = Meet(dom, x)
      BY <2>1, <2>2, <3>2 DEF Meet, Preds
    <3>4. i = at \/ i \in 1..(at - 1)
      BY <2>1, <2>3
    <3> QED BY <2>1, <3>1, <3>2, <3>3, <3>4 DEF IterationSound
  <2>11. at' \in 1..(Len(order') + 1)
    BY <2>1, <2>3
  <2> QED BY <2>1, <2>6, <2>7, <2>8, <2>9, <2>10, <2>11 DEF IterationSound, DominatorsExact
<1>5. CASE PassDone
  <2>1. /\ stage = "visit" /\ at > Len(order)
        /\ \/ changed /\ at' = 1 /\ stage' = stage
           \/ ~changed /\ at' = 2 /\ stage' = "idom"
        /\ changed' = FALSE
        /\ UNCHANGED <<succs, order, stack, dom>>
    BY <1>5 DEF PassDone, dfsVars
  <2>2. Nodes' = Nodes /\ Visited' = Visited
    BY <2>1 DEF Nodes, Visited
  <2>3. DomTyped'
    <3>1. stage' \in {"visit", "idom"} /\ at' \in Nat
      BY <2>1
    <3>2. changed' \in BOOLEAN
      BY <2>1
    <3> QED BY <2>1, <2>2, <3>1, <3>2 DEF DomTyped, Stages
  <2>4. NumberingSound'
    BY <2>1, <2>2 DEF NumberingSound
  <2>5. \A a, b \in Nodes : Dominates(a, b)' <=> Dominates(a, b)
    BY <2>1, <2>2 DEF Dominates
  <2>6. IterationSound'
    BY <2>1, <2>2, <2>5 DEF IterationSound, DominatorsKept, DomTyped
  <2>7. DominatorsExact'
    <3> SUFFICES ASSUME stage' = "idom", NEW b \in Nodes
                 PROVE  dom[b] = {a \in Nodes : Dominates(a, b)}
      BY <2>1, <2>2, <2>5 DEF DominatorsExact
    <3>1. ASSUME NEW x \in Nodes
          PROVE  dom[x] = Meet(dom, x)
      <4>1. PICK i \in DOMAIN order : order[i] = x
        BY <2>1 DEF NumberingSound, Visited
      <4>2. i \in 1..(at - 1)
        BY <2>1 DEF IterationSound, DomTyped
      <4> QED BY <2>1, <4>1, <4>2 DEF IterationSound
    <3>2. \A a \in dom[b] : Dominates(a, b)
      BY <2>1, <3>1, SolutionDominates DEF IterationSound
    <3>3. \A a \in Nodes : Dominates(a, b) => a \in dom[b]
      BY <2>1 DEF IterationSound, DominatorsKept
    <3> QED BY <2>1, <3>2, <3>3 DEF DomTyped
  <2> QED BY <2>1, <2>3, <2>4, <2>6, <2>7
<1>6. CASE ImmediateDom
  <2>1. /\ stage = "idom"
        /\ UNCHANGED <<succs, order, stack, changed>>
        /\ \/ at <= Len(order) /\ at' = at + 1 /\ stage' = stage
           \/ stage' = "tree" /\ UNCHANGED at
    BY <1>6 DEF ImmediateDom, dfsVars
  <2>2. Nodes' = Nodes /\ Visited' = Visited
    BY <2>1 DEF Nodes, Visited
  <2>3. DomTyped'
    BY <2>1, <2>2 DEF DomTyped, Stages
  <2>4. NumberingSound'
    BY <2>1, <2>2 DEF NumberingSound
  <2>5. stage' = "idom" => at' >= 2 /\ at' # 2
    BY <2>1 DEF DomTyped
  <2>6. stage' # "visit"
    BY <2>1
  <2> QED BY <2>3, <2>4, <2>5, <2>6 DEF IterationSound, DominatorsExact
<1>7. CASE Semidominator \/ Link \/ Settle \/ BlockDone
  <2>1. /\ stage \in {"semi", "bucket"} /\ stage' \in {"semi", "bucket", "defer"}
        /\ UNCHANGED <<succs, order, stack, changed>>
        /\ at' = at \/ (at' = at - 1 /\ at > 2) \/ at' = 2
    BY <1>7 DEF Semidominator, Link, Settle, BlockDone, dfsVars
  <2>2. at' \in Nat
    BY <2>1 DEF DomTyped
  <2> QED BY <2>1, <2>2, LaterStep DEF Stages
<1>8. CASE Defer
  <2>1. /\ stage = "defer" /\ UNCHANGED <<succs, order, stack, changed>>
        /\ \/ at' = at + 1 /\ stage' = stage
           \/ UNCHANGED at /\ stage' = "tree"
    BY <1>8 DEF Defer, dfsVars
  <2>2. at' \in Nat
    BY <2>1 DEF DomTyped
  <2> QED BY <2>1, <2>2, LaterStep DEF Stages
<1>9. CASE FastDominancePreComputation \/ ComputeDominanceFrontiers \/ FindNaturalLoops
  BY <1>9, LaterStep
     DEF FastDominancePreComputation, ComputeDominanceFrontiers, FindNaturalLoops,
         dfsVars, domVars, DomTyped, Stages
<1>10. CASE GetRegDefBlocks \/ InducePhis \/ Generate \/ Run \/ Abort
  BY <1>10, LaterStep
     DEF GetRegDefBlocks, InducePhis, Generate, Run, Abort, dfsVars, domVars, DomTyped, Stages
<1>11. CASE UNCHANGED vars
  <2>1. UNCHANGED <<succs, stage, order, stack, dom, at, changed>>
    BY <1>11 DEF vars, dfsVars, domVars
  <2>2. Nodes' = Nodes /\ Visited' = Visited
    BY <2>1 DEF Nodes, Visited
  <2>3. \A a, b \in Nodes : Dominates(a, b)' <=> Dominates(a, b)
    BY <2>1, <2>2 DEF Dominates
  <2>4. \A x : Meet(dom, x)' = Meet(dom, x)
    BY <2>1, <2>2 DEF Meet, Preds
  <2>5. DomTyped' /\ NumberingSound'
    BY <2>1, <2>2 DEF DomTyped, NumberingSound
  <2>6. IterationSound' /\ DominatorsExact'
    BY <2>1, <2>2, <2>3, <2>4 DEF IterationSound, DominatorsKept, DominatorsExact
  <2> QED BY <2>1, <2>5, <2>6
<1> QED
  BY <1>1, <1>2, <1>3, <1>4, <1>5, <1>6, <1>7, <1>8, <1>9, <1>10, <1>11 DEF Next, Analyze

-----------------------------------------------------------------------------
\* computeDominance is right: when its iteration ends, domMap holds exactly the
\* dominators of each block, in every region graph and for every numbering.
THEOREM ComputesDominance == Spec => []DominatorsExact
<1>1. IndInv => DominatorsExact
  BY DEF IndInv
<1> QED BY <1>1, InitInv, StepInv, PTL DEF Spec

\* Until then no dominator is ever struck out of domMap.
THEOREM NeverStruckOut == Spec => []DominatorsKept
<1>1. IndInv => DominatorsKept
  BY DEF IndInv, DomTyped, NumberingSound, IterationSound, DominatorsKept
<1> QED BY <1>1, InitInv, StepInv, PTL DEF Spec

-----------------------------------------------------------------------------
(***************************************************************************)
(* Dominance is an order with the entry at its bottom, and what dominates  *)
(* one block is a chain.                                                   *)
(***************************************************************************)
Undominated(a) == {x \in Nodes : ~Dominates(a, x)}

LEMMA UndominatedClosed ==
    ASSUME succs \in Graphs, NEW a \in Nodes, NEW x \in Undominated(a),
           NEW y \in succs[x], y # a
    PROVE  y \in Undominated(a)
<1>1. y \in Nodes /\ x \in Preds(y)
  BY GraphsAssumption DEF Nodes, Preds, Undominated
<1> QED BY <1>1, DominatesPreds DEF Undominated

LEMMA WholeGraph ==
    ASSUME succs \in Graphs, NEW S \in SUBSET Nodes, Entry \in S,
           \A x \in S : succs[x] \subseteq S
    PROVE  S = Nodes
<1>1. ClosedBut(succs, Null, S)
  BY DEF ClosedBut
<1> QED BY <1>1, GraphsAssumption DEF Nodes

LEMMA EntryDominates ==
    ASSUME succs \in Graphs, NEW b \in Nodes
    PROVE  Entry \in Nodes /\ Dominates(b, b) /\ Dominates(Entry, b)
<1>1. ClosedBut(succs, Entry, {})
  BY DEF ClosedBut
<1> QED BY <1>1, GraphsAssumption DEF Dominates, Nodes

LEMMA DominatesTransitive ==
    ASSUME succs \in Graphs, NEW a \in Nodes, NEW b \in Nodes, NEW c \in Nodes,
           Dominates(a, b), Dominates(b, c)
    PROVE  Dominates(a, c)
<1> SUFFICES ASSUME a # b, b # c, a # Entry PROVE Dominates(a, c)
  BY EntryDominates
<1>1. b # Entry
  BY EntryAlone
<1>2. PICK S \in SUBSET Nodes : Entry \in S /\ ClosedBut(succs, b, S) /\ c \notin S
  BY <1>1 DEF Dominates
<1> DEFINE R == Undominated(a) \cap S
<1>3. Entry \in R
  BY <1>2, EntryAlone, EntryDominates DEF Undominated
<1>4. ASSUME NEW x \in R, NEW y \in succs[x] \ {a} PROVE y \in R
  <2>1. y \in Undominated(a)
    BY UndominatedClosed
  <2>2. y # b
    BY <2>1 DEF Undominated
  <2> QED BY <1>2, <2>1, <2>2 DEF ClosedBut
<1>5. ClosedBut(succs, a, R) /\ R \in SUBSET Nodes /\ c \notin R
  BY <1>2, <1>4 DEF ClosedBut, Undominated
<1> QED BY <1>3, <1>5 DEF Dominates

LEMMA DominatesAntisymmetric ==
    ASSUME succs \in Graphs, NEW a \in Nodes, NEW b \in Nodes,
           Dominates(a, b), Dominates(b, a)
    PROVE  a = b
<1> SUFFICES ASSUME a # b PROVE FALSE
  OBVIOUS
<1> DEFINE R == Undominated(a)
<1>1. Entry \in R
  BY EntryAlone, EntryDominates DEF Undominated
<1>2. ASSUME NEW x \in R, NEW y \in succs[x] PROVE y \in R
  <2>1. CASE y # a
    BY <2>1, UndominatedClosed
  <2>2. CASE y = a
    <3>1. x \in Nodes /\ x \in Preds(a)
      BY <2>2 DEF Undominated, Preds
    <3>2. Dominates(b, x)
      BY <3>1, DominatesPreds
    <3>3. Dominates(a, x)
      BY <3>1, <3>2, DominatesTransitive
    <3> QED BY <3>3 DEF Undominated
  <2> QED BY <2>1, <2>2
<1>3. R = Nodes
  BY <1>1, <1>2, WholeGraph DEF Undominated
<1> QED BY <1>3, EntryDominates DEF Undominated

LEMMA DominatorsChain ==
    ASSUME succs \in Graphs, NEW a \in Nodes, NEW b \in Nodes, NEW c \in Nodes,
           Dominates(a, c), Dominates(b, c)
    PROVE  Dominates(a, b) \/ Dominates(b, a)
<1> SUFFICES ASSUME ~Dominates(a, b), ~Dominates(b, a) PROVE FALSE
  OBVIOUS
<1> DEFINE R == Undominated(a) \cup Undominated(b)
<1>1. a # Entry /\ b # Entry
  BY EntryDominates
<1>2. Entry \in R
  BY <1>1, EntryAlone, EntryDominates DEF Undominated
<1>3. a \in R /\ b \in R
  BY DEF Undominated
<1>4. ASSUME NEW x \in R, NEW y \in succs[x] PROVE y \in R
  <2>1. CASE y \in {a, b}
    BY <1>3, <2>1
  <2>2. CASE y \notin {a, b}
    BY <2>2, UndominatedClosed
  <2> QED BY <2>1, <2>2
<1>5. R = Nodes
  BY <1>2, <1>4, WholeGraph DEF Undominated
<1> QED BY <1>5 DEF Undominated

-----------------------------------------------------------------------------
(***************************************************************************)
(* A block's strict dominators are numbered before it, and the one with    *)
(* the greatest number is its immediate dominator.                         *)
(***************************************************************************)
\* Each block has one number, and is a successor of one numbered before it.
NumberedBefore ==
    /\ order \in Seq(Nodes) /\ Len(order) >= 1 /\ order[1] = Entry
    /\ \A i, j \in DOMAIN order : order[i] = order[j] => i = j
    /\ \A i \in 2..Len(order) : \E j \in 1..(i - 1) : order[i] \in succs[order[j]]

\* a is the immediate dominator of b.
Imm(a, b) ==
    /\ a \in Nodes /\ a # b /\ Dominates(a, b)
    /\ \A x \in Nodes : x # b /\ Dominates(x, b) => Dominates(x, a)

Strict(b) == {a \in Nodes : a # b /\ Dominates(a, b)}

LEMMA NumOf ==
    ASSUME NumberedBefore, Visited = Nodes, NEW b \in Nodes
    PROVE  Num(b) \in 1..Len(order) /\ order[Num(b)] = b /\ Len(order) \in Nat
<1>1. \E i \in DOMAIN order : order[i] = b
  BY DEF Visited
<1>2. Num(b) \in DOMAIN order /\ order[Num(b)] = b
  BY <1>1 DEF Num
<1> QED BY <1>2 DEF NumberedBefore

LEMMA NumAt ==
    ASSUME NumberedBefore, Visited = Nodes, NEW i \in 1..Len(order)
    PROVE  order[i] \in Nodes /\ Num(order[i]) = i
<1>1. i \in DOMAIN order /\ order[i] \in Nodes
  BY DEF NumberedBefore
<1>2. Num(order[i]) \in 1..Len(order) /\ order[Num(order[i])] = order[i]
  BY <1>1, NumOf
<1>3. Num(order[i]) \in DOMAIN order
  BY <1>2 DEF NumberedBefore
<1> QED BY <1>1, <1>2, <1>3 DEF NumberedBefore

\* What strictly dominates a block is numbered before it.
LEMMA StrictBefore ==
    ASSUME succs \in Graphs, NumberedBefore, Visited = Nodes,
           NEW a \in Nodes, NEW b \in Nodes, a # b, Dominates(a, b)
    PROVE  Num(a) < Num(b)
<1> DEFINE Bad == {i \in 1..Len(order) : order[i] # a /\ Dominates(a, order[i]) /\ i < Num(a)}
<1>1. Bad = {}
  <2> SUFFICES ASSUME Bad # {} PROVE FALSE
    OBVIOUS
  <2>1. Bad \subseteq Nat
    OBVIOUS
  <2>2. PICK m \in Bad : \A n \in Bad : m <= n
    <3> HIDE DEF Bad
    <3> QED BY <2>1, LeastNumber
  <2>3. order[m] \in Nodes /\ m \in 1..Len(order)
    BY NumAt
  <2>4. CASE m = 1
    <3>1. Dominates(a, Entry) /\ Entry # a
      BY <2>2, <2>4 DEF NumberedBefore
    <3> QED BY <3>1, EntryAlone
  <2>5. CASE m # 1
    <3>1. PICK j \in 1..(m - 1) : order[m] \in succs[order[j]]
      BY <2>3, <2>5 DEF NumberedBefore
    <3>2. j \in 1..Len(order) /\ order[j] \in Nodes /\ Num(order[j]) = j /\ j < m
      <4>1. j \in 1..Len(order) /\ j < m
        BY <2>3
      <4> QED BY <4>1, NumAt
    <3>3. order[j] \in Preds(order[m])
      BY <3>1, <3>2 DEF Preds
    <3>4. Dominates(a, order[j])
      <4>1. order[m] # a /\ Dominates(a, order[m])
        BY <2>2
      <4> QED BY <2>3, <3>3, <4>1, DominatesPreds
    <3>5. m < Num(a) /\ Num(a) \in Nat
      BY <2>2, NumOf
    <3>6. order[j] # a
      BY <3>2, <3>5
    <3>7. j \in Bad
      BY <3>2, <3>4, <3>5, <3>6
    <3> QED BY <2>2, <3>2, <3>7
  <2> QED BY <2>4, <2>5
<1>2. Num(a) \in 1..Len(order) /\ Num(b) \in 1..Len(order) /\ order[Num(a)] = a /\ order[Num(b)] = b
  BY NumOf
<1>3. ~(Num(b) < Num(a))
  BY <1>1, <1>2
<1>4. Num(a) # Num(b)
  BY <1>2
<1> QED BY <1>2, <1>3, <1>4

LEMMA SameGraph ==
    ASSUME UNCHANGED succs
    PROVE  /\ Nodes' = Nodes
           /\ \A a, b : Dominates(a, b)' <=> Dominates(a, b)
           /\ \A a, b : Imm(a, b)' <=> Imm(a, b)
<1>1. Nodes' = Nodes
  BY DEF Nodes
<1>2. \A a, b : Dominates(a, b)' <=> Dominates(a, b)
  BY <1>1 DEF Dominates
<1>3. \A a, b : Imm(a, b)' <=> Imm(a, b)
  BY <1>1, <1>2 DEF Imm
<1> QED BY <1>1, <1>2, <1>3

LEMMA ImmUnique ==
    ASSUME succs \in Graphs, NEW b \in Nodes, NEW a, NEW c, Imm(a, b), Imm(c, b)
    PROVE  a = c
BY DominatesAntisymmetric DEF Imm

\* The strict dominator that is numbered last is the immediate one.
LEMMA ImmExists ==
    ASSUME succs \in Graphs, NumberedBefore, Visited = Nodes,
           NEW b \in Nodes, b # Entry
    PROVE  \E a \in Nodes : Imm(a, b)
<1> DEFINE Left == {Len(order) - Num(a) : a \in Strict(b)}
<1>1. Entry \in Strict(b)
  BY EntryDominates DEF Strict
<1>2. \A a \in Strict(b) : a \in Nodes /\ Len(order) - Num(a) \in Nat
  BY NumOf DEF Strict
<1>3. PICK m \in Left : \A n \in Left : m <= n
  <2>1. Left \subseteq Nat /\ Left # {}
    BY <1>1, <1>2
  <2> HIDE DEF Left
  <2> QED BY <2>1, LeastNumber
<1>4. PICK a \in Strict(b) : m = Len(order) - Num(a)
  OBVIOUS
<1>5. ASSUME NEW x \in Strict(b) PROVE Dominates(x, a)
  <2> SUFFICES ASSUME ~Dominates(x, a) PROVE FALSE
    OBVIOUS
  <2>1. x \in Nodes /\ a \in Nodes /\ Dominates(x, b) /\ Dominates(a, b)
    BY DEF Strict
  <2>2. Dominates(a, x) /\ a # x
    BY <2>1, DominatorsChain, EntryDominates
  <2>3. Num(a) < Num(x)
    BY <2>1, <2>2, StrictBefore
  <2>4. Len(order) - Num(a) <= Len(order) - Num(x)
    BY <1>3, <1>4
  <2> QED BY <2>1, <2>3, <2>4, NumOf
<1>6. Imm(a, b)
  BY <1>5 DEF Imm, Strict
<1> QED BY <1>6 DEF Strict

-----------------------------------------------------------------------------
(***************************************************************************)
(* The depth-first tree.  T holds a graph, the numbers of its blocks and   *)
(* their parents; a block's descendants are numbered without a gap, so     *)
(* that x is an ancestor of y when the blocks numbered after x, up to y,   *)
(* all have parents that are numbered no earlier than x.                   *)
(***************************************************************************)
Blocks(T) == DOMAIN T.g
PredsIn(T, b) == {q \in Blocks(T) : b \in T.g[q]}

Anc(T, x, y) ==
    /\ T.no[x] <= T.no[y]
    /\ \A w \in Blocks(T) : T.no[x] < T.no[w] /\ T.no[w] <= T.no[y] => T.no[T.p[w]] >= T.no[x]

DfsTree(T) ==
    /\ T.no \in [Blocks(T) -> Nat \ {0}]
    /\ \A x, y \in Blocks(T) : T.no[x] = T.no[y] => x = y
    /\ Entry \in Blocks(T)
    /\ \A b \in Blocks(T) : T.no[Entry] <= T.no[b]
    /\ \A b \in Blocks(T) : T.g[b] \subseteq Blocks(T)
    /\ \A w \in Blocks(T) \ {Entry} :
          /\ T.p[w] \in Blocks(T) /\ w \in T.g[T.p[w]]
          /\ T.no[T.p[w]] < T.no[w] /\ Anc(T, T.p[w], w)
    /\ \A b \in Blocks(T) : \A t \in T.g[b] : T.no[t] > T.no[b] => Anc(T, b, t)

LEMMA NumbersTyped ==
    ASSUME NEW T, DfsTree(T), NEW b \in Blocks(T)
    PROVE  T.no[b] \in Nat /\ T.no[b] # 0
BY DEF DfsTree

LEMMA AncOrder ==
    ASSUME NEW T, DfsTree(T), NEW x \in Blocks(T), NEW y \in Blocks(T), NEW z \in Blocks(T)
    PROVE  /\ Anc(T, x, x)
           /\ Anc(T, x, y) => T.no[x] <= T.no[y]
           /\ Anc(T, x, y) /\ Anc(T, y, z) => Anc(T, x, z)
           /\ Anc(T, x, z) /\ T.no[x] <= T.no[y] /\ T.no[y] <= T.no[z] => Anc(T, x, y)
           /\ Anc(T, x, z) /\ Anc(T, y, z) /\ T.no[x] <= T.no[y] => Anc(T, x, y)
           /\ Anc(T, x, y) /\ Anc(T, y, x) => x = y
<1>1. \A b \in Blocks(T) : T.no[b] \in Nat
  BY NumbersTyped
<1>2. Anc(T, x, x)
  BY <1>1 DEF Anc
<1>3. Anc(T, x, y) => T.no[x] <= T.no[y]
  BY DEF Anc
<1>4. \A w \in Blocks(T) \ {Entry} : T.p[w] \in Blocks(T)
  BY DEF DfsTree
<1>5. \A w \in Blocks(T) : T.no[Entry] <= T.no[w]
  BY DEF DfsTree
<1>6. ASSUME Anc(T, x, y), Anc(T, y, z) PROVE Anc(T, x, z)
  <2>1. T.no[x] <= T.no[z]
    BY <1>1, <1>6 DEF Anc
  <2>2. ASSUME NEW w \in Blocks(T), T.no[x] < T.no[w], T.no[w] <= T.no[z]
        PROVE  T.no[T.p[w]] >= T.no[x]
    <3>1. CASE T.no[w] <= T.no[y]
      BY <1>6, <2>2, <3>1 DEF Anc
    <3>2. CASE ~(T.no[w] <= T.no[y])
      <4>1. T.no[y] < T.no[w] /\ w # Entry
        BY <1>1, <1>5, <3>2
      <4>2. T.no[T.p[w]] >= T.no[y] /\ T.no[T.p[w]] \in Nat
        BY <1>1, <1>4, <1>6, <2>2, <4>1 DEF Anc
      <4> QED BY <1>1, <1>6, <4>2 DEF Anc
    <3> QED BY <3>1, <3>2
  <2> QED BY <2>1, <2>2 DEF Anc
<1>7. Anc(T, x, z) /\ T.no[x] <= T.no[y] /\ T.no[y] <= T.no[z] => Anc(T, x, y)
  BY <1>1 DEF Anc
<1>8. Anc(T, x, z) /\ Anc(T, y, z) /\ T.no[x] <= T.no[y] => Anc(T, x, y)
  BY <1>3, <1>7 DEF Anc
<1>9. Anc(T, x, y) /\ Anc(T, y, x) => x = y
  BY <1>1 DEF Anc, DfsTree
<1> QED BY <1>2, <1>3, <1>6, <1>7, <1>8, <1>9

LEMMA EntryAbove ==
    ASSUME NEW T, DfsTree(T), NEW y \in Blocks(T)
    PROVE  Entry \in Blocks(T) /\ Anc(T, Entry, y)
<1>1. Entry \in Blocks(T) /\ \A b \in Blocks(T) : T.no[Entry] <= T.no[b] /\ T.no[b] \in Nat
  BY NumbersTyped DEF DfsTree
<1>2. ASSUME NEW w \in Blocks(T), T.no[Entry] < T.no[w] PROVE T.no[T.p[w]] >= T.no[Entry]
  <2>1. w # Entry
    BY <1>1, <1>2
  <2>2. T.p[w] \in Blocks(T)
    BY <2>1 DEF DfsTree
  <2> QED BY <1>1, <2>2
<1> QED BY <1>1, <1>2 DEF Anc

\* A block below x is reached from x through its parent.
LEMMA AncUp ==
    ASSUME NEW T, DfsTree(T), NEW x \in Blocks(T), NEW y \in Blocks(T), Anc(T, x, y), x # y
    PROVE  /\ y # Entry /\ T.p[y] \in Blocks(T) /\ y \in T.g[T.p[y]]
           /\ T.no[T.p[y]] < T.no[y] /\ Anc(T, T.p[y], y)
           /\ Anc(T, x, T.p[y])
<1>1. T.no[x] \in Nat /\ T.no[y] \in Nat /\ T.no[x] <= T.no[y] /\ T.no[x] # T.no[y]
  BY NumbersTyped DEF DfsTree, Anc
<1>2. y # Entry
  BY <1>1 DEF DfsTree
<1>3. /\ T.p[y] \in Blocks(T) /\ y \in T.g[T.p[y]]
      /\ T.no[T.p[y]] < T.no[y] /\ Anc(T, T.p[y], y)
  BY <1>2 DEF DfsTree
<1>4. T.no[T.p[y]] >= T.no[x] /\ T.no[T.p[y]] \in Nat
  BY <1>1, <1>3, NumbersTyped DEF Anc
<1>5. Anc(T, x, T.p[y])
  BY <1>1, <1>3, <1>4, AncOrder
<1> QED BY <1>2, <1>3, <1>5

\* An edge to a block with a greater number goes down the tree.
LEMMA EdgeDown ==
    ASSUME NEW T, DfsTree(T), NEW t \in Blocks(T), NEW b \in PredsIn(T, t), T.no[b] < T.no[t]
    PROVE  b \in Blocks(T) /\ Anc(T, b, t)
BY NumbersTyped DEF DfsTree, PredsIn

\* Induction along the numbers: of the blocks outside a set, one has the least number.
LEMMA LeastBlock ==
    ASSUME NEW T, DfsTree(T), NEW S \in SUBSET Blocks(T), S # {}
    PROVE  \E m \in S : \A b \in S : T.no[m] <= T.no[b]
<1> DEFINE N == {T.no[b] : b \in S}
<1>1. N \subseteq Nat /\ N # {}
  BY NumbersTyped
<1>2. PICK n \in N : \A k \in N : n <= k
  <2> HIDE DEF N
  <2> QED BY <1>1, LeastNumber
<1> QED BY <1>2

-----------------------------------------------------------------------------
(***************************************************************************)
(* Dominance and the depth-first tree.                                     *)
(***************************************************************************)
\* T is a depth-first tree of the region's graph.
TreeOfGraph(T) == succs \in Graphs /\ T.g = succs /\ DfsTree(T)

LEMMA BlocksOfGraph ==
    ASSUME NEW T, TreeOfGraph(T)
    PROVE  /\ Blocks(T) = Nodes /\ DfsTree(T) /\ succs \in Graphs
           /\ \A b : PredsIn(T, b) = Preds(b)
BY DEF TreeOfGraph, Blocks, Nodes, PredsIn, Preds

\* What a does not dominate leads to nothing that it dominates, but to a.
LEMMA StaysUndominated ==
    ASSUME NEW T, TreeOfGraph(T), NEW a \in Blocks(T), NEW b \in Blocks(T),
           NEW q \in PredsIn(T, b), ~Dominates(a, q), b # a
    PROVE  ~Dominates(a, b)
BY BlocksOfGraph, DominatesPreds

\* A block's dominators are above it in the tree.
LEMMA DominatorAbove ==
    ASSUME NEW T, TreeOfGraph(T), NEW a \in Blocks(T), NEW b \in Blocks(T), Dominates(a, b)
    PROVE  Anc(T, a, b)
<1> DEFINE S == {x \in Blocks(T) : Dominates(a, x) /\ ~Anc(T, a, x)}
<1>1. DfsTree(T) /\ Blocks(T) = Nodes
  BY BlocksOfGraph
<1> SUFFICES ASSUME S # {} PROVE FALSE
  OBVIOUS
<1>2. PICK m \in S : \A x \in S : T.no[m] <= T.no[x]
  <2> HIDE DEF S
  <2>1. S \in SUBSET Blocks(T)
    BY DEF S
  <2> QED BY <1>1, <2>1, LeastBlock
<1>3. m \in Blocks(T) /\ Dominates(a, m) /\ ~Anc(T, a, m)
  OBVIOUS
<1>4. a # Entry
  BY <1>1, <1>3, EntryAbove
<1>5. m # Entry /\ m # a
  BY <1>1, <1>3, <1>4, EntryAlone, AncOrder
<1>6. /\ T.p[m] \in Blocks(T) /\ m \in T.g[T.p[m]]
      /\ T.no[T.p[m]] < T.no[m] /\ Anc(T, T.p[m], m)
  BY <1>1, <1>3, <1>5 DEF DfsTree
<1>7. Dominates(a, T.p[m])
  BY <1>3, <1>5, <1>6, StaysUndominated DEF PredsIn
<1>8. T.p[m] \in S
  <2>1. ~Anc(T, a, T.p[m])
    BY <1>1, <1>3, <1>6, AncOrder
  <2> QED BY <1>6, <1>7, <2>1
<1>9. T.no[m] <= T.no[T.p[m]]
  BY <1>2, <1>8
<1> QED BY <1>1, <1>3, <1>6, <1>9, NumbersTyped

\* What a does not dominate, and does not come before, has nothing below it that
\* a dominates.
LEMMA UndominatedBelow ==
    ASSUME NEW T, TreeOfGraph(T), NEW a \in Blocks(T), NEW u \in Blocks(T),
           ~Dominates(a, u), T.no[a] < T.no[u], NEW y \in Blocks(T), Anc(T, u, y)
    PROVE  ~Dominates(a, y)
<1> DEFINE S == {x \in Blocks(T) : Anc(T, u, x) /\ Dominates(a, x)}
<1>1. DfsTree(T)
  BY BlocksOfGraph
<1> SUFFICES ASSUME S # {} PROVE FALSE
  OBVIOUS
<1>2. PICK m \in S : \A x \in S : T.no[m] <= T.no[x]
  <2> HIDE DEF S
  <2>1. S \in SUBSET Blocks(T)
    BY DEF S
  <2> QED BY <1>1, <2>1, LeastBlock
<1>3. m \in Blocks(T) /\ Anc(T, u, m) /\ Dominates(a, m) /\ m # u
  OBVIOUS
<1>4. /\ T.p[m] \in Blocks(T) /\ m \in T.g[T.p[m]]
      /\ T.no[T.p[m]] < T.no[m] /\ Anc(T, u, T.p[m])
  BY <1>1, <1>3, AncUp
<1>5. m # a
  <2>1. T.no[u] <= T.no[m]
    BY <1>1, <1>3, AncOrder
  <2> QED BY <1>1, <1>3, <2>1, NumbersTyped
<1>6. Dominates(a, T.p[m])
  BY <1>3, <1>4, <1>5, StaysUndominated DEF PredsIn
<1>7. T.p[m] \in S
  BY <1>4, <1>6
<1>8. T.no[m] <= T.no[T.p[m]]
  BY <1>2, <1>7
<1> QED BY <1>1, <1>3, <1>4, <1>8, NumbersTyped

-----------------------------------------------------------------------------
(***************************************************************************)
(* Semidominators.  The blocks that reach w through blocks numbered after  *)
(* w are the least set that holds w and all such predecessors of its       *)
(* members; w's semidominator has the least number of all predecessors.    *)
(***************************************************************************)
Upward(T, w, X) ==
    /\ X \in SUBSET Blocks(T) /\ w \in X
    /\ \A b \in X : \A q \in PredsIn(T, b) : T.no[q] > T.no[w] => q \in X

Reaching(T, w) == {x \in Blocks(T) : \A X \in SUBSET Blocks(T) : Upward(T, w, X) => x \in X}

Into(T, w) == {n \in Nat : \E b \in Reaching(T, w) : \E q \in PredsIn(T, b) : n = T.no[q]}

Sd(T, w) == CHOOSE n \in Into(T, w) : \A k \in Into(T, w) : n <= k

LEMMA ReachingUpward ==
    ASSUME NEW T, DfsTree(T), NEW w \in Blocks(T)
    PROVE  /\ Upward(T, w, Reaching(T, w))
           /\ \A X : Upward(T, w, X) => Reaching(T, w) \subseteq X
           /\ \A b \in Reaching(T, w) : b \in Blocks(T) /\ T.no[w] <= T.no[b]
<1>1. Reaching(T, w) \in SUBSET Blocks(T) /\ w \in Reaching(T, w)
  BY DEF Reaching, Upward
<1>2. ASSUME NEW b \in Reaching(T, w), NEW q \in PredsIn(T, b), T.no[q] > T.no[w]
      PROVE  q \in Reaching(T, w)
  <2>1. q \in Blocks(T)
    BY DEF PredsIn
  <2>2. ASSUME NEW X \in SUBSET Blocks(T), Upward(T, w, X) PROVE q \in X
    <3>1. b \in X
      BY <2>2 DEF Reaching
    <3> QED BY <1>2, <2>2, <3>1 DEF Upward
  <2> QED BY <2>1, <2>2 DEF Reaching
<1>3. Upward(T, w, Reaching(T, w))
  BY <1>1, <1>2 DEF Upward
<1>4. \A X : Upward(T, w, X) => Reaching(T, w) \subseteq X
  BY DEF Reaching, Upward
<1> DEFINE X == {x \in Blocks(T) : T.no[w] <= T.no[x]}
<1>5. Upward(T, w, X)
  BY NumbersTyped DEF Upward, PredsIn
<1>6. Reaching(T, w) \subseteq X
  <2> HIDE DEF X
  <2> QED BY <1>4, <1>5
<1> QED BY <1>3, <1>4, <1>6

LEMMA SdLeast ==
    ASSUME NEW T, DfsTree(T), NEW w \in Blocks(T), w # Entry
    PROVE  /\ Sd(T, w) \in Into(T, w) /\ Sd(T, w) \in Nat
           /\ \A k \in Into(T, w) : Sd(T, w) <= k
           /\ Sd(T, w) < T.no[w]
<1>1. T.p[w] \in Blocks(T) /\ w \in T.g[T.p[w]] /\ T.no[T.p[w]] < T.no[w]
  BY DEF DfsTree
<1>2. w \in Reaching(T, w) /\ T.p[w] \in PredsIn(T, w)
  BY <1>1, ReachingUpward DEF Upward, PredsIn
<1>3. T.no[T.p[w]] \in Into(T, w)
  BY <1>1, <1>2, NumbersTyped DEF Into
<1>4. Into(T, w) \subseteq Nat
  BY DEF Into
<1>5. \E n \in Into(T, w) : \A k \in Into(T, w) : n <= k
  BY <1>3, <1>4, LeastNumber
<1>6. Sd(T, w) \in Into(T, w) /\ \A k \in Into(T, w) : Sd(T, w) <= k
  BY <1>5 DEF Sd
<1>7. T.no[w] \in Nat
  BY NumbersTyped
<1> QED BY <1>1, <1>3, <1>4, <1>6, <1>7, NumbersTyped

\* A predecessor of a block that reaches w is above w, if numbered before it.
LEMMA IntoFromAbove ==
    ASSUME NEW T, DfsTree(T), NEW w \in Blocks(T),
           NEW b \in Reaching(T, w), NEW q \in PredsIn(T, b)
    PROVE  /\ b \in Blocks(T) /\ q \in Blocks(T)
           /\ q \in Reaching(T, w) \/ (T.no[q] < T.no[w] /\ Anc(T, q, w))
           /\ w # Entry => Sd(T, w) <= T.no[q]
<1>1. b \in Blocks(T) /\ q \in Blocks(T) /\ T.no[w] <= T.no[b]
  BY ReachingUpward DEF PredsIn
<1>2. T.no[w] \in Nat /\ T.no[b] \in Nat /\ T.no[q] \in Nat
  BY <1>1, NumbersTyped
<1> DEFINE Goal == q \in Reaching(T, w) \/ (T.no[q] < T.no[w] /\ Anc(T, q, w))
<1>3. Upward(T, w, Reaching(T, w))
  BY ReachingUpward
<1>4. ASSUME T.no[q] > T.no[w] PROVE Goal
  <2>1. q \in Reaching(T, w)
    BY <1>3, <1>4 DEF Upward
  <2> QED BY <2>1
<1>5. ASSUME T.no[q] = T.no[w] PROVE Goal
  <2>1. q = w
    BY <1>1, <1>5 DEF DfsTree
  <2>2. w \in Reaching(T, w)
    BY <1>3 DEF Upward
  <2> QED BY <2>1, <2>2
<1>6. ASSUME T.no[q] < T.no[w] PROVE Goal
  <2>1. Anc(T, q, b)
    BY <1>1, <1>2, <1>6, EdgeDown
  <2>2. Anc(T, q, w)
    BY <1>1, <1>2, <1>6, <2>1, AncOrder
  <2> QED BY <1>6, <2>2
<1>7. Goal
  <2> SUFFICES ASSUME ~Goal PROVE FALSE
    OBVIOUS
  <2>1. T.no[q] > T.no[w] \/ T.no[q] = T.no[w] \/ T.no[q] < T.no[w]
    BY <1>2
  <2> QED BY <1>4, <1>5, <1>6, <2>1
<1>8. T.no[q] \in Into(T, w)
  BY <1>2 DEF Into
<1> QED BY <1>1, <1>7, <1>8, SdLeast

\* The semidominator itself.
LEMMA SdBlock ==
    ASSUME NEW T, DfsTree(T), NEW w \in Blocks(T), w # Entry
    PROVE  \E s \in Blocks(T) :
              /\ T.no[s] = Sd(T, w) /\ Anc(T, s, w) /\ s # w
              /\ \E b \in Reaching(T, w) : s \in PredsIn(T, b)
<1>1. Sd(T, w) \in Into(T, w) /\ Sd(T, w) < T.no[w]
  BY SdLeast
<1>2. PICK b \in Reaching(T, w) : \E q \in PredsIn(T, b) : Sd(T, w) = T.no[q]
  BY <1>1 DEF Into
<1>3. PICK s \in PredsIn(T, b) : Sd(T, w) = T.no[s]
  BY <1>2
<1>4. s \in Blocks(T) /\ (s \in Reaching(T, w) \/ (T.no[s] < T.no[w] /\ Anc(T, s, w)))
  BY IntoFromAbove
<1>5. s \notin Reaching(T, w) /\ s # w
  <2>1. ~(T.no[w] <= T.no[s])
    BY <1>1, <1>3, <1>4, NumbersTyped
  <2> QED BY <2>1, <1>1, <1>3, <1>4, ReachingUpward, NumbersTyped
<1> QED BY <1>3, <1>4, <1>5

\* A strict dominator of w is numbered no later than w's semidominator.
LEMMA DominatorsUpToSd ==
    ASSUME NEW T, TreeOfGraph(T), NEW w \in Blocks(T), w # Entry,
           NEW a \in Blocks(T), a # w, Dominates(a, w)
    PROVE  T.no[a] <= Sd(T, w)
<1>1. DfsTree(T)
  BY BlocksOfGraph
<1>2. Anc(T, a, w) /\ T.no[a] < T.no[w]
  <2>1. Anc(T, a, w)
    BY DominatorAbove
  <2>2. T.no[a] <= T.no[w] /\ T.no[a] # T.no[w]
    BY <1>1, <2>1, AncOrder DEF DfsTree
  <2> QED BY <1>1, <2>1, <2>2, NumbersTyped
<1> DEFINE X == {x \in Blocks(T) : T.no[w] <= T.no[x] /\ Dominates(a, x)}
<1>3. w \in X
  BY <1>1, NumbersTyped
<1>4. ASSUME NEW b \in X, NEW q \in PredsIn(T, b) PROVE Dominates(a, q)
  <2>1. b \in Blocks(T) /\ Dominates(a, b) /\ b # a
    BY <1>1, <1>2, NumbersTyped
  <2> QED BY <2>1, StaysUndominated
<1>5. Upward(T, w, X)
  <2>1. ASSUME NEW b \in X, NEW q \in PredsIn(T, b), T.no[q] > T.no[w] PROVE q \in X
    <3>1. q \in Blocks(T)
      BY DEF PredsIn
    <3> QED BY <1>1, <1>4, <2>1, <3>1, NumbersTyped
  <2> QED BY <1>3, <2>1 DEF Upward
<1>6. Reaching(T, w) \subseteq X
  <2> HIDE DEF X
  <2> QED BY <1>1, <1>5, ReachingUpward
<1>7. PICK s \in Blocks(T) :
         T.no[s] = Sd(T, w) /\ \E b \in Reaching(T, w) : s \in PredsIn(T, b)
  BY <1>1, SdBlock
<1>8. Dominates(a, s)
  BY <1>4, <1>6, <1>7
<1>9. Anc(T, a, s)
  BY <1>7, <1>8, DominatorAbove
<1> QED BY <1>1, <1>7, <1>9, AncOrder

\* The blocks between w's semidominator and w in the tree, w among them.
BelowSd(T, w) == {u \in Blocks(T) : T.no[u] > Sd(T, w) /\ Anc(T, u, w)}

\* If none of them has an earlier semidominator, w's is its immediate dominator.
LEMMA SemidominatorIsImm ==
    ASSUME NEW T, TreeOfGraph(T), NEW w \in Blocks(T), w # Entry,
           \A u \in BelowSd(T, w) : Sd(T, u) >= Sd(T, w),
           NEW s \in Blocks(T), T.no[s] = Sd(T, w)
    PROVE  Imm(s, w)
<1>1. DfsTree(T) /\ Blocks(T) = Nodes /\ \A b : PredsIn(T, b) = Preds(b)
  BY BlocksOfGraph
<1>2. Anc(T, s, w) /\ s # w
  BY <1>1, SdBlock DEF DfsTree
<1>3. \A u \in BelowSd(T, w) :
         u \in Blocks(T) /\ u # Entry /\ T.no[u] > T.no[s] /\ Anc(T, u, w) /\ Sd(T, u) >= T.no[s]
  <2>1. ASSUME NEW u \in Blocks(T), T.no[u] > T.no[s] PROVE u # Entry
    BY <1>1, <2>1, NumbersTyped DEF DfsTree
  <2> QED BY <2>1 DEF BelowSd
<1>4. w \in BelowSd(T, w)
  BY <1>1, SdLeast, AncOrder, NumbersTyped DEF BelowSd
<1> DEFINE S == {x \in Blocks(T) : x # s /\ \A u \in BelowSd(T, w) : x \notin Reaching(T, u)}
<1>5. S \in SUBSET Nodes /\ w \notin S
  <2>1. w \in Reaching(T, w)
    BY <1>1, ReachingUpward DEF Upward
  <2> QED BY <1>1, <1>4, <2>1
<1>6. s # Entry => Entry \in S
  <2> SUFFICES ASSUME s # Entry, NEW u \in BelowSd(T, w), Entry \in Reaching(T, u) PROVE FALSE
    BY <1>1 DEF DfsTree
  <2>1. T.no[u] <= T.no[Entry] /\ T.no[Entry] <= T.no[u]
    BY <1>1, <1>3, ReachingUpward DEF DfsTree
  <2>2. u \in Blocks(T) /\ T.no[u] \in Nat /\ T.no[Entry] \in Nat
    BY <1>1, <1>3, NumbersTyped DEF DfsTree
  <2>3. T.no[u] = T.no[Entry]
    BY <2>1, <2>2
  <2>4. u = Entry
    BY <1>1, <2>2, <2>3 DEF DfsTree
  <2> QED BY <1>3, <2>4
<1>7. ASSUME NEW b \in S, NEW t \in succs[b] \ {s} PROVE t \in S
  <2> SUFFICES ASSUME NEW u \in BelowSd(T, w), t \in Reaching(T, u) PROVE FALSE
    BY <1>1 DEF DfsTree, TreeOfGraph, Blocks
  <2>1. b \in PredsIn(T, t)
    BY DEF PredsIn, TreeOfGraph
  <2>2. u \in Blocks(T) /\ u # Entry
    BY <1>3
  <2>3. b \in Blocks(T) /\ T.no[b] < T.no[u] /\ Anc(T, b, u) /\ Sd(T, u) <= T.no[b]
    BY <1>1, <2>1, <2>2, IntoFromAbove
  <2>4. Anc(T, b, w)
    BY <1>1, <1>3, <2>3, AncOrder
  <2>5. T.no[b] > T.no[s]
    <3>1. T.no[b] \in Nat /\ T.no[s] \in Nat /\ Sd(T, u) \in Nat /\ Sd(T, u) >= T.no[s]
      BY <1>1, <1>3, <2>2, <2>3, NumbersTyped, SdLeast
    <3>2. b # s
      OBVIOUS
    <3>3. T.no[b] # T.no[s]
      BY <1>1, <2>3, <3>2 DEF DfsTree
    <3> QED BY <2>3, <3>1, <3>3
  <2>6. b \in BelowSd(T, w)
    BY <2>3, <2>4, <2>5 DEF BelowSd
  <2>7. b \in Reaching(T, b)
    BY <1>1, <2>3, ReachingUpward DEF Upward
  <2> QED BY <2>6, <2>7
<1>8. Dominates(s, w)
  <2> HIDE DEF S
  <2> QED BY <1>5, <1>6, <1>7 DEF Dominates, ClosedBut
<1>9. ASSUME NEW a \in Nodes, a # w, Dominates(a, w) PROVE Dominates(a, s)
  <2> SUFFICES ASSUME ~Dominates(a, s) PROVE FALSE
    OBVIOUS
  <2>1. T.no[a] <= T.no[s] /\ a # s
    BY <1>1, <1>9, DominatorsUpToSd DEF Dominates
  <2>2. T.no[a] < T.no[s]
    <3>1. T.no[a] # T.no[s]
      BY <1>1, <1>9, <2>1 DEF DfsTree
    <3> QED BY <1>1, <1>9, <2>1, <3>1, NumbersTyped
  <2> QED BY <1>1, <1>2, <1>9, <2>2, UndominatedBelow
<1> QED BY <1>1, <1>2, <1>8, <1>9 DEF Imm

\* Otherwise w has the immediate dominator of the block with the earliest one.
LEMMA EarliestHasImm ==
    ASSUME NEW T, TreeOfGraph(T), NEW w \in Blocks(T), w # Entry,
           NEW u \in BelowSd(T, w), \A y \in BelowSd(T, w) : Sd(T, u) <= Sd(T, y),
           NEW d, Imm(d, u)
    PROVE  Imm(d, w)
<1>1. DfsTree(T) /\ Blocks(T) = Nodes /\ \A b : PredsIn(T, b) = Preds(b)
  BY BlocksOfGraph
<1>2. u \in Blocks(T) /\ Anc(T, u, w) /\ T.no[u] > Sd(T, w) /\ T.no[u] <= T.no[w]
  BY <1>1, AncOrder DEF BelowSd
<1>3. d \in Blocks(T) /\ d # u /\ Dominates(d, u)
  BY <1>1 DEF Imm
<1>4. u # Entry
  BY <1>1, <1>3, EntryAlone
<1>5. T.no[d] <= Sd(T, u) /\ Sd(T, u) < T.no[u]
  BY <1>1, <1>2, <1>3, <1>4, DominatorsUpToSd, SdLeast
<1>6. Sd(T, w) \in Nat /\ Sd(T, u) \in Nat
  BY <1>1, <1>2, <1>4, SdLeast
<1>7. ASSUME NEW y \in Blocks(T), Anc(T, u, y), Anc(T, y, w)
      PROVE  y \in BelowSd(T, w) /\ y # Entry /\ T.no[u] <= T.no[y]
  <2>1. T.no[u] <= T.no[y]
    BY <1>1, <1>2, <1>7, AncOrder
  <2>2. T.no[y] > Sd(T, w)
    BY <1>1, <1>2, <1>6, <2>1, NumbersTyped
  <2>3. y # Entry
    BY <1>1, <1>2, <1>4, <2>1, NumbersTyped DEF DfsTree
  <2> QED BY <1>7, <2>1, <2>2, <2>3 DEF BelowSd
<1> DEFINE S == {x \in Blocks(T) : /\ ~Dominates(d, x)
                                   /\ \A y \in Blocks(T) :
                                         Anc(T, u, y) /\ Anc(T, y, w) => x \notin Reaching(T, y)}
<1>8. S \in SUBSET Nodes /\ w \notin S
  <2>1. w \in Reaching(T, w)
    BY <1>1, ReachingUpward DEF Upward
  <2>2. Anc(T, w, w)
    BY <1>1, AncOrder
  <2> QED BY <1>1, <1>2, <2>1, <2>2
<1>9. d # Entry => Entry \in S
  <2> SUFFICES ASSUME d # Entry, NEW y \in Blocks(T), Anc(T, u, y), Anc(T, y, w),
                      Entry \in Reaching(T, y)
               PROVE  FALSE
    BY <1>1, <1>3, EntryAlone DEF DfsTree
  <2>1. T.no[y] <= T.no[Entry] /\ T.no[Entry] <= T.no[y] /\ Entry \in Blocks(T)
    BY <1>1, ReachingUpward DEF DfsTree
  <2>2. y = Entry
    BY <1>1, <2>1, NumbersTyped DEF DfsTree
  <2> QED BY <1>7, <2>2
<1>10. ASSUME NEW b \in S, NEW t \in succs[b] \ {d} PROVE t \in S
  <2>1. b \in PredsIn(T, t) /\ t \in Blocks(T) /\ b \in Blocks(T) /\ ~Dominates(d, b)
    BY <1>1 DEF PredsIn, TreeOfGraph, Blocks, DfsTree
  <2>2. ~Dominates(d, t)
    BY <1>3, <2>1, StaysUndominated
  <2> SUFFICES ASSUME NEW y \in Blocks(T), Anc(T, u, y), Anc(T, y, w), t \in Reaching(T, y)
               PROVE  FALSE
    BY <2>1, <2>2
  <2>3. y \in BelowSd(T, w) /\ y # Entry
    BY <1>7
  <2>4. b \notin Reaching(T, y)
    OBVIOUS
  <2>5. T.no[b] < T.no[y] /\ Anc(T, b, y) /\ Sd(T, y) <= T.no[b]
    BY <1>1, <2>1, <2>3, <2>4, IntoFromAbove
  <2>6. Anc(T, b, w)
    BY <1>1, <2>1, <2>5, AncOrder
  <2>7. ~(T.no[u] <= T.no[b])
    <3> SUFFICES ASSUME T.no[u] <= T.no[b] PROVE FALSE
      OBVIOUS
    <3>1. Anc(T, u, b)
      BY <1>1, <1>2, <2>1, <2>6, AncOrder
    <3>2. b \in Reaching(T, b)
      BY <1>1, <2>1, ReachingUpward DEF Upward
    <3> QED BY <2>1, <2>6, <3>1, <3>2
  <2>8. T.no[b] < T.no[u]
    BY <1>1, <1>2, <2>1, <2>7, NumbersTyped
  <2>9. T.no[d] <= T.no[b]
    <3>1. Sd(T, u) <= Sd(T, y) /\ Sd(T, y) \in Nat
      BY <1>1, <2>3, SdLeast
    <3> QED BY <1>1, <1>3, <1>5, <1>6, <2>1, <2>5, <3>1, NumbersTyped
  <2>10. d # b
    BY <2>1 DEF Dominates
  <2>11. T.no[d] < T.no[b]
    <3>1. T.no[d] # T.no[b]
      BY <1>1, <1>3, <2>1, <2>10 DEF DfsTree
    <3> QED BY <1>1, <1>3, <2>1, <2>9, <3>1, NumbersTyped
  <2>12. Anc(T, b, u)
    <3>1. T.no[b] <= T.no[u]
      BY <1>1, <1>2, <2>1, <2>8, NumbersTyped
    <3> HIDE DEF S
    <3> QED BY <1>1, <1>2, <2>1, <2>6, <3>1, AncOrder
  <2> QED BY <1>2, <1>3, <2>1, <2>11, <2>12, UndominatedBelow
<1>11. Dominates(d, w)
  <2> HIDE DEF S
  <2> QED BY <1>8, <1>9, <1>10 DEF Dominates, ClosedBut
<1>12. d # w
  BY <1>1, <1>2, <1>3, <1>5, <1>6, NumbersTyped
<1>13. ASSUME NEW a \in Nodes, a # w, Dominates(a, w) PROVE Dominates(a, d)
  <2>1. T.no[a] <= Sd(T, w)
    BY <1>1, <1>13, DominatorsUpToSd
  <2>2. T.no[a] < T.no[u]
    BY <1>1, <1>2, <1>6, <2>1, NumbersTyped
  <2>3. Dominates(a, u)
    BY <1>1, <1>2, <1>13, <2>2, UndominatedBelow
  <2>4. a # u
    BY <1>1, <2>2, NumbersTyped
  <2> QED BY <2>3, <2>4 DEF Imm
<1> QED BY <1>1, <1>3, <1>11, <1>12, <1>13 DEF Imm

-----------------------------------------------------------------------------
(***************************************************************************)
(* Semidominators are computed from those of blocks with greater numbers.  *)
(***************************************************************************)
LEMMA SdBelowPred ==
    ASSUME NEW T, DfsTree(T), NEW w \in Blocks(T), w # Entry, NEW q \in PredsIn(T, w)
    PROVE  /\ q \in Blocks(T) /\ Sd(T, w) <= T.no[q]
           /\ T.no[q] > T.no[w] =>
                 \A u \in Blocks(T) :
                    T.no[u] > T.no[w] /\ Anc(T, u, q) => Sd(T, w) <= Sd(T, u)
<1>1. w \in Reaching(T, w) /\ Upward(T, w, Reaching(T, w))
  BY ReachingUpward DEF Upward
<1>2. q \in Blocks(T) /\ Sd(T, w) <= T.no[q]
  BY <1>1, IntoFromAbove
<1>3. ASSUME T.no[q] > T.no[w], NEW u \in Blocks(T), T.no[u] > T.no[w], Anc(T, u, q)
      PROVE  Sd(T, w) <= Sd(T, u)
  <2> DEFINE Path == {y \in Reaching(T, w) : Anc(T, u, y) /\ Anc(T, y, q)}
  <2>1. q \in Path
    <3>1. q \in Reaching(T, w)
      BY <1>1, <1>3 DEF Upward
    <3> QED BY <1>2, <1>3, <3>1, AncOrder
  <2>2. PICK y \in Path : \A x \in Path : T.no[y] <= T.no[x]
    <3>1. Path \in SUBSET Blocks(T) /\ Path # {}
      BY <2>1, ReachingUpward
    <3> HIDE DEF Path
    <3> QED BY <3>1, LeastBlock
  <2>3. y \in Reaching(T, w) /\ y \in Blocks(T) /\ Anc(T, u, y) /\ Anc(T, y, q)
    BY ReachingUpward
  <2>4. y = u
    <3> SUFFICES ASSUME y # u PROVE FALSE
      OBVIOUS
    <3>1. /\ T.p[y] \in Blocks(T) /\ y \in T.g[T.p[y]] /\ T.no[T.p[y]] < T.no[y]
          /\ Anc(T, T.p[y], y) /\ Anc(T, u, T.p[y])
      BY <2>3, AncUp
    <3>2. T.no[u] <= T.no[T.p[y]]
      BY <3>1, AncOrder
    <3>3. T.no[T.p[y]] > T.no[w]
      BY <1>3, <3>1, <3>2, NumbersTyped
    <3>4. T.p[y] \in Reaching(T, w)
      BY <1>1, <2>3, <3>1, <3>3 DEF Upward, PredsIn
    <3>5. Anc(T, T.p[y], q)
      BY <1>2, <2>3, <3>1, AncOrder
    <3>6. T.no[y] <= T.no[T.p[y]]
      BY <2>2, <3>1, <3>4, <3>5
    <3> QED BY <2>3, <3>1, <3>6, NumbersTyped
  <2>5. Upward(T, u, Reaching(T, w))
    <3>1. ASSUME NEW b \in Reaching(T, w), NEW x \in PredsIn(T, b), T.no[x] > T.no[u]
          PROVE  x \in Reaching(T, w)
      <4>1. x \in Blocks(T)
        BY DEF PredsIn
      <4>2. T.no[x] > T.no[w]
        BY <1>3, <3>1, <4>1, NumbersTyped
      <4> QED BY <1>1, <4>2 DEF Upward
    <3> QED BY <1>1, <2>3, <2>4, <3>1 DEF Upward
  <2>6. Reaching(T, u) \subseteq Reaching(T, w)
    BY <2>5, ReachingUpward
  <2>7. Into(T, u) \subseteq Into(T, w)
    BY <2>6 DEF Into
  <2>8. u # Entry
    BY <1>3, NumbersTyped DEF DfsTree
  <2> QED BY <2>7, <2>8, SdLeast
<1> QED BY <1>2, <1>3

\* What bounds them bounds w's.
LEMMA SdFromPreds ==
    ASSUME NEW T, DfsTree(T), NEW w \in Blocks(T), w # Entry, NEW m \in Nat, m <= T.no[w],
           \A q \in PredsIn(T, w) : T.no[q] < T.no[w] => m <= T.no[q],
           \A q \in PredsIn(T, w) : \A u \in Blocks(T) :
              T.no[q] > T.no[w] /\ T.no[u] > T.no[w] /\ Anc(T, u, q) => m <= Sd(T, u)
    PROVE  m <= Sd(T, w)
<1> DEFINE Fine(y) == \A u \in Blocks(T) : T.no[u] > T.no[w] /\ Anc(T, u, y) => m <= Sd(T, u)
           X == {w} \cup {y \in Blocks(T) : T.no[y] > T.no[w] /\ Fine(y)}
<1>1. \A b \in Blocks(T) : T.no[b] \in Nat
  BY NumbersTyped
<1>2. \A b \in Blocks(T) : T.no[b] > T.no[w] => b # Entry
  BY <1>1 DEF DfsTree
<1>3. ASSUME NEW b \in X, NEW q \in PredsIn(T, b), T.no[q] > T.no[w] PROVE q \in X
  <2>1. q \in Blocks(T) /\ b \in Blocks(T)
    BY DEF PredsIn
  <2> SUFFICES ASSUME NEW u \in Blocks(T), T.no[u] > T.no[w], Anc(T, u, q) PROVE m <= Sd(T, u)
    BY <1>3, <2>1
  <2>2. CASE b = w
    BY <1>3, <2>2
  <2>3. CASE b # w
    <3>1. T.no[b] > T.no[w] /\ Fine(b) /\ b # Entry
      BY <1>2, <2>1, <2>3
    <3>2. CASE Anc(T, u, b)
      BY <3>1, <3>2
    <3>3. CASE ~Anc(T, u, b)
      <4>1. ~(T.no[q] < T.no[b])
        BY <2>1, <3>3, EdgeDown, AncOrder
      <4>2. q # b
        BY <3>3
      <4>3. T.no[q] > T.no[b]
        BY <1>1, <2>1, <4>1, <4>2 DEF DfsTree
      <4>4. T.no[u] > T.no[b]
        BY <1>1, <2>1, <3>3, <4>3, AncOrder
      <4>5. Sd(T, b) <= Sd(T, u)
        BY <2>1, <3>1, <4>3, <4>4, SdBelowPred
      <4>6. m <= Sd(T, b)
        BY <2>1, <3>1, AncOrder
      <4>7. Sd(T, b) \in Nat /\ Sd(T, u) \in Nat
        BY <1>2, <2>1, <3>1, SdLeast
      <4> QED BY <4>5, <4>6, <4>7
    <3> QED BY <3>2, <3>3
  <2> QED BY <2>2, <2>3
<1>4. Upward(T, w, X)
  BY <1>3 DEF Upward
<1>5. Reaching(T, w) \subseteq X
  <2> HIDE DEF X
  <2> QED BY <1>4, ReachingUpward
<1>6. ASSUME NEW b \in X, NEW q \in PredsIn(T, b) PROVE m <= T.no[q]
  <2>1. q \in Blocks(T) /\ b \in Blocks(T)
    BY DEF PredsIn
  <2>2. CASE T.no[q] >= T.no[w]
    BY <1>1, <2>1, <2>2
  <2>3. CASE T.no[q] < T.no[w] /\ b = w
    BY <2>3
  <2>4. CASE T.no[q] < T.no[w] /\ b # w
    <3>1. T.no[b] > T.no[w] /\ Fine(b) /\ b # Entry
      BY <1>2, <2>1, <2>4
    <3>2. m <= Sd(T, b)
      BY <2>1, <3>1, AncOrder
    <3>3. Sd(T, b) <= T.no[q] /\ Sd(T, b) \in Nat
      BY <2>1, <3>1, SdBelowPred, SdLeast
    <3> QED BY <1>1, <2>1, <3>2, <3>3
  <2> QED BY <1>1, <2>1, <2>2, <2>3, <2>4
<1>7. \A n \in Into(T, w) : m <= n
  BY <1>5, <1>6 DEF Into
<1> QED BY <1>7, SdLeast

-----------------------------------------------------------------------------
(***************************************************************************)
(* The forest of linked blocks: those numbered after lim.  A block's       *)
(* ancestor is above it, all between are linked, and of those the block's  *)
(* label has the earliest semidominator.                                   *)
(***************************************************************************)
Forest(T, L, lim) ==
    \A b \in Blocks(T) :
       /\ T.no[b] <= lim => L.anc[b] = Null /\ L.label[b] = b
       /\ T.no[b] > lim =>
             /\ L.anc[b] \in Blocks(T) /\ Anc(T, L.anc[b], b) /\ T.no[L.anc[b]] < T.no[b]
             /\ Anc(T, L.label[b], b) /\ T.no[L.label[b]] > T.no[L.anc[b]]
             /\ \A u \in Blocks(T) :
                   Anc(T, u, b) /\ T.no[u] > T.no[L.anc[b]] =>
                      T.no[u] > lim /\ Sd(T, L.label[b]) <= Sd(T, u)

Semis(T, L, lim) == \A b \in Blocks(T) : T.no[b] > lim => L.sdno[b] = Sd(T, b)

\* M is what compressing the chain of c makes of L.
Evaled(T, L, M, lim, c) ==
    /\ M \in Maps /\ Forest(T, M, lim)
    /\ M.sdno = L.sdno /\ M.bucket = L.bucket /\ M.idom = L.idom
    /\ T.no[c] > lim => T.no[M.anc[c]] <= lim
    /\ \A x \in Blocks(T) : T.no[x] > T.no[c] => M.anc[x] = L.anc[x]

LEMMA ShortenedFields ==
    ASSUME NEW M \in Maps, NEW b \in Nodes, M.anc[b] \in Nodes
    PROVE  LET S == Shortened(M, b)
               a == M.anc[b]
           IN  /\ S \in Maps
               /\ S.sdno = M.sdno /\ S.bucket = M.bucket /\ S.idom = M.idom
               /\ S.anc = [M.anc EXCEPT ![b] = M.anc[a]]
               /\ S.label = [M.label EXCEPT ![b] = IF M.sdno[M.label[a]] < M.sdno[M.label[b]]
                                                   THEN M.label[a] ELSE M.label[b]]
<1> DEFINE a == M.anc[b]
           l == IF M.sdno[M.label[a]] < M.sdno[M.label[b]] THEN M.label[a] ELSE M.label[b]
           S == Shortened(M, b)
<1>1. /\ M = [sdno |-> M.sdno, anc |-> M.anc, label |-> M.label, bucket |-> M.bucket, idom |-> M.idom]
      /\ M.sdno \in [Nodes -> Nat] /\ M.anc \in [Nodes -> Nodes \cup {Null}]
      /\ M.label \in [Nodes -> Nodes] /\ M.bucket \in [Nodes -> SUBSET Nodes]
      /\ M.idom \in [Nodes -> Nodes \cup {Null}]
  BY DEF Maps
<1>2. S = [sdno |-> M.sdno, anc |-> [M.anc EXCEPT ![b] = M.anc[a]],
           label |-> [M.label EXCEPT ![b] = l], bucket |-> M.bucket, idom |-> M.idom]
  <2> DEFINE P == [M EXCEPT !.label[b] = l]
  <2>1. P = [sdno |-> M.sdno, anc |-> M.anc, label |-> [M.label EXCEPT ![b] = l],
             bucket |-> M.bucket, idom |-> M.idom]
    <3> HIDE DEF l
    <3> QED BY <1>1
  <2>2. [P EXCEPT !.anc[b] = M.anc[a]] =
          [sdno |-> P.sdno, anc |-> [P.anc EXCEPT ![b] = M.anc[a]], label |-> P.label,
           bucket |-> P.bucket, idom |-> P.idom]
    <3> HIDE DEF P, l
    <3> QED BY <2>1
  <2>3. S = [P EXCEPT !.anc[b] = M.anc[a]]
    BY DEF Shortened
  <2> HIDE DEF P, l, S
  <2> QED BY <2>1, <2>2, <2>3
<1>3. M.anc[a] \in Nodes \cup {Null} /\ l \in Nodes
  BY <1>1
<1>4. /\ [M.anc EXCEPT ![b] = M.anc[a]] \in [Nodes -> Nodes \cup {Null}]
      /\ [M.label EXCEPT ![b] = l] \in [Nodes -> Nodes]
  <2> HIDE DEF l
  <2> QED BY <1>1, <1>3
<1>5. /\ S.sdno = M.sdno /\ S.bucket = M.bucket /\ S.idom = M.idom
      /\ S.anc = [M.anc EXCEPT ![b] = M.anc[a]] /\ S.label = [M.label EXCEPT ![b] = l]
  <2> HIDE DEF l, S
  <2> QED BY <1>2
<1>6. S \in Maps
  <2> HIDE DEF l, S
  <2> QED BY <1>1, <1>2, <1>4 DEF Maps
<1> QED BY <1>5, <1>6

\* Which blocks Compress leaves alone.
LEMMA ChainedBlocks ==
    ASSUME NEW T, TreeOfGraph(T), NEW L, NEW lim \in Nat, Forest(T, L, lim), NEW b \in Blocks(T)
    PROVE  /\ L.anc[b] = Null <=> T.no[b] <= lim
           /\ Chained(L, b) <=> T.no[b] > lim /\ T.no[L.anc[b]] > lim
<1>1. Null \notin Blocks(T)
  BY BlocksOfGraph, GraphsAssumption DEF Nodes
<1>2. \A x \in Blocks(T) : T.no[x] \in Nat
  BY BlocksOfGraph, NumbersTyped
<1>3. \A x \in Blocks(T) : T.no[x] <= lim \/ T.no[x] > lim
  BY <1>2
<1>4. \A x \in Blocks(T) : L.anc[x] = Null <=> T.no[x] <= lim
  BY <1>1, <1>2, <1>3 DEF Forest
<1>5. T.no[b] > lim => L.anc[b] \in Blocks(T)
  BY DEF Forest
<1>6. Chained(L, b) <=> T.no[b] > lim /\ T.no[L.anc[b]] > lim
  BY <1>2, <1>4, <1>5 DEF Chained
<1> QED BY <1>4, <1>6

\* A block takes over its ancestor's ancestor, and its label if that is better.
LEMMA ShortenedForest ==
    ASSUME NEW T, TreeOfGraph(T), NEW M \in Maps, NEW lim \in Nat,
           Forest(T, M, lim), Semis(T, M, lim),
           NEW b \in Blocks(T), T.no[b] > lim, T.no[M.anc[b]] > lim
    PROVE  Forest(T, Shortened(M, b), lim)
<1> DEFINE S == Shortened(M, b)
           a == M.anc[b]
           l == IF M.sdno[M.label[a]] < M.sdno[M.label[b]] THEN M.label[a] ELSE M.label[b]
<1>1. DfsTree(T) /\ Blocks(T) = Nodes
  BY BlocksOfGraph
<1>2. \A x \in Blocks(T) : T.no[x] \in Nat /\ M.label[x] \in Blocks(T)
  BY <1>1, NumbersTyped DEF Maps
<1>3. /\ a \in Blocks(T) /\ Anc(T, a, b) /\ T.no[a] < T.no[b]
      /\ Anc(T, M.label[b], b) /\ T.no[M.label[b]] > T.no[a]
      /\ \A u \in Blocks(T) : Anc(T, u, b) /\ T.no[u] > T.no[a] =>
            T.no[u] > lim /\ Sd(T, M.label[b]) <= Sd(T, u)
  BY DEF Forest
<1>4. /\ M.anc[a] \in Blocks(T) /\ Anc(T, M.anc[a], a) /\ T.no[M.anc[a]] < T.no[a]
      /\ Anc(T, M.label[a], a) /\ T.no[M.label[a]] > T.no[M.anc[a]]
      /\ \A u \in Blocks(T) : Anc(T, u, a) /\ T.no[u] > T.no[M.anc[a]] =>
            T.no[u] > lim /\ Sd(T, M.label[a]) <= Sd(T, u)
  BY <1>3 DEF Forest
<1>5. /\ S.anc = [M.anc EXCEPT ![b] = M.anc[a]]
      /\ S.label = [M.label EXCEPT ![b] = l]
  BY <1>1, <1>3, ShortenedFields
<1>6. M.anc \in [Nodes -> Nodes \cup {Null}] /\ M.label \in [Nodes -> Nodes]
  BY DEF Maps
<1>7. S.anc[b] = M.anc[a] /\ S.label[b] = l
      /\ \A x \in Blocks(T) : x # b => S.anc[x] = M.anc[x] /\ S.label[x] = M.label[x]
  <2> HIDE DEF l, S, a
  <2> QED BY <1>1, <1>5, <1>6
<1>8. M.sdno[M.label[a]] = Sd(T, M.label[a]) /\ M.sdno[M.label[b]] = Sd(T, M.label[b])
      /\ Sd(T, M.label[a]) \in Nat /\ Sd(T, M.label[b]) \in Nat
  <2>1. T.no[M.label[a]] > lim /\ T.no[M.label[b]] > lim
    BY <1>2, <1>3, <1>4
  <2>2. M.sdno[M.label[a]] = Sd(T, M.label[a]) /\ M.sdno[M.label[b]] = Sd(T, M.label[b])
    BY <1>2, <1>3, <2>1 DEF Semis
  <2>3. M.label[a] # Entry /\ M.label[b] # Entry
    BY <1>1, <1>2, <1>3, <1>4 DEF DfsTree
  <2> QED BY <1>1, <1>2, <1>3, <2>2, <2>3, SdLeast
<1>9. l \in Blocks(T) /\ Anc(T, l, b) /\ T.no[l] > T.no[M.anc[a]]
  BY <1>1, <1>2, <1>3, <1>4, AncOrder
<1>10. Sd(T, l) \in Nat /\ Sd(T, l) <= Sd(T, M.label[a]) /\ Sd(T, l) <= Sd(T, M.label[b])
  BY <1>8
<1> HIDE DEF l, S
<1>11. ASSUME NEW u \in Blocks(T), Anc(T, u, b), T.no[u] > T.no[M.anc[a]]
       PROVE  T.no[u] > lim /\ Sd(T, l) <= Sd(T, u)
  <2>1. u # Entry
    BY <1>1, <1>2, <1>4, <1>11 DEF DfsTree
  <2>2. Sd(T, u) \in Nat
    BY <1>1, <2>1, SdLeast
  <2>3. CASE T.no[u] > T.no[a]
    BY <1>3, <1>8, <1>10, <1>11, <2>2, <2>3
  <2>4. CASE T.no[u] <= T.no[a]
    <3>1. Anc(T, u, a)
      BY <1>1, <1>3, <1>11, <2>4, AncOrder
    <3> QED BY <1>4, <1>8, <1>10, <1>11, <2>2, <3>1
  <2> QED BY <1>2, <1>3, <2>3, <2>4
<1>12. Anc(T, M.anc[a], b) /\ T.no[M.anc[a]] < T.no[b]
  BY <1>1, <1>2, <1>3, <1>4, AncOrder
<1>13. ~(T.no[b] <= lim)
  BY <1>2
<1>14. Forest(T, S, lim)
  <2> HIDE DEF a
  <2> QED BY <1>4, <1>7, <1>9, <1>11, <1>12, <1>13 DEF Forest
<1> QED BY <1>14 DEF S

\* What holds of the compressed ancestor holds of the block.
LEMMA ShortenedEvaled ==
    ASSUME NEW T, TreeOfGraph(T), NEW L \in Maps, NEW lim \in Nat,
           Forest(T, L, lim), Semis(T, L, lim),
           NEW c \in Blocks(T), Chained(L, c), NEW M, Evaled(T, L, M, lim, L.anc[c])
    PROVE  M.anc[c] \in Nodes /\ Evaled(T, L, Shortened(M, c), lim, c)
<1> DEFINE a == L.anc[c]
           S == Shortened(M, c)
<1>1. DfsTree(T) /\ Blocks(T) = Nodes
  BY BlocksOfGraph
<1>2. T.no[c] > lim /\ T.no[a] > lim /\ a \in Blocks(T) /\ T.no[a] < T.no[c]
  BY ChainedBlocks DEF Forest
<1>3. \A x \in Blocks(T) : T.no[x] \in Nat
  BY <1>1, NumbersTyped
<1>4. /\ M \in Maps /\ Forest(T, M, lim)
      /\ M.sdno = L.sdno /\ M.bucket = L.bucket /\ M.idom = L.idom
      /\ T.no[M.anc[a]] <= lim
      /\ \A x \in Blocks(T) : T.no[x] > T.no[a] => M.anc[x] = L.anc[x]
  BY <1>2 DEF Evaled
<1>5. M.anc[c] = a
  BY <1>2, <1>4
<1>6. Semis(T, M, lim)
  BY <1>4 DEF Semis
<1>7. /\ S \in Maps /\ S.sdno = M.sdno /\ S.bucket = M.bucket /\ S.idom = M.idom
      /\ S.anc = [M.anc EXCEPT ![c] = M.anc[a]]
  <2>1. M.anc[c] \in Nodes
    BY <1>1, <1>2, <1>5
  <2> HIDE DEF S, a
  <2> QED BY <1>1, <1>4, <1>5, <2>1, ShortenedFields DEF S
<1>8. Forest(T, S, lim)
  BY <1>2, <1>4, <1>5, <1>6, ShortenedForest
<1>9. S.anc[c] = M.anc[a] /\ \A x \in Blocks(T) : x # c => S.anc[x] = M.anc[x]
  <2>1. M.anc \in [Nodes -> Nodes \cup {Null}]
    BY <1>4 DEF Maps
  <2> HIDE DEF S, a
  <2> QED BY <1>1, <1>7, <2>1
<1>10. \A x \in Blocks(T) : T.no[x] > T.no[c] => S.anc[x] = L.anc[x]
  <2> SUFFICES ASSUME NEW x \in Blocks(T), T.no[x] > T.no[c] PROVE S.anc[x] = L.anc[x]
    OBVIOUS
  <2>1. x # c /\ T.no[x] > T.no[a]
    BY <1>2, <1>3
  <2> HIDE DEF S, a
  <2> QED BY <1>4, <1>9, <2>1
<1>11. Evaled(T, L, S, lim, c)
  <2> HIDE DEF S, a
  <2> QED BY <1>4, <1>7, <1>8, <1>9, <1>10 DEF Evaled
<1> QED BY <1>1, <1>2, <1>5, <1>11 DEF S

LEMMA UnchainedEvaled ==
    ASSUME NEW T, TreeOfGraph(T), NEW L \in Maps, NEW lim \in Nat, Forest(T, L, lim),
           NEW c \in Blocks(T), ~Chained(L, c)
    PROVE  Evaled(T, L, L, lim, c)
<1>1. T.no[c] > lim => L.anc[c] \in Blocks(T)
  BY DEF Forest
<1>2. \A x \in Blocks(T) : T.no[x] \in Nat
  BY BlocksOfGraph, NumbersTyped
<1>3. T.no[c] > lim => T.no[L.anc[c]] <= lim
  BY <1>1, <1>2, ChainedBlocks
<1> QED BY <1>3 DEF Evaled

\* The recursion of Compress: up the chain of ancestors, numbers decrease.
Compresses(L, f) ==
    f = [c \in Nodes |-> IF Chained(L, c) THEN Shortened(f[L.anc[c]], c) ELSE L]

LEMMA CompressExists ==
    ASSUME NEW T, TreeOfGraph(T), NEW L \in Maps, NEW lim \in Nat,
           Forest(T, L, lim), Semis(T, L, lim),
           NEW n \in Nat, \A b \in Blocks(T) : T.no[b] <= n
    PROVE  \E f : Compresses(L, f)
<1>1. DfsTree(T) /\ Blocks(T) = Nodes
  BY BlocksOfGraph
<1> DEFINE Up(f, c) == IF Chained(L, c) /\ f[L.anc[c]].anc[c] \in Nodes
                       THEN Shortened(f[L.anc[c]], c) ELSE L
           G == [f \in [Nodes -> Maps] |-> [c \in Nodes |-> Up(f, c)]]
           f0 == [c \in Nodes |-> L]
<1>2. \A c \in Nodes : Chained(L, c) => L.anc[c] \in Nodes /\ T.no[L.anc[c]] < T.no[c]
  BY <1>1, ChainedBlocks DEF Forest
<1>3. G \in [[Nodes -> Maps] -> [Nodes -> Maps]] /\ f0 \in [Nodes -> Maps]
  <2>1. ASSUME NEW f \in [Nodes -> Maps], NEW c \in Nodes PROVE Up(f, c) \in Maps
    <3>1. CASE Chained(L, c) /\ f[L.anc[c]].anc[c] \in Nodes
      <4>1. f[L.anc[c]] \in Maps
        BY <1>2, <3>1
      <4> QED BY <3>1, <4>1, ShortenedFields
    <3>2. CASE ~(Chained(L, c) /\ f[L.anc[c]].anc[c] \in Nodes)
      BY <3>2
    <3> QED BY <3>1, <3>2
  <2> HIDE DEF Up
  <2> QED BY <2>1
<1>4. PICK g \in [Nat -> [Nodes -> Maps]] : Iterates(G, f0, g)
  <2> HIDE DEF G, f0
  <2> QED BY <1>3, IterationExists
<1>5. ASSUME NEW k \in Nat, NEW c \in Nodes PROVE g[k + 1][c] = Up(g[k], c)
  <2>1. g[k] \in [Nodes -> Maps] /\ g[k + 1] = G[g[k]]
    BY <1>4 DEF Iterates
  <2> HIDE DEF Up
  <2> QED BY <2>1
<1> DEFINE Ok(k) == \A c \in Nodes : T.no[c] <= k =>
                       g[k + 1][c] = g[k][c] /\ Evaled(T, L, g[k][c], lim, c)
           P == {k \in Nat : Ok(k)}
<1>6. 0 \in P
  <2>1. \A c \in Nodes : ~(T.no[c] <= 0)
    BY <1>1, NumbersTyped
  <2> QED BY <2>1
<1>7. ASSUME NEW k \in Nat, NEW c \in Nodes, Chained(L, c), T.no[c] <= k + 1, Ok(k)
      PROVE  /\ g[k + 1][L.anc[c]] = g[k][L.anc[c]]
             /\ g[k + 1][c] = Shortened(g[k][L.anc[c]], c)
             /\ Evaled(T, L, g[k + 1][c], lim, c)
             /\ g[k][L.anc[c]].anc[c] \in Nodes
  <2>1. L.anc[c] \in Nodes /\ T.no[L.anc[c]] <= k
    BY <1>1, <1>2, <1>7, NumbersTyped
  <2>2. g[k + 1][L.anc[c]] = g[k][L.anc[c]] /\ Evaled(T, L, g[k][L.anc[c]], lim, L.anc[c])
    BY <1>7, <2>1
  <2>3. g[k][L.anc[c]].anc[c] \in Nodes /\ Evaled(T, L, Shortened(g[k][L.anc[c]], c), lim, c)
    BY <1>1, <1>7, <2>2, ShortenedEvaled
  <2>4. g[k + 1][c] = Shortened(g[k][L.anc[c]], c)
    BY <1>5, <1>7, <2>3
  <2> QED BY <2>2, <2>3, <2>4
<1>8. ASSUME NEW k \in Nat, k \in P PROVE k + 1 \in P
  <2> SUFFICES ASSUME NEW c \in Nodes, T.no[c] <= k + 1
               PROVE  g[(k + 1) + 1][c] = g[k + 1][c] /\ Evaled(T, L, g[k + 1][c], lim, c)
    OBVIOUS
  <2>1. k + 1 \in Nat /\ Ok(k)
    BY <1>8
  <2> HIDE DEF Ok
  <2>2. CASE Chained(L, c)
    <3>1. /\ g[k + 1][L.anc[c]] = g[k][L.anc[c]]
          /\ g[k + 1][c] = Shortened(g[k][L.anc[c]], c)
          /\ Evaled(T, L, g[k + 1][c], lim, c)
          /\ g[k][L.anc[c]].anc[c] \in Nodes
      BY <1>7, <2>1, <2>2
    <3>2. g[(k + 1) + 1][c] = Up(g[k + 1], c)
      <4> HIDE DEF Up
      <4> QED BY <1>5, <2>1
    <3>3. g[(k + 1) + 1][c] = Shortened(g[k][L.anc[c]], c)
      BY <2>2, <3>1, <3>2
    <3> QED BY <3>1, <3>3
  <2>3. CASE ~Chained(L, c)
    <3>1. g[(k + 1) + 1][c] = Up(g[k + 1], c) /\ g[k + 1][c] = Up(g[k], c)
      <4> HIDE DEF Up
      <4> QED BY <1>5, <2>1
    <3>2. g[(k + 1) + 1][c] = L /\ g[k + 1][c] = L
      BY <2>3, <3>1
    <3>3. Evaled(T, L, L, lim, c)
      BY <1>1, <2>3, UnchainedEvaled
    <3> QED BY <3>2, <3>3
  <2> QED BY <2>2, <2>3
<1>9. Nat \subseteq P
  <2> HIDE DEF P
  <2> QED BY <1>6, <1>8, SetInduction
<1>10. Ok(n)
  BY <1>9
<1> DEFINE f == g[n + 1]
<1>11. f \in [Nodes -> Maps]
  BY <1>4
<1>12. ASSUME NEW c \in Nodes
       PROVE  f[c] = IF Chained(L, c) THEN Shortened(f[L.anc[c]], c) ELSE L
  <2>1. CASE Chained(L, c)
    <3>1. T.no[c] <= n + 1
      BY <1>1, NumbersTyped
    <3> HIDE DEF Ok
    <3> QED BY <1>7, <1>10, <2>1, <3>1
  <2>2. CASE ~Chained(L, c)
    <3>1. f[c] = Up(g[n], c)
      <4> HIDE DEF Up
      <4> QED BY <1>5
    <3> QED BY <2>2, <3>1
  <2> QED BY <2>1, <2>2
<1>13. Compresses(L, f)
  <2> HIDE DEF f
  <2> QED BY <1>11, <1>12 DEF Compresses
<1> QED BY <1>13

\* What Eval leaves.
LEMMA EvalLeaves ==
    ASSUME NEW T, TreeOfGraph(T), NEW L \in Maps, NEW lim \in Nat,
           Forest(T, L, lim), Semis(T, L, lim),
           NEW n \in Nat, \A b \in Blocks(T) : T.no[b] <= n,
           NEW b \in Nodes
    PROVE  Evaled(T, L, Eval(L, b), lim, b)
<1>1. DfsTree(T) /\ Blocks(T) = Nodes
  BY BlocksOfGraph
<1> DEFINE f == CHOOSE compress : compress = [c \in Nodes |-> IF Chained(L, c)
                                      THEN Shortened(compress[L.anc[c]], c) ELSE L]
<1>2. Compresses(L, f)
  <2>1. \E h : Compresses(L, h)
    BY CompressExists
  <2> QED BY <2>1 DEF Compresses
<1>3. Eval(L, b) = f[b]
  BY DEF Eval
<1> HIDE DEF f
<1>4. \A c \in Nodes : f[c] = IF Chained(L, c) THEN Shortened(f[L.anc[c]], c) ELSE L
  BY <1>2 DEF Compresses
<1> DEFINE Bad == {c \in Blocks(T) : ~Evaled(T, L, f[c], lim, c)}
<1>5. Bad = {}
  <2> SUFFICES ASSUME Bad # {} PROVE FALSE
    OBVIOUS
  <2>1. PICK c \in Bad : \A x \in Bad : T.no[c] <= T.no[x]
    <3>1. Bad \in SUBSET Blocks(T)
      OBVIOUS
    <3> HIDE DEF Bad
    <3> QED BY <1>1, <3>1, LeastBlock
  <2>2. c \in Blocks(T) /\ ~Evaled(T, L, f[c], lim, c)
    BY <2>1
  <2>3. CASE Chained(L, c)
    <3>1. L.anc[c] \in Blocks(T) /\ T.no[L.anc[c]] < T.no[c]
      BY <2>2, <2>3, ChainedBlocks DEF Forest
    <3>2. ~(T.no[c] <= T.no[L.anc[c]])
      BY <1>1, <2>2, <3>1, NumbersTyped
    <3>3. Evaled(T, L, f[L.anc[c]], lim, L.anc[c])
      BY <2>1, <3>1, <3>2
    <3> QED BY <1>1, <1>4, <2>2, <2>3, <3>3, ShortenedEvaled
  <2>4. CASE ~Chained(L, c)
    BY <1>1, <1>4, <2>2, <2>4, UnchainedEvaled
  <2> QED BY <2>3, <2>4
<1> QED BY <1>1, <1>3, <1>5

-----------------------------------------------------------------------------
(***************************************************************************)
(* The loop over the blocks, the last numbered first.                      *)
(***************************************************************************)
\* What Eval's result for v tells: w's semidominator is its immediate dominator,
\* or d has the same immediate dominator as w, and comes before w.
DomFound(T, w, d) ==
    \/ /\ d \in Blocks(T) /\ T.no[d] = Sd(T, w)
       /\ \A u \in BelowSd(T, w) : Sd(T, u) >= Sd(T, w)
    \/ /\ d \in BelowSd(T, w) /\ Sd(T, d) < Sd(T, w)
       /\ \A u \in BelowSd(T, w) : Sd(T, d) <= Sd(T, u)

\* Blocks before w have their number in sdno.
Untouched(T, L, w) == \A b \in Blocks(T) : T.no[b] < T.no[w] => L.sdno[b] = T.no[b]

\* w's semidominator, so far, in view of its predecessors that are not left.
SdSoFar(T, L, w, left) ==
    /\ Sd(T, w) <= L.sdno[w] /\ L.sdno[w] <= T.no[w]
    /\ \A q \in PredsIn(T, w) \ left :
          /\ T.no[q] < T.no[w] => L.sdno[w] <= T.no[q]
          /\ T.no[q] > T.no[w] =>
                \A u \in Blocks(T) : T.no[u] > T.no[w] /\ Anc(T, u, q) => L.sdno[w] <= Sd(T, u)

\* A bucket holds blocks by their semidominators, until the child of it that is
\* above the block is linked; only the bucket of q0 holds them longer.
InBuckets(T, L, lim, q0) ==
    \A q \in Blocks(T) : \A v \in L.bucket[q] :
       /\ v \in Blocks(T) /\ T.no[v] > lim /\ T.no[q] = Sd(T, v)
       /\ q # q0 => \A c \in Blocks(T) : T.no[c] > lim /\ T.p[c] = q => ~Anc(T, c, v)

\* A linked block is in a bucket or settled; of q0's bucket some are left.
Awaited(T, L, lim, q0, left) ==
    \A v \in Blocks(T) : T.no[v] > lim =>
       \/ \E q \in Blocks(T) : v \in L.bucket[q] /\ (q = q0 => v \in left)
       \/ DomFound(T, v, L.idom[v])

\* Looking at the predecessors of w.
LookingUp(T, L, w, left) ==
    /\ L \in Maps /\ L.idom[Entry] = Null
    /\ w \in Blocks(T) \ {Entry}
    /\ Forest(T, L, T.no[w]) /\ Semis(T, L, T.no[w]) /\ Untouched(T, L, w)
    /\ InBuckets(T, L, T.no[w], Null) /\ Awaited(T, L, T.no[w], Null, {})
    /\ left \subseteq PredsIn(T, w)
    /\ SdSoFar(T, L, w, left)

\* Looking at the bucket of w's parent.
Settling(T, L, w, left) ==
    /\ L \in Maps /\ L.idom[Entry] = Null
    /\ w \in Blocks(T) \ {Entry}
    /\ Forest(T, L, T.no[w] - 1) /\ Semis(T, L, T.no[w] - 1) /\ Untouched(T, L, w)
    /\ InBuckets(T, L, T.no[w] - 1, T.p[w])
    /\ Awaited(T, L, T.no[w] - 1, T.p[w], left)
    /\ left \subseteq L.bucket[T.p[w]]
    /\ \A v \in L.bucket[T.p[w]] : Anc(T, w, v)

LEMMA MapsFields ==
    ASSUME NEW M \in Maps
    PROVE  /\ M.sdno \in [Nodes -> Nat] /\ M.anc \in [Nodes -> Nodes \cup {Null}]
           /\ M.label \in [Nodes -> Nodes] /\ M.bucket \in [Nodes -> SUBSET Nodes]
           /\ M.idom \in [Nodes -> Nodes \cup {Null}]
           /\ M = [sdno |-> M.sdno, anc |-> M.anc, label |-> M.label, bucket |-> M.bucket,
                   idom |-> M.idom]
BY DEF Maps

LEMMA LoweredFields ==
    ASSUME NEW M \in Maps, NEW w \in Nodes, NEW p \in Nodes
    PROVE  LET S == Lowered(M, w, p)
               s == M.sdno[M.label[p]]
           IN  /\ S \in Maps /\ S.anc = M.anc /\ S.label = M.label
               /\ S.bucket = M.bucket /\ S.idom = M.idom
               /\ S.sdno[w] = IF s < M.sdno[w] THEN s ELSE M.sdno[w]
               /\ \A b \in Nodes \ {w} : S.sdno[b] = M.sdno[b]
<1> DEFINE s == M.sdno[M.label[p]]
           n == IF s < M.sdno[w] THEN s ELSE M.sdno[w]
           S == Lowered(M, w, p)
<1>1. n \in Nat
  BY MapsFields
<1>2. S = [M EXCEPT !.sdno[w] = n]
  BY DEF Lowered
<1>3. S = [sdno |-> [M.sdno EXCEPT ![w] = n], anc |-> M.anc, label |-> M.label,
           bucket |-> M.bucket, idom |-> M.idom]
  <2> HIDE DEF n, S
  <2> QED BY <1>2, MapsFields
<1>4. [M.sdno EXCEPT ![w] = n] \in [Nodes -> Nat]
  <2> HIDE DEF n
  <2> QED BY <1>1, MapsFields
<1>5. S \in Maps
  <2> HIDE DEF n, S
  <2> QED BY <1>3, <1>4, MapsFields DEF Maps
<1>6. S.sdno = [M.sdno EXCEPT ![w] = n] /\ S.anc = M.anc /\ S.label = M.label
      /\ S.bucket = M.bucket /\ S.idom = M.idom
  <2> HIDE DEF n, S
  <2> QED BY <1>3
<1>7. S.sdno[w] = n /\ \A b \in Nodes \ {w} : S.sdno[b] = M.sdno[b]
  <2> HIDE DEF n, S
  <2> QED BY <1>6, MapsFields
<1> QED BY <1>5, <1>6, <1>7

LEMMA LinkedFields ==
    ASSUME NEW M \in Maps, NEW w \in Nodes, NEW s \in Nodes, order[M.sdno[w]] = s,
           parent[w] \in Nodes
    PROVE  LET S == Linked(M, w)
           IN  /\ S \in Maps /\ S.sdno = M.sdno /\ S.label = M.label /\ S.idom = M.idom
               /\ S.anc[w] = parent[w] /\ \A b \in Nodes \ {w} : S.anc[b] = M.anc[b]
               /\ \A v : v \in S.bucket[s] <=> v \in M.bucket[s] \/ v = w
               /\ \A b \in Nodes \ {s} : S.bucket[b] = M.bucket[b]
<1> DEFINE S == Linked(M, w)
           P == [M EXCEPT !.bucket[s] = M.bucket[s] \cup {w}]
           q == parent[w]
<1>1. P = [sdno |-> M.sdno, anc |-> M.anc, label |-> M.label,
           bucket |-> [M.bucket EXCEPT ![s] = M.bucket[s] \cup {w}], idom |-> M.idom]
  <2> DEFINE B == M.bucket[s] \cup {w}
  <2>1. M = [sdno |-> M.sdno, anc |-> M.anc, label |-> M.label, bucket |-> M.bucket, idom |-> M.idom]
        /\ M.bucket \in [Nodes -> SUBSET Nodes]
    BY MapsFields
  <2>2. [M EXCEPT !.bucket[s] = B] =
          [sdno |-> M.sdno, anc |-> M.anc, label |-> M.label,
           bucket |-> [M.bucket EXCEPT ![s] = B], idom |-> M.idom]
    <3> HIDE DEF B
    <3> QED BY <2>1
  <2> QED BY <2>2
<1>2. S = [P EXCEPT !.anc[w] = q]
  BY DEF Linked
<1> HIDE DEF P, S, q
<1>3. S = [sdno |-> M.sdno, anc |-> [M.anc EXCEPT ![w] = q], label |-> M.label,
           bucket |-> [M.bucket EXCEPT ![s] = M.bucket[s] \cup {w}], idom |-> M.idom]
  BY <1>1, <1>2
<1>4. q \in Nodes
  BY DEF q
<1>5. /\ [M.anc EXCEPT ![w] = q] \in [Nodes -> Nodes \cup {Null}]
      /\ [M.bucket EXCEPT ![s] = M.bucket[s] \cup {w}] \in [Nodes -> SUBSET Nodes]
  BY <1>4, MapsFields
<1>6. S \in Maps
  BY <1>3, <1>5, MapsFields DEF Maps
<1>7. S.sdno = M.sdno /\ S.label = M.label /\ S.idom = M.idom
      /\ S.anc = [M.anc EXCEPT ![w] = q] /\ S.bucket = [M.bucket EXCEPT ![s] = M.bucket[s] \cup {w}]
  BY <1>3
<1>8. /\ S.anc[w] = q /\ \A b \in Nodes \ {w} : S.anc[b] = M.anc[b]
      /\ \A v : v \in S.bucket[s] <=> v \in M.bucket[s] \/ v = w
      /\ \A b \in Nodes \ {s} : S.bucket[b] = M.bucket[b]
  BY <1>7, MapsFields
<1> QED BY <1>6, <1>7, <1>8 DEF S, q

LEMMA SettledFields ==
    ASSUME NEW M \in Maps, NEW q \in Nodes, NEW v \in Nodes
    PROVE  LET S == Settled(M, q, v)
               u == M.label[v]
           IN  /\ S \in Maps /\ S.sdno = M.sdno /\ S.anc = M.anc /\ S.label = M.label
               /\ S.bucket = M.bucket
               /\ S.idom[v] = IF M.sdno[u] < M.sdno[v] THEN u ELSE q
               /\ \A b \in Nodes \ {v} : S.idom[b] = M.idom[b]
<1> DEFINE d == IF M.sdno[M.label[v]] < M.sdno[v] THEN M.label[v] ELSE q
           S == Settled(M, q, v)
<1>1. d \in Nodes
  BY MapsFields
<1>2. S = [M EXCEPT !.idom[v] = d]
  BY DEF Settled
<1> HIDE DEF d, S
<1>3. S = [sdno |-> M.sdno, anc |-> M.anc, label |-> M.label,
           bucket |-> M.bucket, idom |-> [M.idom EXCEPT ![v] = d]]
  BY <1>2, MapsFields
<1>4. [M.idom EXCEPT ![v] = d] \in [Nodes -> Nodes \cup {Null}]
  BY <1>1, MapsFields
<1>5. S \in Maps
  BY <1>3, <1>4, MapsFields DEF Maps
<1>6. S.sdno = M.sdno /\ S.anc = M.anc /\ S.label = M.label
      /\ S.bucket = M.bucket /\ S.idom = [M.idom EXCEPT ![v] = d]
  BY <1>3
<1>7. S.idom[v] = d /\ \A b \in Nodes \ {v} : S.idom[b] = M.idom[b]
  BY <1>6, MapsFields
<1> QED BY <1>5, <1>6, <1>7 DEF S, d

LEMMA EmptiedFields ==
    ASSUME NEW M \in Maps, NEW q \in Nodes
    PROVE  LET S == Emptied(M, q)
           IN  /\ S \in Maps /\ S.sdno = M.sdno /\ S.anc = M.anc /\ S.label = M.label
               /\ S.idom = M.idom /\ S.bucket[q] = {}
               /\ \A b \in Nodes \ {q} : S.bucket[b] = M.bucket[b]
<1> DEFINE S == Emptied(M, q)
<1>1. S = [sdno |-> M.sdno, anc |-> M.anc, label |-> M.label,
           bucket |-> [M.bucket EXCEPT ![q] = {}], idom |-> M.idom]
  <2>1. M = [sdno |-> M.sdno, anc |-> M.anc, label |-> M.label, bucket |-> M.bucket, idom |-> M.idom]
        /\ M.bucket \in [Nodes -> SUBSET Nodes]
    BY MapsFields
  <2>2. \A B : [M EXCEPT !.bucket[q] = B] =
                [sdno |-> M.sdno, anc |-> M.anc, label |-> M.label,
                 bucket |-> [M.bucket EXCEPT ![q] = B], idom |-> M.idom]
    BY <2>1
  <2>3. S = [M EXCEPT !.bucket[q] = {}]
    BY DEF Emptied
  <2> HIDE DEF S
  <2> QED BY <2>2, <2>3
<1> HIDE DEF S
<1>2. [M.bucket EXCEPT ![q] = {}] \in [Nodes -> SUBSET Nodes]
  BY MapsFields
<1>3. S \in Maps
  BY <1>1, <1>2, MapsFields DEF Maps
<1>4. S.sdno = M.sdno /\ S.anc = M.anc /\ S.label = M.label
      /\ S.idom = M.idom /\ S.bucket = [M.bucket EXCEPT ![q] = {}]
  BY <1>1
<1> QED BY <1>3, <1>4, MapsFields DEF S

\* The parts depend on some of the maps each.
LEMMA SameMaps ==
    ASSUME NEW T, NEW L, NEW S, NEW lim, NEW q0, NEW left
    PROVE  /\ S.anc = L.anc /\ S.label = L.label /\ Forest(T, L, lim) => Forest(T, S, lim)
           /\ S.sdno = L.sdno /\ Semis(T, L, lim) => Semis(T, S, lim)
           /\ S.bucket = L.bucket /\ InBuckets(T, L, lim, q0) => InBuckets(T, S, lim, q0)
           /\ S.bucket = L.bucket /\ S.idom = L.idom /\ Awaited(T, L, lim, q0, left)
                 => Awaited(T, S, lim, q0, left)
<1>1. S.anc = L.anc /\ S.label = L.label /\ Forest(T, L, lim) => Forest(T, S, lim)
  BY DEF Forest
<1>2. S.sdno = L.sdno /\ Semis(T, L, lim) => Semis(T, S, lim)
  BY DEF Semis
<1>3. S.bucket = L.bucket /\ InBuckets(T, L, lim, q0) => InBuckets(T, S, lim, q0)
  BY DEF InBuckets
<1>4. S.bucket = L.bucket /\ S.idom = L.idom /\ Awaited(T, L, lim, q0, left)
         => Awaited(T, S, lim, q0, left)
  BY DEF Awaited
<1> QED BY <1>1, <1>2, <1>3, <1>4

\* One predecessor of w.
LEMMA LoweredStep ==
    ASSUME NEW T, TreeOfGraph(T), NEW n \in Nat, \A b \in Blocks(T) : T.no[b] <= n,
           NEW L, NEW w, NEW left, LookingUp(T, L, w, left), NEW p \in left
    PROVE  LookingUp(T, Lowered(Eval(L, p), w, p), w, left \ {p})
<1> DEFINE M == Eval(L, p)
           S == Lowered(M, w, p)
           lim == T.no[w]
           l == M.label[p]
           s == M.sdno[l]
<1>1. DfsTree(T) /\ Blocks(T) = Nodes
  BY BlocksOfGraph
<1>2. /\ L \in Maps /\ L.idom[Entry] = Null /\ w \in Blocks(T) /\ w # Entry
      /\ Forest(T, L, lim) /\ Semis(T, L, lim) /\ Untouched(T, L, w)
      /\ InBuckets(T, L, lim, Null) /\ Awaited(T, L, lim, Null, {})
      /\ left \subseteq PredsIn(T, w) /\ SdSoFar(T, L, w, left)
  BY DEF LookingUp
<1>3. p \in PredsIn(T, w) /\ p \in Blocks(T)
  BY <1>2 DEF PredsIn
<1>4. \A b \in Blocks(T) : T.no[b] \in Nat
  BY <1>1, NumbersTyped
<1>5. Evaled(T, L, M, lim, p)
  BY <1>1, <1>2, <1>3, <1>4, EvalLeaves
<1> HIDE DEF M
<1>6. /\ M \in Maps /\ Forest(T, M, lim)
      /\ M.sdno = L.sdno /\ M.bucket = L.bucket /\ M.idom = L.idom
      /\ T.no[p] > lim => T.no[M.anc[p]] <= lim
  BY <1>5 DEF Evaled
<1>7. /\ S \in Maps /\ S.anc = M.anc /\ S.label = M.label
      /\ S.bucket = M.bucket /\ S.idom = M.idom
      /\ S.sdno[w] = IF s < M.sdno[w] THEN s ELSE M.sdno[w]
      /\ \A b \in Nodes \ {w} : S.sdno[b] = M.sdno[b]
  <2>1. M \in Maps /\ w \in Nodes /\ p \in Nodes
    BY <1>1, <1>2, <1>3, <1>6
  <2> QED BY ONLY <2>1, LoweredFields
<1> HIDE DEF S
<1>8. L.sdno[w] \in Nat /\ s \in Nat /\ Sd(T, w) \in Nat /\ S.sdno[w] \in Nat
  <2>1. L.sdno[w] \in Nat /\ s \in Nat /\ S.sdno[w] \in Nat
    BY <1>1, <1>2, <1>3, <1>6, <1>7, MapsFields
  <2> QED BY <1>1, <1>2, <2>1, SdLeast
<1>9. S.sdno[w] <= s /\ S.sdno[w] <= L.sdno[w] /\ (S.sdno[w] = s \/ S.sdno[w] = L.sdno[w])
  BY <1>6, <1>7, <1>8
<1>10. ASSUME T.no[p] < T.no[w] PROVE s = T.no[p]
  <2>1. T.no[p] <= lim
    BY <1>2, <1>3, <1>4, <1>10
  <2>2. l = p
    BY <1>3, <1>6, <2>1 DEF Forest
  <2> QED BY <1>2, <1>3, <1>6, <1>10, <2>2 DEF Untouched
<1>11. ASSUME T.no[p] > T.no[w]
       PROVE  /\ Sd(T, w) <= s
              /\ \A u \in Blocks(T) : T.no[u] > T.no[w] /\ Anc(T, u, p) => s <= Sd(T, u)
  <2>1. l \in Blocks(T)
    BY <1>1, <1>3, <1>6, MapsFields
  <2>2. /\ M.anc[p] \in Blocks(T) /\ Anc(T, l, p) /\ T.no[l] > T.no[M.anc[p]]
        /\ \A u \in Blocks(T) : Anc(T, u, p) /\ T.no[u] > T.no[M.anc[p]] =>
              T.no[u] > lim /\ Sd(T, l) <= Sd(T, u)
    BY <1>3, <1>6, <1>11 DEF Forest
  <2>3. T.no[l] > lim
    BY <2>1, <2>2
  <2>4. s = Sd(T, l)
    BY <1>2, <1>6, <2>1, <2>3 DEF Semis
  <2>5. Sd(T, w) <= s
    BY <1>1, <1>2, <1>3, <1>11, <2>1, <2>2, <2>3, <2>4, SdBelowPred
  <2>6. T.no[M.anc[p]] <= lim
    BY <1>6, <1>11
  <2>7. ASSUME NEW u \in Blocks(T), T.no[u] > T.no[w], Anc(T, u, p) PROVE s <= Sd(T, u)
    <3>1. T.no[u] > T.no[M.anc[p]]
      BY <1>2, <1>4, <2>2, <2>6, <2>7
    <3> QED BY <2>2, <2>4, <2>7, <3>1
  <2> QED BY <2>5, <2>7
<1>12. ASSUME T.no[p] = T.no[w] PROVE s = L.sdno[w]
  <2>1. p = w
    BY <1>1, <1>2, <1>3, <1>12 DEF DfsTree
  <2>2. l = w
    BY <1>2, <1>4, <1>6, <2>1 DEF Forest
  <2> QED BY <1>6, <2>2
<1>13. Sd(T, w) <= L.sdno[w] /\ L.sdno[w] <= T.no[w]
  BY <1>2 DEF SdSoFar
<1>14. Sd(T, w) <= S.sdno[w] /\ S.sdno[w] <= T.no[w]
  <2>1. Sd(T, w) <= s
    <3>1. CASE T.no[p] < T.no[w]
      BY <1>1, <1>2, <1>3, <1>10, <3>1, SdBelowPred
    <3>2. CASE T.no[p] > T.no[w]
      BY <1>11, <3>2
    <3>3. CASE T.no[p] = T.no[w]
      BY <1>12, <1>13, <3>3
    <3> QED BY <1>2, <1>3, <1>4, <3>1, <3>2, <3>3
  <2> QED BY <1>2, <1>4, <1>8, <1>9, <1>13, <2>1
<1>15. ASSUME NEW q \in PredsIn(T, w) \ (left \ {p})
       PROVE  /\ T.no[q] < T.no[w] => S.sdno[w] <= T.no[q]
              /\ T.no[q] > T.no[w] =>
                    \A u \in Blocks(T) :
                       T.no[u] > T.no[w] /\ Anc(T, u, q) => S.sdno[w] <= Sd(T, u)
  <2>1. \A u \in Blocks(T) : T.no[u] > T.no[w] => Sd(T, u) \in Nat
    <3>1. \A u \in Blocks(T) : T.no[u] > T.no[w] => u # Entry
      BY <1>1, <1>2, <1>4 DEF DfsTree
    <3> QED BY <1>1, <3>1, SdLeast
  <2>2. CASE q = p
    <3>1. T.no[q] < T.no[w] => S.sdno[w] <= T.no[q]
      BY <1>9, <1>10, <2>2
    <3>2. T.no[q] > T.no[w] =>
             \A u \in Blocks(T) : T.no[u] > T.no[w] /\ Anc(T, u, q) => S.sdno[w] <= Sd(T, u)
      BY <1>8, <1>9, <1>11, <2>1, <2>2
    <3> QED BY <3>1, <3>2
  <2>3. CASE q # p
    <3>1. q \in PredsIn(T, w) \ left /\ q \in Blocks(T)
      BY <2>3 DEF PredsIn
    <3>2. /\ T.no[q] < T.no[w] => L.sdno[w] <= T.no[q]
          /\ T.no[q] > T.no[w] =>
                \A u \in Blocks(T) :
                   T.no[u] > T.no[w] /\ Anc(T, u, q) => L.sdno[w] <= Sd(T, u)
      BY <1>2, <3>1 DEF SdSoFar
    <3>3. T.no[q] < T.no[w] => S.sdno[w] <= T.no[q]
      BY <1>4, <1>8, <1>9, <3>1, <3>2
    <3>4. T.no[q] > T.no[w] =>
             \A u \in Blocks(T) : T.no[u] > T.no[w] /\ Anc(T, u, q) => S.sdno[w] <= Sd(T, u)
      BY <1>8, <1>9, <2>1, <3>2
    <3> QED BY <3>3, <3>4
  <2> QED BY <2>2, <2>3
<1>16. SdSoFar(T, S, w, left \ {p})
  BY <1>14, <1>15 DEF SdSoFar
<1>17. \A b \in Blocks(T) : b # w => S.sdno[b] = L.sdno[b]
  BY <1>1, <1>6, <1>7
<1>18. Semis(T, S, lim)
  <2>1. \A b \in Blocks(T) : T.no[b] > lim => b # w
    BY <1>2, <1>4
  <2> QED BY <1>2, <1>17, <2>1 DEF Semis
<1>19. Untouched(T, S, w)
  <2>1. \A b \in Blocks(T) : T.no[b] < T.no[w] => b # w
    BY <1>2, <1>4
  <2> QED BY <1>2, <1>17, <2>1 DEF Untouched
<1>20. Forest(T, S, lim) /\ InBuckets(T, S, lim, Null) /\ Awaited(T, S, lim, Null, {})
  <2>1. InBuckets(T, M, lim, Null) /\ Awaited(T, M, lim, Null, {})
    BY <1>2, <1>6, SameMaps
  <2> QED BY <1>6, <1>7, <2>1, SameMaps
<1>21. LookingUp(T, S, w, left \ {p})
  BY <1>2, <1>6, <1>7, <1>16, <1>18, <1>19, <1>20 DEF LookingUp
<1> QED BY <1>21 DEF S, M

\* T is the tree that the depth-first search has left.
AsNumbered(T) ==
    /\ TreeOfGraph(T) /\ T.p = parent
    /\ Len(order) \in Nat
    /\ \A b \in Blocks(T) : T.no[b] <= Len(order) /\ order[T.no[b]] = b

\* When all predecessors of w have been looked at, sdno holds its semidominator.
LEMMA SdComplete ==
    ASSUME NEW T, TreeOfGraph(T), NEW L, NEW w, LookingUp(T, L, w, {})
    PROVE  L.sdno[w] = Sd(T, w)
<1>1. DfsTree(T) /\ Blocks(T) = Nodes
  BY BlocksOfGraph
<1>2. w \in Blocks(T) /\ w # Entry /\ SdSoFar(T, L, w, {}) /\ L \in Maps
  BY DEF LookingUp
<1>3. L.sdno[w] \in Nat /\ Sd(T, w) \in Nat
  BY <1>1, <1>2, MapsFields, SdLeast
<1>4. /\ Sd(T, w) <= L.sdno[w] /\ L.sdno[w] <= T.no[w]
      /\ \A q \in PredsIn(T, w) :
            /\ T.no[q] < T.no[w] => L.sdno[w] <= T.no[q]
            /\ T.no[q] > T.no[w] =>
                  \A u \in Blocks(T) : T.no[u] > T.no[w] /\ Anc(T, u, q) => L.sdno[w] <= Sd(T, u)
  BY <1>2 DEF SdSoFar
<1>5. L.sdno[w] <= Sd(T, w)
  BY <1>1, <1>2, <1>3, <1>4, SdFromPreds
<1> QED BY <1>3, <1>4, <1>5

\* Of two children of q, the one above a block that is numbered after both is
\* the later one.
LEMMA LastChild ==
    ASSUME NEW T, DfsTree(T), NEW c \in Blocks(T), NEW w \in Blocks(T), NEW v \in Blocks(T),
           T.p[c] = T.p[w], T.p[w] \in Blocks(T), T.no[T.p[w]] < T.no[c],
           Anc(T, c, v), T.no[c] <= T.no[w], T.no[w] <= T.no[v]
    PROVE  c = w
<1>1. T.no[c] \in Nat /\ T.no[w] \in Nat /\ T.no[v] \in Nat /\ T.no[T.p[w]] \in Nat
  BY NumbersTyped
<1>2. ~(T.no[c] < T.no[w])
  BY <1>1 DEF Anc
<1> QED BY <1>1, <1>2 DEF DfsTree

\* Between a block and one below it there is a child.
LEMMA ChildToward ==
    ASSUME NEW T, DfsTree(T), NEW q \in Blocks(T), NEW v \in Blocks(T), Anc(T, q, v), q # v
    PROVE  \E c \in Blocks(T) : T.p[c] = q /\ Anc(T, c, v) /\ T.no[q] < T.no[c]
<1> DEFINE Path == {x \in Blocks(T) : Anc(T, q, x) /\ q # x /\ Anc(T, x, v)}
<1>1. v \in Path
  BY AncOrder
<1>2. PICK c \in Path : \A x \in Path : T.no[c] <= T.no[x]
  <2>1. Path \in SUBSET Blocks(T) /\ Path # {}
    BY <1>1
  <2> HIDE DEF Path
  <2> QED BY <2>1, LeastBlock
<1>3. c \in Blocks(T) /\ Anc(T, q, c) /\ q # c /\ Anc(T, c, v)
  OBVIOUS
<1>4. T.p[c] \in Blocks(T) /\ T.no[T.p[c]] < T.no[c] /\ Anc(T, T.p[c], c) /\ Anc(T, q, T.p[c])
  BY <1>3, AncUp
<1>5. Anc(T, T.p[c], v)
  BY <1>3, <1>4, AncOrder
<1>6. ~(T.no[c] <= T.no[T.p[c]])
  BY <1>3, <1>4, NumbersTyped
<1>7. T.p[c] \notin Path
  BY <1>2, <1>6
<1>8. T.p[c] = q
  BY <1>4, <1>5, <1>7
<1> QED BY <1>3, <1>4, <1>5, <1>8

\* Linking w.
LEMMA LinkedForest ==
    ASSUME NEW T, DfsTree(T), NEW L, NEW S, NEW w \in Blocks(T) \ {Entry},
           Forest(T, L, T.no[w]), S.label = L.label,
           S.anc[w] = T.p[w], \A b \in Blocks(T) \ {w} : S.anc[b] = L.anc[b]
    PROVE  Forest(T, S, T.no[w] - 1)
<1> DEFINE lim == T.no[w]
<1>1. \A b \in Blocks(T) : T.no[b] \in Nat
  BY NumbersTyped
<1>2. L.label[w] = w
  BY <1>1 DEF Forest
<1>3. T.p[w] \in Blocks(T) /\ Anc(T, T.p[w], w) /\ T.no[T.p[w]] < T.no[w]
  BY DEF DfsTree
<1>4. ASSUME NEW u \in Blocks(T), Anc(T, u, w), T.no[u] > T.no[T.p[w]] PROVE u = w
  <2> SUFFICES ASSUME u # w PROVE FALSE
    OBVIOUS
  <2>1. Anc(T, u, T.p[w])
    BY <1>4, AncUp
  <2>2. T.no[u] <= T.no[T.p[w]]
    BY <2>1, <1>3, AncOrder
  <2> QED BY <1>1, <1>3, <1>4, <2>2
<1>5. Sd(T, w) \in Nat
  BY SdLeast
<1>6. ASSUME NEW b \in Blocks(T)
      PROVE  /\ T.no[b] <= lim - 1 => S.anc[b] = Null /\ S.label[b] = b
             /\ T.no[b] > lim - 1 =>
                   /\ S.anc[b] \in Blocks(T) /\ Anc(T, S.anc[b], b) /\ T.no[S.anc[b]] < T.no[b]
                   /\ Anc(T, S.label[b], b) /\ T.no[S.label[b]] > T.no[S.anc[b]]
                   /\ \A u \in Blocks(T) :
                         Anc(T, u, b) /\ T.no[u] > T.no[S.anc[b]] =>
                            T.no[u] > lim - 1 /\ Sd(T, S.label[b]) <= Sd(T, u)
  <2>1. CASE b = w
    <3>1. S.anc[b] = T.p[w] /\ S.label[b] = w /\ ~(T.no[b] <= lim - 1)
      BY <1>1, <1>2, <2>1
    <3>2. Anc(T, w, w)
      BY AncOrder
    <3>3. \A u \in Blocks(T) : Anc(T, u, b) /\ T.no[u] > T.no[S.anc[b]] =>
             T.no[u] > lim - 1 /\ Sd(T, S.label[b]) <= Sd(T, u)
      BY <1>1, <1>4, <1>5, <2>1, <3>1
    <3> QED BY <1>1, <1>3, <2>1, <3>1, <3>2, <3>3
  <2>2. CASE b # w
    <3>1. S.anc[b] = L.anc[b] /\ S.label[b] = L.label[b]
      BY <2>2
    <3>2. T.no[b] <= lim - 1 => T.no[b] <= lim
      BY <1>1
    <3>3. T.no[b] > lim - 1 => T.no[b] > lim
      <4>1. T.no[b] # T.no[w]
        BY <2>2 DEF DfsTree
      <4> QED BY <1>1, <4>1
    <3>4. \A u \in Blocks(T) : T.no[u] > lim => T.no[u] > lim - 1
      BY <1>1
    <3> QED BY <3>1, <3>2, <3>3, <3>4 DEF Forest
  <2> QED BY <2>1, <2>2
<1> QED BY <1>6 DEF Forest

LEMMA LinkedStep ==
    ASSUME NEW T, AsNumbered(T), NEW L, NEW w, LookingUp(T, L, w, {})
    PROVE  Settling(T, Linked(L, w), w, Linked(L, w).bucket[T.p[w]])
<1> DEFINE S == Linked(L, w)
           lim == T.no[w]
           q0 == T.p[w]
<1>1. DfsTree(T) /\ Blocks(T) = Nodes /\ TreeOfGraph(T) /\ T.p = parent
  BY BlocksOfGraph DEF AsNumbered
<1>2. /\ L \in Maps /\ L.idom[Entry] = Null /\ w \in Blocks(T) \ {Entry}
      /\ Forest(T, L, lim) /\ Semis(T, L, lim) /\ Untouched(T, L, w)
      /\ InBuckets(T, L, lim, Null) /\ Awaited(T, L, lim, Null, {})
  BY DEF LookingUp
<1>3. \A b \in Blocks(T) : T.no[b] \in Nat
  BY <1>1, NumbersTyped
<1>4. L.sdno[w] = Sd(T, w)
  BY <1>1, SdComplete
<1>5. PICK s \in Blocks(T) : T.no[s] = Sd(T, w) /\ Anc(T, s, w) /\ s # w
  BY <1>1, <1>2, SdBlock
<1>6. order[L.sdno[w]] = s
  BY <1>4, <1>5 DEF AsNumbered
<1>7. q0 \in Blocks(T) /\ T.no[q0] < T.no[w]
  BY <1>1, <1>2 DEF DfsTree
<1>8. /\ S \in Maps /\ S.sdno = L.sdno /\ S.label = L.label /\ S.idom = L.idom
      /\ S.anc[w] = parent[w] /\ \A b \in Nodes \ {w} : S.anc[b] = L.anc[b]
      /\ \A v : v \in S.bucket[s] <=> v \in L.bucket[s] \/ v = w
      /\ \A b \in Nodes \ {s} : S.bucket[b] = L.bucket[b]
  <2>1. w \in Nodes /\ s \in Nodes /\ parent[w] \in Nodes
    BY <1>1, <1>2, <1>7
  <2>2. L \in Maps /\ order[L.sdno[w]] = s
    BY <1>2, <1>6
  <2> HIDE DEF S, q0, lim
  <2>3. Linked(L, w) \in Maps /\ Linked(L, w).sdno = L.sdno /\ Linked(L, w).label = L.label
        /\ Linked(L, w).idom = L.idom
    BY ONLY <2>1, <2>2, LinkedFields
  <2>4. Linked(L, w).anc[w] = parent[w] /\ \A b \in Nodes \ {w} : Linked(L, w).anc[b] = L.anc[b]
    BY ONLY <2>1, <2>2, LinkedFields
  <2>5. \A v : v \in Linked(L, w).bucket[s] <=> v \in L.bucket[s] \/ v = w
    BY ONLY <2>1, <2>2, LinkedFields
  <2>6. \A b \in Nodes \ {s} : Linked(L, w).bucket[b] = L.bucket[b]
    BY ONLY <2>1, <2>2, LinkedFields
  <2> QED BY ONLY <2>3, <2>4, <2>5, <2>6 DEF S
<1> HIDE DEF S
<1>9. Forest(T, S, lim - 1)
  BY <1>1, <1>2, <1>8, LinkedForest
<1>10. \A b \in Blocks(T) : T.no[b] > lim - 1 => b = w \/ T.no[b] > lim
  <2>1. \A b \in Blocks(T) : T.no[b] = T.no[w] => b = w
    BY <1>1, <1>2 DEF DfsTree
  <2> QED BY <1>2, <1>3, <2>1
<1>11. Semis(T, S, lim - 1)
  BY <1>2, <1>4, <1>8, <1>10 DEF Semis
<1>12. Untouched(T, S, w)
  BY <1>2, <1>8 DEF Untouched
<1>13. \A q \in Blocks(T) : \A v \in S.bucket[q] : v \in L.bucket[q] \/ (v = w /\ q = s)
  BY <1>1, <1>8
<1>14. \A q \in Blocks(T) : L.bucket[q] \subseteq S.bucket[q]
  BY <1>1, <1>8
<1>15. ASSUME NEW q \in Blocks(T), NEW v \in L.bucket[q]
       PROVE  /\ v \in Blocks(T) /\ T.no[v] > lim /\ T.no[q] = Sd(T, v)
              /\ \A c \in Blocks(T) : T.no[c] > lim /\ T.p[c] = q => ~Anc(T, c, v)
  <2>1. q # Null
    BY <1>1, GraphsAssumption DEF TreeOfGraph, Nodes
  <2> QED BY <1>2, <2>1 DEF InBuckets
<1>16. InBuckets(T, S, lim - 1, q0)
  <2> SUFFICES ASSUME NEW q \in Blocks(T), NEW v \in S.bucket[q]
               PROVE  /\ v \in Blocks(T) /\ T.no[v] > lim - 1 /\ T.no[q] = Sd(T, v)
                      /\ q # q0 => \A c \in Blocks(T) :
                                      T.no[c] > lim - 1 /\ T.p[c] = q => ~Anc(T, c, v)
    BY DEF InBuckets
  <2>1. CASE v \in L.bucket[q]
    <3>1. /\ v \in Blocks(T) /\ T.no[v] > lim /\ T.no[q] = Sd(T, v)
          /\ \A c \in Blocks(T) : T.no[c] > lim /\ T.p[c] = q => ~Anc(T, c, v)
      BY <1>15, <2>1
    <3>2. T.no[v] > lim - 1
      BY <1>2, <1>3, <3>1
    <3> QED BY <1>10, <3>1, <3>2
  <2>2. CASE v = w /\ q = s
    <3>1. ASSUME NEW c \in Blocks(T), T.no[c] > lim - 1, Anc(T, c, w) PROVE c = w
      <4>1. T.no[c] <= lim
        BY <1>1, <1>2, <3>1, AncOrder
      <4> QED BY <1>2, <1>3, <1>10, <3>1, <4>1
    <3>2. T.no[w] > lim - 1
      BY <1>2, <1>3
    <3> QED BY <1>2, <1>5, <2>2, <3>1, <3>2
  <2> QED BY <1>13, <2>1, <2>2
<1>17. Awaited(T, S, lim - 1, q0, S.bucket[q0])
  <2> SUFFICES ASSUME NEW v \in Blocks(T), T.no[v] > lim - 1
               PROVE  \/ \E q \in Blocks(T) : v \in S.bucket[q] /\ (q = q0 => v \in S.bucket[q0])
                      \/ DomFound(T, v, S.idom[v])
    BY DEF Awaited
  <2>1. CASE v = w
    BY <1>5, <1>8, <2>1
  <2>2. CASE v # w
    <3>1. T.no[v] > lim
      BY <1>10, <2>2
    <3>2. (\E q \in Blocks(T) : v \in L.bucket[q]) \/ DomFound(T, v, L.idom[v])
      BY <1>2, <3>1 DEF Awaited
    <3> QED BY <1>8, <1>14, <3>2
  <2> QED BY <2>1, <2>2
<1>18. ASSUME NEW v \in S.bucket[q0] PROVE Anc(T, w, v)
  <2>1. CASE v = w
    BY <1>1, <1>2, <2>1, AncOrder
  <2>2. CASE v # w
    <3>1. v \in L.bucket[q0]
      BY <1>7, <1>13, <2>2
    <3>2. /\ v \in Blocks(T) /\ T.no[v] > lim /\ T.no[q0] = Sd(T, v)
          /\ \A c \in Blocks(T) : T.no[c] > lim /\ T.p[c] = q0 => ~Anc(T, c, v)
      BY <1>7, <1>15, <3>1
    <3>3. v # Entry
      BY <1>1, <1>2, <1>3, <3>2 DEF DfsTree
    <3>4. Anc(T, q0, v) /\ q0 # v
      BY <1>1, <1>7, <3>2, <3>3, SdBlock DEF DfsTree
    <3>5. PICK c \in Blocks(T) : T.p[c] = q0 /\ Anc(T, c, v) /\ T.no[q0] < T.no[c]
      BY <1>1, <1>7, <3>2, <3>4, ChildToward
    <3>6. T.no[c] <= lim /\ lim <= T.no[v]
      BY <1>2, <1>3, <3>2, <3>5
    <3>7. c = w
      BY <1>1, <1>2, <1>7, <3>2, <3>5, <3>6, LastChild
    <3> QED BY <3>5, <3>7
  <2> QED BY <2>1, <2>2
<1>19. Settling(T, S, w, S.bucket[q0])
  BY <1>2, <1>8, <1>9, <1>11, <1>12, <1>16, <1>17, <1>18 DEF Settling
<1> QED BY <1>19 DEF S

LEMMA SettledStep ==
    ASSUME NEW T, AsNumbered(T), NEW L, NEW w, NEW left, Settling(T, L, w, left), NEW v \in left
    PROVE  Settling(T, Settled(Eval(L, v), T.p[w], v), w, left \ {v})
<1> DEFINE M == Eval(L, v)
           q0 == T.p[w]
           S == Settled(M, q0, v)
           lim == T.no[w] - 1
           l == M.label[v]
<1>1. DfsTree(T) /\ Blocks(T) = Nodes /\ TreeOfGraph(T)
      /\ Len(order) \in Nat /\ \A b \in Blocks(T) : T.no[b] <= Len(order)
  BY BlocksOfGraph DEF AsNumbered
<1>2. /\ L \in Maps /\ L.idom[Entry] = Null /\ w \in Blocks(T) /\ w # Entry
      /\ Forest(T, L, lim) /\ Semis(T, L, lim) /\ Untouched(T, L, w)
      /\ InBuckets(T, L, lim, q0) /\ Awaited(T, L, lim, q0, left)
      /\ left \subseteq L.bucket[q0]
      /\ \A x \in L.bucket[q0] : Anc(T, w, x)
  BY DEF Settling
<1>3. q0 \in Blocks(T) /\ T.no[q0] < T.no[w]
  BY <1>1, <1>2 DEF DfsTree
<1>4. v \in Blocks(T) /\ T.no[v] > lim /\ T.no[q0] = Sd(T, v) /\ Anc(T, w, v)
  BY <1>2, <1>3 DEF InBuckets
<1>5. (\A b \in Blocks(T) : T.no[b] \in Nat) /\ lim \in Nat
  <2>1. \A b \in Blocks(T) : T.no[b] \in Nat /\ T.no[b] # 0
    BY <1>1, NumbersTyped
  <2> QED BY <1>2, <2>1
<1>6. Evaled(T, L, M, lim, v)
  <2> HIDE DEF M, lim
  <2>1. v \in Nodes
    BY <1>1, <1>4
  <2> QED BY <1>1, <1>2, <1>5, <2>1, EvalLeaves DEF M
<1> HIDE DEF M
<1>7. /\ M \in Maps /\ Forest(T, M, lim)
      /\ M.sdno = L.sdno /\ M.bucket = L.bucket /\ M.idom = L.idom
      /\ T.no[M.anc[v]] <= lim
  BY <1>4, <1>6 DEF Evaled
<1>8. /\ M.anc[v] \in Blocks(T) /\ Anc(T, M.anc[v], v)
      /\ l \in Blocks(T) /\ Anc(T, l, v) /\ T.no[l] > T.no[M.anc[v]]
      /\ \A u \in Blocks(T) : Anc(T, u, v) /\ T.no[u] > T.no[M.anc[v]] =>
            T.no[u] > lim /\ Sd(T, l) <= Sd(T, u)
  <2>1. l \in Blocks(T)
    BY <1>1, <1>4, <1>7, MapsFields
  <2> QED BY <1>4, <1>7, <2>1 DEF Forest
<1> HIDE DEF l
<1>9. T.no[l] > lim
  BY <1>8
<1>10. L.sdno[l] = Sd(T, l) /\ L.sdno[v] = Sd(T, v)
  BY <1>2, <1>4, <1>8, <1>9 DEF Semis
<1>11. T.no[M.anc[v]] <= T.no[q0]
  <2>1. T.no[M.anc[v]] <= T.no[w] /\ M.anc[v] # w
    BY <1>2, <1>5, <1>7, <1>8
  <2>2. Anc(T, M.anc[v], w)
    BY <1>1, <1>2, <1>4, <1>8, <2>1, AncOrder
  <2>3. Anc(T, M.anc[v], q0)
    BY <1>1, <1>2, <1>8, <2>1, <2>2, AncUp
  <2> QED BY <1>1, <1>3, <1>8, <2>3, AncOrder
<1>12. v # Entry /\ l # Entry
  <2>1. T.no[Entry] <= T.no[q0] /\ T.no[Entry] \in Nat
    BY <1>1, <1>3, <1>5 DEF DfsTree
  <2> QED BY <1>2, <1>3, <1>4, <1>5, <1>9, <2>1
<1>13. l \in BelowSd(T, v)
  <2>1. T.no[l] > Sd(T, v)
    BY <1>2, <1>3, <1>4, <1>5, <1>8, <1>9
  <2> QED BY <1>8, <2>1 DEF BelowSd
<1>14. \A u \in BelowSd(T, v) : Sd(T, l) <= Sd(T, u) /\ u \in Blocks(T) /\ Sd(T, u) \in Nat
  <2> SUFFICES ASSUME NEW u \in BelowSd(T, v)
               PROVE  Sd(T, l) <= Sd(T, u) /\ u \in Blocks(T) /\ Sd(T, u) \in Nat
    OBVIOUS
  <2>1. u \in Blocks(T) /\ T.no[u] > T.no[q0] /\ Anc(T, u, v)
    BY <1>4 DEF BelowSd
  <2>2. T.no[u] > T.no[M.anc[v]]
    BY <1>3, <1>5, <1>8, <1>11, <2>1
  <2>3. u # Entry
    BY <1>1, <1>3, <1>5, <2>1 DEF DfsTree
  <2> QED BY <1>1, <1>8, <2>1, <2>2, <2>3, SdLeast
<1>15. Sd(T, l) \in Nat /\ Sd(T, v) \in Nat
  BY <1>1, <1>4, <1>8, <1>12, SdLeast
<1>16. /\ S \in Maps /\ S.sdno = M.sdno /\ S.anc = M.anc /\ S.label = M.label
       /\ S.bucket = M.bucket
       /\ S.idom[v] = IF M.sdno[l] < M.sdno[v] THEN l ELSE q0
       /\ \A b \in Nodes \ {v} : S.idom[b] = M.idom[b]
  <2>1. q0 \in Nodes /\ v \in Nodes
    BY <1>1, <1>3, <1>4
  <2> HIDE DEF q0
  <2> QED BY <1>7, <2>1, SettledFields DEF l
<1> HIDE DEF S
<1>17. DomFound(T, v, S.idom[v])
  <2>1. CASE Sd(T, l) < Sd(T, v)
    <3>1. S.idom[v] = l
      BY <1>7, <1>10, <1>16, <2>1
    <3> QED BY <1>13, <1>14, <2>1, <3>1 DEF DomFound
  <2>2. CASE ~(Sd(T, l) < Sd(T, v))
    <3>1. S.idom[v] = q0
      BY <1>7, <1>10, <1>16, <2>2
    <3>2. \A u \in BelowSd(T, v) : Sd(T, u) >= Sd(T, v)
      BY <1>14, <1>15, <2>2
    <3> QED BY <1>3, <1>4, <3>1, <3>2 DEF DomFound
  <2> QED BY <2>1, <2>2
<1>18. S.idom[Entry] = Null
  <2>1. Entry \in Nodes
    BY <1>1 DEF DfsTree
  <2> QED BY <1>2, <1>7, <1>12, <1>16, <2>1
<1>19. Awaited(T, S, lim, q0, left \ {v})
  <2> SUFFICES ASSUME NEW x \in Blocks(T), T.no[x] > lim
               PROVE  \/ \E q \in Blocks(T) : x \in S.bucket[q] /\ (q = q0 => x \in left \ {v})
                      \/ DomFound(T, x, S.idom[x])
    BY DEF Awaited
  <2>1. CASE x = v
    BY <1>17, <2>1
  <2>2. CASE x # v
    <3>1. S.idom[x] = L.idom[x]
      BY <1>1, <1>7, <1>16, <2>2
    <3>2. \/ \E q \in Blocks(T) : x \in L.bucket[q] /\ (q = q0 => x \in left)
          \/ DomFound(T, x, L.idom[x])
      BY <1>2 DEF Awaited
    <3> QED BY <1>7, <1>16, <2>2, <3>1, <3>2
  <2> QED BY <2>1, <2>2
<1>20. Forest(T, S, lim) /\ Semis(T, S, lim) /\ InBuckets(T, S, lim, q0)
  <2>1. Semis(T, M, lim) /\ InBuckets(T, M, lim, q0)
    BY <1>2, <1>7, SameMaps
  <2> QED BY <1>7, <1>16, <2>1, SameMaps
<1>21. Untouched(T, S, w)
  BY <1>2, <1>7, <1>16 DEF Untouched
<1>22. left \ {v} \subseteq S.bucket[q0] /\ \A x \in S.bucket[q0] : Anc(T, w, x)
  BY <1>2, <1>7, <1>16
<1>23. Settling(T, S, w, left \ {v})
  BY <1>2, <1>16, <1>18, <1>19, <1>20, <1>21, <1>22 DEF Settling
<1> QED BY <1>23 DEF S, M

\* The next block.
LEMMA EmptiedNext ==
    ASSUME NEW T, AsNumbered(T), NEW L, NEW w, Settling(T, L, w, {}),
           NEW x \in Blocks(T), T.no[x] = T.no[w] - 1, x # Entry
    PROVE  LookingUp(T, Emptied(L, T.p[w]), x, PredsIn(T, x))
<1> DEFINE q0 == T.p[w]
           S == Emptied(L, q0)
           lim == T.no[x]
<1>1. DfsTree(T) /\ Blocks(T) = Nodes /\ TreeOfGraph(T)
  BY BlocksOfGraph DEF AsNumbered
<1>2. /\ L \in Maps /\ L.idom[Entry] = Null /\ w \in Blocks(T) /\ w # Entry
      /\ Forest(T, L, lim) /\ Semis(T, L, lim) /\ Untouched(T, L, w)
      /\ InBuckets(T, L, lim, q0) /\ Awaited(T, L, lim, q0, {})
  BY DEF Settling
<1>3. q0 \in Nodes /\ \A b \in Blocks(T) : T.no[b] \in Nat
  BY <1>1, <1>2, NumbersTyped DEF DfsTree
<1>4. /\ S \in Maps /\ S.sdno = L.sdno /\ S.anc = L.anc /\ S.label = L.label
      /\ S.idom = L.idom /\ S.bucket[q0] = {}
      /\ \A b \in Nodes \ {q0} : S.bucket[b] = L.bucket[b]
  <2> HIDE DEF q0
  <2> QED BY <1>2, <1>3, EmptiedFields
<1> HIDE DEF S, q0
<1>5. Forest(T, S, lim) /\ Semis(T, S, lim)
  BY <1>2, <1>4, SameMaps
<1>6. Untouched(T, S, x)
  <2>1. \A b \in Blocks(T) : T.no[b] < T.no[x] => T.no[b] < T.no[w]
    BY <1>2, <1>3
  <2> QED BY <1>2, <1>4, <2>1 DEF Untouched
<1>7. InBuckets(T, S, lim, Null)
  BY <1>1, <1>2, <1>4 DEF InBuckets
<1>8. Awaited(T, S, lim, Null, {})
  <2> SUFFICES ASSUME NEW v \in Blocks(T), T.no[v] > lim
               PROVE  \/ \E q \in Blocks(T) : v \in S.bucket[q] /\ (q = Null => v \in {})
                      \/ DomFound(T, v, S.idom[v])
    BY DEF Awaited
  <2>1. Null \notin Blocks(T)
    BY <1>1, GraphsAssumption DEF TreeOfGraph, Nodes
  <2>2. \/ \E q \in Blocks(T) : v \in L.bucket[q] /\ (q = q0 => v \in {})
        \/ DomFound(T, v, L.idom[v])
    BY <1>2 DEF Awaited
  <2> QED BY <1>1, <1>4, <2>1, <2>2
<1>9. SdSoFar(T, S, x, PredsIn(T, x))
  <2>1. S.sdno[x] = T.no[x]
    <3>1. T.no[x] < T.no[w]
      BY <1>2, <1>3
    <3> QED BY <1>2, <1>4, <3>1 DEF Untouched
  <2>2. Sd(T, x) < T.no[x] /\ Sd(T, x) \in Nat
    BY <1>1, SdLeast
  <2> QED BY <1>3, <2>1, <2>2 DEF SdSoFar
<1>10. LookingUp(T, S, x, PredsIn(T, x))
  BY <1>2, <1>4, <1>5, <1>6, <1>7, <1>8, <1>9 DEF LookingUp
<1> QED BY <1>10 DEF S, q0

\* The last loop: blocks before number k have their immediate dominators.
Deferring(T, L, k) ==
    /\ L \in Maps /\ L.idom[Entry] = Null
    /\ \A b \in Blocks(T) \ {Entry} :
          /\ L.sdno[b] = Sd(T, b)
          /\ IF T.no[b] < k THEN Imm(L.idom[b], b) ELSE DomFound(T, b, L.idom[b])

LEMMA EmptiedLast ==
    ASSUME NEW T, AsNumbered(T), NEW L, NEW w, Settling(T, L, w, {}),
           T.no[Entry] = T.no[w] - 1, NEW k, \A b \in Blocks(T) \ {Entry} : ~(T.no[b] < k)
    PROVE  Deferring(T, Emptied(L, T.p[w]), k)
<1> DEFINE q0 == T.p[w]
           S == Emptied(L, q0)
           lim == T.no[Entry]
<1>1. DfsTree(T) /\ Blocks(T) = Nodes /\ TreeOfGraph(T)
  BY BlocksOfGraph DEF AsNumbered
<1>2. /\ L \in Maps /\ L.idom[Entry] = Null /\ w \in Blocks(T) /\ w # Entry
      /\ Semis(T, L, lim)
      /\ InBuckets(T, L, lim, q0) /\ Awaited(T, L, lim, q0, {})
  BY DEF Settling
<1>3. q0 \in Nodes /\ \A b \in Blocks(T) : T.no[b] \in Nat
  BY <1>1, <1>2, NumbersTyped DEF DfsTree
<1>4. S \in Maps /\ S.sdno = L.sdno /\ S.idom = L.idom
  <2> HIDE DEF q0
  <2> QED BY <1>2, <1>3, EmptiedFields
<1> HIDE DEF S, q0
<1>5. ASSUME NEW b \in Blocks(T) \ {Entry}
      PROVE  /\ L.sdno[b] = Sd(T, b)
             /\ DomFound(T, b, L.idom[b])
  <2>1. T.no[b] > lim
    <3>1. lim <= T.no[b] /\ lim # T.no[b] /\ lim \in Nat /\ T.no[b] \in Nat
      BY <1>1, <1>3 DEF DfsTree
    <3> QED BY <3>1
  <2>2. L.sdno[b] = Sd(T, b)
    BY <1>2, <2>1 DEF Semis
  <2>3. ASSUME NEW q \in Blocks(T), b \in L.bucket[q], q # q0 PROVE FALSE
    <3>1. T.no[q] = Sd(T, b) /\ \A c \in Blocks(T) : T.no[c] > lim /\ T.p[c] = q => ~Anc(T, c, b)
      BY <1>2, <2>3 DEF InBuckets
    <3>2. Anc(T, q, b) /\ q # b
      BY <1>1, <3>1, SdBlock DEF DfsTree
    <3>3. PICK c \in Blocks(T) : T.p[c] = q /\ Anc(T, c, b) /\ T.no[q] < T.no[c]
      BY <1>1, <3>2, ChildToward
    <3>4. lim <= T.no[q] /\ T.no[c] \in Nat /\ T.no[q] \in Nat /\ lim \in Nat
      BY <1>1, <1>3 DEF DfsTree
    <3>5. T.no[c] > lim
      BY <3>3, <3>4
    <3> QED BY <3>1, <3>3, <3>5
  <2>4. \/ \E q \in Blocks(T) : b \in L.bucket[q] /\ (q = q0 => b \in {})
        \/ DomFound(T, b, L.idom[b])
    BY <1>2, <2>1 DEF Awaited
  <2> QED BY <2>2, <2>3, <2>4
<1>6. Deferring(T, S, k)
  BY <1>2, <1>4, <1>5 DEF Deferring
<1> QED BY <1>6 DEF S, q0

LEMMA StartedStep ==
    ASSUME NEW T, TreeOfGraph(T), T.no = [b \in Nodes |-> Num(b)],
           NEW w \in Blocks(T) \ {Entry}, \A b \in Blocks(T) : T.no[b] <= T.no[w]
    PROVE  LookingUp(T, Started, w, PredsIn(T, w))
<1> DEFINE S == Started
           lim == T.no[w]
<1>1. DfsTree(T) /\ Blocks(T) = Nodes
  BY BlocksOfGraph
<1>2. \A b \in Blocks(T) : T.no[b] \in Nat /\ ~(T.no[b] > lim)
  BY <1>1, NumbersTyped
<1>3. S = [ sdno |-> T.no, anc |-> [b \in Nodes |-> Null], label |-> [b \in Nodes |-> b],
            bucket |-> [b \in Nodes |-> {}], idom |-> [b \in Nodes |-> Null] ]
  <2>1. S = [Unstarted EXCEPT !.sdno = T.no]
    BY DEF Started
  <2> DEFINE zero == [b \in Nodes |-> 0]
             none == [b \in Nodes |-> Null]
             self == [b \in Nodes |-> b]
             empty == [b \in Nodes |-> {}]
  <2>2. Unstarted = [sdno |-> zero, anc |-> none, label |-> self, bucket |-> empty, idom |-> none]
    BY DEF Unstarted
  <2> HIDE DEF S, zero, none, self, empty
  <2>3. S = [sdno |-> T.no, anc |-> none, label |-> self, bucket |-> empty, idom |-> none]
    BY <2>1, <2>2
  <2> QED BY <2>3 DEF none, self, empty
<1>4. T.no \in [Nodes -> Nat]
  BY <1>1, <1>2 DEF DfsTree
<1> HIDE DEF S
<1>5. S \in Maps
  BY <1>3, <1>4 DEF Maps
<1>6. \A b \in Nodes : /\ S.sdno[b] = T.no[b] /\ S.anc[b] = Null /\ S.label[b] = b
                       /\ S.bucket[b] = {} /\ S.idom[b] = Null
  BY <1>3
<1>7. Forest(T, S, lim) /\ Semis(T, S, lim) /\ Untouched(T, S, w)
  BY <1>1, <1>2, <1>6 DEF Forest, Semis, Untouched
<1>8. InBuckets(T, S, lim, Null) /\ Awaited(T, S, lim, Null, {})
  BY <1>1, <1>2, <1>6 DEF InBuckets, Awaited
<1>9. SdSoFar(T, S, w, PredsIn(T, w))
  <2>1. Sd(T, w) < T.no[w] /\ Sd(T, w) \in Nat
    BY <1>1, SdLeast
  <2> QED BY <1>1, <1>2, <1>6, <2>1 DEF SdSoFar
<1>10. S.idom[Entry] = Null
  BY <1>1, <1>6 DEF DfsTree
<1>11. LookingUp(T, S, w, PredsIn(T, w))
  BY <1>5, <1>7, <1>8, <1>9, <1>10 DEF LookingUp
<1> QED BY <1>11 DEF S

\* The last loop settles the immediate dominator of w.
LEMMA DeferredImm ==
    ASSUME NEW T, AsNumbered(T), NEW L, NEW k, Deferring(T, L, k),
           NEW w \in Blocks(T) \ {Entry}, T.no[w] = k
    PROVE  Imm(IF L.idom[w] = order[L.sdno[w]] THEN L.idom[w] ELSE L.idom[L.idom[w]], w)
<1> DEFINE d == L.idom[w]
<1>1. DfsTree(T) /\ Blocks(T) = Nodes /\ TreeOfGraph(T)
  BY BlocksOfGraph DEF AsNumbered
<1>2. \A b \in Blocks(T) : T.no[b] \in Nat
  BY <1>1, NumbersTyped
<1>3. L.sdno[w] = Sd(T, w) /\ DomFound(T, w, d)
  BY <1>2 DEF Deferring
<1>4. PICK s \in Blocks(T) : T.no[s] = Sd(T, w) /\ Anc(T, s, w) /\ s # w
  BY <1>1, SdBlock
<1>5. order[L.sdno[w]] = s
  BY <1>3, <1>4 DEF AsNumbered
<1> HIDE DEF d
<1>6. CASE d \in Blocks(T) /\ T.no[d] = Sd(T, w) /\ \A u \in BelowSd(T, w) : Sd(T, u) >= Sd(T, w)
  <2>1. d = s
    BY <1>1, <1>4, <1>6 DEF DfsTree
  <2>2. Imm(s, w)
    BY <1>1, <1>4, <1>6, SemidominatorIsImm
  <2> QED BY <1>5, <2>1, <2>2 DEF d
<1>7. CASE /\ d \in BelowSd(T, w) /\ Sd(T, d) < Sd(T, w)
           /\ \A u \in BelowSd(T, w) : Sd(T, d) <= Sd(T, u)
  <2>1. d \in Blocks(T) /\ T.no[d] > T.no[s] /\ Anc(T, d, w)
    BY <1>4, <1>7 DEF BelowSd
  <2>2. d # s /\ d # Entry
    BY <1>1, <1>2, <1>4, <2>1 DEF DfsTree
  <2>3. d # w
    BY <1>1, <1>2, <1>4, <1>7
  <2>4. T.no[d] < k
    <3>1. T.no[d] <= T.no[w]
      BY <1>1, <2>1, AncOrder
    <3>2. T.no[d] # T.no[w]
      BY <1>1, <2>1, <2>3 DEF DfsTree
    <3> QED BY <1>2, <2>1, <3>1, <3>2
  <2>5. Imm(L.idom[d], d)
    BY <2>1, <2>2, <2>4 DEF Deferring
  <2>6. Imm(L.idom[d], w)
    BY <1>1, <1>7, <2>5, EarliestHasImm
  <2> QED BY <1>5, <2>2, <2>6 DEF d
<1> QED BY <1>3, <1>6, <1>7 DEF DomFound

LEMMA DeferStep ==
    ASSUME NEW T, AsNumbered(T), NEW L, NEW k \in Nat, Deferring(T, L, k),
           NEW w \in Blocks(T) \ {Entry}, T.no[w] = k, NEW d, Imm(d, w),
           NEW S, S = [L EXCEPT !.idom[w] = d]
    PROVE  Deferring(T, S, k + 1)
<1>1. DfsTree(T) /\ Blocks(T) = Nodes /\ L \in Maps /\ d \in Nodes
  BY BlocksOfGraph DEF AsNumbered, Deferring, Imm
<1>2. S = [sdno |-> L.sdno, anc |-> L.anc, label |-> L.label,
           bucket |-> L.bucket, idom |-> [L.idom EXCEPT ![w] = d]]
  BY <1>1, MapsFields
<1>3. [L.idom EXCEPT ![w] = d] \in [Nodes -> Nodes \cup {Null}]
  BY <1>1, MapsFields
<1>4. S \in Maps
  BY <1>1, <1>2, <1>3, MapsFields DEF Maps
<1>5. S.sdno = L.sdno /\ S.idom[w] = d /\ \A b \in Nodes : b # w => S.idom[b] = L.idom[b]
  BY <1>1, <1>2, MapsFields
<1>6. S.idom[Entry] = Null
  BY <1>1, <1>5 DEF Deferring, DfsTree
<1>7. ASSUME NEW b \in Blocks(T) \ {Entry}
      PROVE  /\ S.sdno[b] = Sd(T, b)
             /\ IF T.no[b] < k + 1 THEN Imm(S.idom[b], b) ELSE DomFound(T, b, S.idom[b])
  <2>1. T.no[b] \in Nat /\ (b # w => T.no[b] # k)
    BY <1>1, NumbersTyped DEF DfsTree
  <2>2. CASE b = w
    BY <1>5, <2>1, <2>2 DEF Deferring
  <2>3. CASE b # w
    <3>1. S.idom[b] = L.idom[b] /\ (T.no[b] < k + 1 <=> T.no[b] < k)
      BY <1>1, <1>5, <2>1, <2>3
    <3> QED BY <1>5, <3>1 DEF Deferring
  <2> QED BY <2>2, <2>3
<1>8. Deferring(T, S, k + 1)
  BY <1>4, <1>6, <1>7 DEF Deferring
<1> QED BY <1>8

LEMMA DeferEnd ==
    ASSUME NEW T, AsNumbered(T), NEW L, NEW k \in Nat, k > Len(order), Deferring(T, L, k)
    PROVE  /\ L.idom \in [Nodes -> Nodes \cup {Null}] /\ L.idom[Entry] = Null
           /\ \A b \in Nodes \ {Entry} : Imm(L.idom[b], b)
<1>1. DfsTree(T) /\ Blocks(T) = Nodes /\ Len(order) \in Nat
      /\ \A b \in Blocks(T) : T.no[b] <= Len(order)
  BY BlocksOfGraph DEF AsNumbered
<1>2. \A b \in Blocks(T) : T.no[b] < k
  BY <1>1, NumbersTyped
<1>3. L \in Maps /\ L.idom[Entry] = Null
  BY DEF Deferring
<1>4. \A b \in Nodes \ {Entry} : Imm(L.idom[b], b)
  BY <1>1, <1>2 DEF Deferring
<1> QED BY <1>3, <1>4, MapsFields

-----------------------------------------------------------------------------
(***************************************************************************)
(* The depth-first search, by places in order.  The block at place i is an *)
(* ancestor of the one at j when the parents of the blocks after i, up to  *)
(* j, are at i or after it.  A block on the stack is an ancestor of all    *)
(* that are numbered after it, and a block that has left the stack of its  *)
(* successors that are.                                                    *)
(***************************************************************************)
OnStack(b) == \E i \in DOMAIN stack : stack[i] = b

ParentFrom(k, l) == \E j \in l..(k - 1) : order[j] = parent[order[k]]

AncPlace(i, j) == \A k \in (i + 1)..j : ParentFrom(k, i)

ParentsBefore ==
    \A k \in 2..Len(order) : \E l \in 1..(k - 1) :
       order[l] = parent[order[k]] /\ order[k] \in succs[order[l]] /\ AncPlace(l, k)

StackSorted ==
    \A i, j \in DOMAIN stack : \A k, l \in 1..Len(order) :
       i < j /\ order[k] = stack[i] /\ order[l] = stack[j] => l < k

SearchSound ==
    /\ parent \in [Nodes -> Nodes \cup {Null}] /\ parent[Entry] = Null
    /\ ParentsBefore
    /\ StackSorted
    /\ \A l \in 1..Len(order) : OnStack(order[l]) => AncPlace(l, Len(order))
    /\ \A l, k \in 1..Len(order) :
          l < k /\ ~OnStack(order[l]) /\ order[k] \in succs[order[l]] => AncPlace(l, k)

LEMMA SearchInit == Init => SearchSound
<1> SUFFICES ASSUME Init PROVE SearchSound
  OBVIOUS
<1>1. /\ order = <<Entry>> /\ stack = <<Entry>> /\ parent = [b \in Nodes |-> Null]
      /\ Len(order) = 1 /\ Entry \in Nodes
  BY GraphsAssumption DEF Init, Nodes
<1>2. ParentsBefore /\ StackSorted
  BY <1>1 DEF ParentsBefore, StackSorted
<1>3. \A l \in 1..Len(order) : l = 1 /\ AncPlace(l, Len(order))
  BY <1>1 DEF AncPlace
<1> QED BY <1>1, <1>2, <1>3 DEF SearchSound

LEMMA SearchDescend ==
    ASSUME DomTyped, NumberingSound, NumberedBefore, SearchSound,
           \A k \in DOMAIN stack : stack[k] \in Visited, Descend
    PROVE  SearchSound'
<1>0. PICK n \in Nat : n = Len(order)
  BY DEF DomTyped
<1>1. PICK t \in succs[stack[1]] :
         /\ t \notin Visited /\ order' = Append(order, t) /\ stack' = <<t>> \o stack
         /\ parent' = [parent EXCEPT ![t] = stack[1]]
  BY DEF Descend, NotNumbered
<1>2. stage = "number" /\ stack # <<>> /\ UNCHANGED succs
  BY DEF Descend
<1>3. /\ Nodes' = Nodes /\ stack[1] \in Nodes /\ t \in Nodes /\ t # Entry
      /\ 1 \in DOMAIN stack
  BY <1>2, GraphShape DEF Nodes, DomTyped
<1>4. /\ n \in Nat /\ DOMAIN order = 1..n /\ n >= 1
      /\ Len(order') = n + 1
      /\ \A i \in 1..n : order'[i] = order[i] /\ order[i] \in Nodes /\ order[i] # t
      /\ order'[n + 1] = t
  <2>1. \A i \in 1..n : order[i] # t
    <3>1. DOMAIN order = 1..n
      BY <1>0 DEF DomTyped
    <3> QED BY <1>1, <3>1 DEF Visited
  <2> QED BY <1>0, <1>1, <1>3, <2>1 DEF NumberedBefore, DomTyped
<1>5. PICK m \in 1..n : order[m] = stack[1]
  BY <1>3, <1>4 DEF Visited
<1>6. /\ parent' \in [Nodes -> Nodes \cup {Null}] /\ parent'[Entry] = Null
      /\ parent'[t] = order[m] /\ \A i \in 1..n : parent'[order[i]] = parent[order[i]]
  BY <1>1, <1>3, <1>4, <1>5 DEF SearchSound
<1>7. ASSUME NEW i \in 1..n, NEW k \in 1..n PROVE ParentFrom(k, i) => ParentFrom(k, i)'
  <2> SUFFICES ASSUME ParentFrom(k, i) PROVE ParentFrom(k, i)'
    OBVIOUS
  <2>1. PICK j \in i..(k - 1) : order[j] = parent[order[k]]
    BY DEF ParentFrom
  <2>2. j \in 1..n
    BY <1>4
  <2>3. order'[j] = parent'[order'[k]]
    BY <1>4, <1>6, <2>1, <2>2
  <2> QED BY <2>3 DEF ParentFrom
<1>8. ASSUME NEW i \in 1..n, NEW k \in 1..n, AncPlace(i, k) PROVE AncPlace(i, k)'
  <2>1. \A j \in (i + 1)..k : j \in 1..n
    BY <1>4
  <2> QED BY <1>7, <1>8, <2>1 DEF AncPlace
<1>9. ASSUME NEW l \in 1..n, OnStack(order[l]) PROVE l <= m /\ AncPlace(l, n + 1)'
  <2>1. PICK i \in DOMAIN stack : stack[i] = order[l]
    BY <1>9 DEF OnStack
  <2>2. l <= m
    <3>1. CASE i = 1
      BY <1>4, <1>5, <2>1, <3>1 DEF NumberedBefore
    <3>2. CASE i # 1
      <4>1. 1 < i
        BY <3>2 DEF DomTyped
      <4>2. l < m
        BY <1>0, <1>3, <1>5, <2>1, <4>1 DEF SearchSound, StackSorted
      <4> QED BY <1>4, <4>2
    <3> QED BY <3>1, <3>2
  <2>3. AncPlace(l, n)
    BY <1>0, <1>9 DEF SearchSound
  <2>4. ASSUME NEW k \in (l + 1)..(n + 1) PROVE ParentFrom(k, l)'
    <3>1. CASE k = n + 1
      <4>1. m \in l..(k - 1) /\ order'[m] = parent'[order'[k]]
        BY <1>4, <1>6, <2>2, <3>1
      <4> QED BY <4>1 DEF ParentFrom
    <3>2. CASE k # n + 1
      <4>1. k \in (l + 1)..n /\ k \in 1..n
        BY <1>4, <3>2
      <4> QED BY <1>7, <2>3, <4>1 DEF AncPlace
    <3> QED BY <3>1, <3>2
  <2> QED BY <2>2, <2>4 DEF AncPlace
<1>10. ParentsBefore'
  <2> SUFFICES ASSUME NEW k \in 2..(n + 1)
               PROVE  \E l \in 1..(k - 1) :
                         /\ order'[l] = parent'[order'[k]] /\ order'[k] \in succs[order'[l]]
                         /\ AncPlace(l, k)'
    BY <1>2, <1>4 DEF ParentsBefore
  <2>1. CASE k = n + 1
    <3>1. OnStack(order[m])
      BY <1>3, <1>5 DEF OnStack
    <3>2. AncPlace(m, k)'
      BY <1>9, <2>1, <3>1
    <3>3. m \in 1..(k - 1) /\ order'[m] = parent'[order'[k]] /\ order'[k] \in succs[order'[m]]
      BY <1>1, <1>4, <1>5, <1>6, <2>1
    <3> QED BY <3>2, <3>3
  <2>2. CASE k # n + 1
    <3>1. k \in 2..n /\ k \in 1..n
      BY <1>4, <2>2
    <3>2. PICK l \in 1..(k - 1) : order[l] = parent[order[k]] /\ order[k] \in succs[order[l]] /\ AncPlace(l, k)
      BY <1>0, <3>1 DEF SearchSound, ParentsBefore
    <3>3. l \in 1..n
      BY <1>4, <3>1
    <3>4. order'[l] = parent'[order'[k]] /\ order'[k] \in succs[order'[l]]
      BY <1>4, <1>6, <3>1, <3>2, <3>3
    <3>5. AncPlace(l, k)'
      BY <1>8, <3>1, <3>2, <3>3
    <3> QED BY <3>4, <3>5
  <2> QED BY <2>1, <2>2
<1>11. /\ \A i \in DOMAIN stack' :
             \/ i = 1 /\ stack'[i] = t
             \/ i - 1 \in DOMAIN stack /\ stack'[i] = stack[i - 1] /\ i > 1
       /\ \A i \in DOMAIN stack : i + 1 \in DOMAIN stack' /\ stack'[i + 1] = stack[i]
       /\ 1 \in DOMAIN stack' /\ stack'[1] = t
       /\ DOMAIN stack \subseteq Nat /\ DOMAIN stack' \subseteq Nat
  BY <1>1, <1>3 DEF DomTyped
<1>12. StackSorted'
  <2> SUFFICES ASSUME NEW i \in DOMAIN stack', NEW j \in DOMAIN stack',
                      NEW k \in 1..(n + 1), NEW l \in 1..(n + 1),
                      i < j, order'[k] = stack'[i], order'[l] = stack'[j]
               PROVE  l < k
    BY <1>4 DEF StackSorted
  <2>1. j - 1 \in DOMAIN stack /\ stack'[j] = stack[j - 1] /\ i \in Nat /\ j \in Nat
    <3>1. j # 1
      BY <1>11
    <3> QED BY <1>11, <3>1
  <2>2. stack[j - 1] # t
    BY <1>1, <2>1
  <2>3. l \in 1..n
    BY <1>4, <2>1, <2>2
  <2>4. CASE i = 1
    <3>1. order'[k] = t
      BY <1>11, <2>4
    <3>2. k = n + 1
      BY <1>4, <3>1
    <3> QED BY <1>4, <2>3, <3>2
  <2>5. CASE i # 1
    <3>1. i - 1 \in DOMAIN stack /\ stack'[i] = stack[i - 1] /\ i - 1 < j - 1
      BY <1>11, <2>1, <2>5
    <3>2. stack[i - 1] # t
      BY <1>1, <3>1
    <3>3. k \in 1..n
      BY <1>4, <3>1, <3>2
    <3>4. order[k] = stack[i - 1] /\ order[l] = stack[j - 1]
      BY <1>4, <2>1, <2>3, <3>1, <3>3
    <3> QED BY <1>0, <2>1, <2>3, <3>1, <3>3, <3>4 DEF SearchSound, StackSorted
  <2> QED BY <2>4, <2>5
<1>13. ASSUME NEW l \in 1..n PROVE OnStack(order[l])' => OnStack(order[l])
  <2> SUFFICES ASSUME OnStack(order[l])' PROVE OnStack(order[l])
    OBVIOUS
  <2>1. PICK i \in DOMAIN stack' : stack'[i] = order[l]
    BY <1>4 DEF OnStack
  <2>2. order[l] # t
    BY <1>4
  <2> QED BY <1>11, <2>1, <2>2 DEF OnStack
<1>14. ASSUME NEW l \in 1..n PROVE OnStack(order[l]) => OnStack(order[l])'
  BY <1>4, <1>11 DEF OnStack
<1>15. ASSUME NEW l \in 1..(n + 1), OnStack(order[l])' PROVE AncPlace(l, n + 1)'
  <2>1. CASE l = n + 1
    <3>1. \A k \in (l + 1)..(n + 1) : FALSE
      BY <1>4, <2>1
    <3> QED BY <3>1 DEF AncPlace
  <2>2. CASE l # n + 1
    <3>1. l \in 1..n
      BY <1>4, <2>2
    <3> QED BY <1>9, <1>13, <1>15, <3>1
  <2> QED BY <2>1, <2>2
<1>16. ASSUME NEW l \in 1..(n + 1), NEW k \in 1..(n + 1), l < k,
              ~OnStack(order[l])', order'[k] \in succs[order'[l]]
       PROVE  AncPlace(l, k)'
  <2>1. l \in 1..n
    BY <1>4, <1>16
  <2>2. ~OnStack(order[l])
    BY <1>14, <1>16, <2>1
  <2>3. CASE k = n + 1
    <3>1. order[l] \in Visited
      BY <1>4, <2>1 DEF Visited
    <3>2. succs[order[l]] \subseteq Visited
      BY <1>2, <2>2, <3>1 DEF NumberingSound, OnStack
    <3> QED BY <1>1, <1>4, <1>16, <2>1, <2>3, <3>2
  <2>4. CASE k # n + 1
    <3>1. k \in 1..n
      BY <1>4, <2>4
    <3>2. AncPlace(l, k)
      BY <1>0, <1>4, <1>16, <2>1, <2>2, <3>1 DEF SearchSound
    <3> QED BY <1>8, <2>1, <3>1, <3>2
  <2> QED BY <2>3, <2>4
<1> QED BY <1>2, <1>3, <1>4, <1>6, <1>10, <1>12, <1>15, <1>16 DEF SearchSound

LEMMA SearchReturn ==
    ASSUME DomTyped, NumberedBefore, SearchSound, Return
    PROVE  SearchSound'
<1>1. /\ stack # <<>> /\ stack' = Tail(stack)
      /\ UNCHANGED <<succs, order, parent>>
  BY DEF Return
<1>2. Nodes' = Nodes
  BY <1>1 DEF Nodes
<1>3. /\ \A i \in DOMAIN stack' : i + 1 \in DOMAIN stack /\ stack'[i] = stack[i + 1] /\ i \in Nat
      /\ \A i \in DOMAIN stack : i = 1 \/ (i - 1 \in DOMAIN stack' /\ stack'[i - 1] = stack[i])
  BY <1>1 DEF DomTyped
<1>4. (\A k, l : ParentFrom(k, l)' <=> ParentFrom(k, l))
      /\ (\A i, j : AncPlace(i, j)' <=> AncPlace(i, j))
  BY <1>1 DEF ParentFrom, AncPlace
<1>5. ParentsBefore'
  BY <1>1, <1>4 DEF SearchSound, ParentsBefore
<1>6. StackSorted'
  <2> SUFFICES ASSUME NEW i \in DOMAIN stack', NEW j \in DOMAIN stack',
                      NEW k \in 1..Len(order), NEW l \in 1..Len(order),
                      i < j, order[k] = stack'[i], order[l] = stack'[j]
               PROVE  l < k
    BY <1>1 DEF StackSorted
  <2>1. i + 1 \in DOMAIN stack /\ j + 1 \in DOMAIN stack /\ i + 1 < j + 1
        /\ order[k] = stack[i + 1] /\ order[l] = stack[j + 1]
    BY <1>3
  <2> QED BY <2>1 DEF SearchSound, StackSorted
<1>7. \A l : OnStack(order[l])' => OnStack(order[l])
  BY <1>1, <1>3 DEF OnStack
<1>9. ASSUME NEW l \in 1..Len(order), NEW k \in 1..Len(order), l < k,
             ~OnStack(order[l])', order[k] \in succs[order[l]]
      PROVE  AncPlace(l, k)
  <2>1. CASE ~OnStack(order[l])
    BY <1>9, <2>1 DEF SearchSound
  <2>2. CASE OnStack(order[l])
    <3>1. AncPlace(l, Len(order))
      BY <2>2 DEF SearchSound
    <3>2. \A x \in (l + 1)..k : x \in (l + 1)..Len(order)
      BY DEF DomTyped
    <3> QED BY <3>1, <3>2 DEF AncPlace
  <2> QED BY <2>1, <2>2
<1>10. \A l \in 1..Len(order) : OnStack(order[l])' => AncPlace(l, Len(order))
  BY <1>1, <1>7 DEF SearchSound, OnStack
<1> QED BY <1>1, <1>2, <1>4, <1>5, <1>6, <1>9, <1>10 DEF SearchSound

\* The tree that the search has built.
Tr == [g |-> succs, no |-> [b \in Nodes |-> Num(b)], p |-> parent]

LEMMA SearchEnds ==
    ASSUME DomTyped, NumberedBefore, SearchSound, Visited = Nodes, stack = <<>>
    PROVE  AsNumbered(Tr)
<1>1. /\ Tr.g = succs /\ Tr.p = parent /\ Blocks(Tr) = Nodes
      /\ \A b \in Nodes : Tr.no[b] = Num(b)
      /\ DOMAIN Tr.no = Nodes /\ Tr.no = [b \in Nodes |-> Num(b)]
  BY DEF Tr, Blocks, Nodes
<1>2. \A b \in Nodes : Num(b) \in 1..Len(order) /\ order[Num(b)] = b /\ Len(order) \in Nat
  BY NumOf
<1>3. \A i \in 1..Len(order) : order[i] \in Nodes /\ Num(order[i]) = i
  BY NumAt
<1>4. /\ succs \in Graphs /\ Entry \in Nodes /\ Len(order) \in Nat
      /\ \A b \in Nodes : succs[b] \subseteq Nodes
  BY <1>2, GraphShape DEF DomTyped
<1>5. Num(Entry) = 1
  <2>1. 1 \in 1..Len(order) /\ order[1] = Entry
    BY <1>4 DEF NumberedBefore
  <2> QED BY <1>3, <2>1
<1>6. ASSUME NEW x \in Nodes, NEW y \in Nodes, Num(x) <= Num(y), AncPlace(Num(x), Num(y))
      PROVE  Anc(Tr, x, y)
  <2> SUFFICES ASSUME NEW w \in Nodes, Num(x) < Num(w), Num(w) <= Num(y)
               PROVE  Tr.no[Tr.p[w]] >= Num(x)
    BY <1>1, <1>6 DEF Anc
  <2>1. Num(w) \in (Num(x) + 1)..Num(y)
    BY <1>2
  <2>2. PICK j \in Num(x)..(Num(w) - 1) : order[j] = parent[order[Num(w)]]
    BY <1>6, <2>1 DEF AncPlace, ParentFrom
  <2>3. j \in 1..Len(order) /\ order[j] = parent[w]
    BY <1>2, <2>2
  <2>4. parent[w] \in Nodes /\ Num(parent[w]) = j
    BY <1>3, <2>3
  <2> QED BY <1>1, <1>2, <2>2, <2>4
<1>7. Tr.no \in [Blocks(Tr) -> Nat \ {0}]
  <2>1. \A b \in Nodes : Num(b) \in Nat \ {0}
    BY <1>2
  <2> QED BY <1>1, <2>1
<1>8. \A x, y \in Nodes : Tr.no[x] = Tr.no[y] => x = y
  BY <1>1, <1>2
<1>9. \A b \in Nodes : Tr.no[Entry] <= Tr.no[b]
  BY <1>1, <1>2, <1>4, <1>5
<1>10. ASSUME NEW w \in Nodes \ {Entry}
       PROVE  /\ parent[w] \in Nodes /\ w \in succs[parent[w]]
              /\ Tr.no[parent[w]] < Tr.no[w] /\ Anc(Tr, parent[w], w)
  <2> DEFINE k == Num(w)
  <2>1. k \in 1..Len(order) /\ order[k] = w /\ k # 1
    BY <1>2 DEF NumberedBefore
  <2>2. k \in 2..Len(order)
    BY <2>1, <1>4
  <2> HIDE DEF k
  <2>3. PICK l \in 1..(k - 1) :
           order[l] = parent[w] /\ w \in succs[order[l]] /\ AncPlace(l, k)
    BY <2>1, <2>2 DEF SearchSound, ParentsBefore
  <2>4. l \in 1..Len(order) /\ l < k
    BY <1>4, <2>2
  <2>5. parent[w] \in Nodes /\ Num(parent[w]) = l /\ w \in succs[parent[w]]
    BY <1>3, <2>3, <2>4
  <2>6. Num(parent[w]) < Num(w)
    BY <2>4, <2>5 DEF k
  <2>7. Num(parent[w]) <= Num(w)
    BY <1>2, <2>5, <2>6
  <2>8. AncPlace(Num(parent[w]), Num(w))
    BY <2>3, <2>5 DEF k
  <2>9. Anc(Tr, parent[w], w)
    BY <1>6, <2>5, <2>7, <2>8
  <2> QED BY <1>1, <2>5, <2>6, <2>9
<1>11. ASSUME NEW b \in Nodes, NEW t \in succs[b], Tr.no[t] > Tr.no[b] PROVE Anc(Tr, b, t)
  <2>1. t \in Nodes
    BY <1>4
  <2>2. Num(b) < Num(t) /\ Num(b) <= Num(t)
    BY <1>1, <1>2, <1>11, <2>1
  <2>3. ~OnStack(b)
    BY DEF OnStack
  <2>4. AncPlace(Num(b), Num(t))
    BY <1>2, <2>1, <2>2, <2>3 DEF SearchSound
  <2> QED BY <1>6, <2>1, <2>2, <2>4
<1>12. DfsTree(Tr)
  BY <1>1, <1>4, <1>7, <1>8, <1>9, <1>10, <1>11 DEF DfsTree
<1> QED BY <1>1, <1>2, <1>4, <1>12 DEF AsNumbered, TreeOfGraph

\* What is said of the tree, and of a phase, does not change with the maps of
\* the iteration, the stage and so on.
LEMMA SamePhase ==
    ASSUME UNCHANGED <<succs, order, parent>>
    PROVE  /\ Tr' = Tr
           /\ \A T : AsNumbered(T)' <=> AsNumbered(T)
           /\ \A T, L, w, left : LookingUp(T, L, w, left)' <=> LookingUp(T, L, w, left)
           /\ \A T, L, w, left : Settling(T, L, w, left)' <=> Settling(T, L, w, left)
           /\ \A T, L, k : Deferring(T, L, k)' <=> Deferring(T, L, k)
<1>1. Nodes' = Nodes /\ \A b : Num(b)' = Num(b)
  BY DEF Nodes, Num
<1>2. Tr' = Tr
  BY <1>1 DEF Tr
<1>3. \A T : AsNumbered(T)' <=> AsNumbered(T)
  BY DEF AsNumbered, TreeOfGraph
<1>4. Maps' = Maps
  BY <1>1 DEF Maps
<1>5. \A T, L, w, left : LookingUp(T, L, w, left)' <=> LookingUp(T, L, w, left)
  BY <1>4 DEF LookingUp
<1>6. \A T, L, w, left : Settling(T, L, w, left)' <=> Settling(T, L, w, left)
  BY <1>4 DEF Settling
<1>7. \A T, L, k : Deferring(T, L, k)' <=> Deferring(T, L, k)
  BY <1>4, SameGraph DEF Deferring
<1> QED BY <1>2, <1>3, <1>5, <1>6, <1>7

-----------------------------------------------------------------------------
(***************************************************************************)
(* What Unstruck leaves of the strict dominators: since those of a block   *)
(* are numbered before it, the loop over preOrderVisit finds the domMap of *)
(* each already cut down to its immediate dominator.                       *)
(***************************************************************************)
Struck(i, D) == D \ (IF order[i] \in D THEN dom[order[i]] \ {order[i]} ELSE {})

UnstruckBy(b, left) ==
    /\ left[0] = dom[b] \ {b}
    /\ \A i \in 1..Len(order) : left[i] = Struck(i, left[i - 1])
    /\ Unstruck(b) = left[Len(order)]

LEMMA UnstruckSteps ==
    ASSUME Len(order) \in Nat, dom \in [Nodes -> SUBSET Nodes], NEW b \in Nodes
    PROVE  \E left : UnstruckBy(b, left)
<1> DEFINE Eq(g) == g = [i \in 0..Len(order) |->
                            IF i = 0 THEN dom[b] \ {b}
                            ELSE g[i - 1] \ (IF order[i] \in g[i - 1]
                                             THEN dom[order[i]] \ {order[i]} ELSE {})]
           G == [s \in Nat \X SUBSET Nodes |-> Struck(s[1], s[2])]
<1>1. G \in [Nat \X SUBSET Nodes -> SUBSET Nodes] /\ dom[b] \ {b} \in SUBSET Nodes
  BY DEF Struck
<1>2. PICK f \in [Nat -> SUBSET Nodes] : Steps(G, dom[b] \ {b}, f)
  <2> HIDE DEF G
  <2> QED BY <1>1, StepsExist
<1> DEFINE h == [i \in 0..Len(order) |-> f[i]]
<1>3. \A i \in 0..Len(order) :
         h[i] = IF i = 0 THEN dom[b] \ {b}
                ELSE h[i - 1] \ (IF order[i] \in h[i - 1] THEN dom[order[i]] \ {order[i]} ELSE {})
  <2> SUFFICES ASSUME NEW i \in 1..Len(order) PROVE h[i] = Struck(i, h[i - 1])
    <3>1. h[0] = dom[b] \ {b}
      BY <1>2 DEF Steps
    <3>2. \A i \in 0..Len(order) : i = 0 \/ i \in 1..Len(order)
      OBVIOUS
    <3> HIDE DEF h
    <3> QED BY <3>1, <3>2 DEF Struck
  <2>1. i - 1 \in Nat /\ (i - 1) + 1 = i /\ i - 1 \in 0..Len(order) /\ i \in 0..Len(order)
    OBVIOUS
  <2>2. f[i] = G[<<i, f[i - 1]>>]
    BY <1>2, <2>1 DEF Steps
  <2> QED BY <2>1, <2>2
<1>4. Eq(h)
  BY <1>3
<1> DEFINE left == CHOOSE g : Eq(g)
<1>5. Eq(left)
  <2> HIDE DEF Eq, h
  <2> QED BY <1>4
<1>6. Unstruck(b) = left[Len(order)]
  BY DEF Unstruck
<1>7. left[0] = dom[b] \ {b}
  <2>1. 0 \in 0..Len(order)
    OBVIOUS
  <2> HIDE DEF left
  <2> QED BY <1>5, <2>1
<1>8. ASSUME NEW i \in 1..Len(order) PROVE left[i] = Struck(i, left[i - 1])
  <2>1. i \in 0..Len(order) /\ i # 0
    OBVIOUS
  <2> HIDE DEF left
  <2> QED BY <1>5, <2>1 DEF Struck
<1>9. UnstruckBy(b, left)
  <2> HIDE DEF left
  <2> QED BY <1>6, <1>7, <1>8 DEF UnstruckBy
<1> QED BY <1>9

\* Where domMap stands when the loop comes to a block: the strict dominators
\* numbered before it are down to their immediate dominators.
CutBefore(n) ==
    /\ dom \in [Nodes -> SUBSET Nodes]
    /\ dom[Entry] = {Entry}
    /\ \A i \in 2..(n - 1) : \A a \in Nodes : a \in dom[order[i]] <=> Imm(a, order[i])
    /\ \A i \in n..Len(order) : \A a \in Nodes : a \in dom[order[i]] <=> Dominates(a, order[i])

LEMMA StruckAt ==
    ASSUME succs \in Graphs, NumberedBefore, Visited = Nodes,
           NEW n \in 2..Len(order), CutBefore(n), NEW left, UnstruckBy(order[n], left)
    PROVE  \A k \in 0..Len(order) :
              left[k] = {a \in Strict(order[n]) :
                           \A j \in Strict(order[n]) : Num(j) <= k => ~Imm(a, j)}
<1> DEFINE b == order[n]
           Rest(k) == {a \in Strict(b) : \A j \in Strict(b) : Num(j) <= k => ~Imm(a, j)}
           S == {k \in Nat : k <= Len(order) => left[k] = Rest(k)}
<1>1. b \in Nodes /\ Num(b) = n /\ n \in 1..Len(order) /\ Len(order) \in Nat
  <2>1. n \in 1..Len(order)
    OBVIOUS
  <2> QED BY <2>1, NumAt DEF NumberedBefore
<1>2. \A j \in Strict(b) : Num(j) \in 1..(n - 1) /\ order[Num(j)] = j /\ j \in Nodes
  BY <1>1, StrictBefore, NumOf DEF Strict
<1>3. 0 \in S
  <2>1. left[0] = Strict(b)
    <3>1. \A a \in Nodes : a \in dom[b] <=> Dominates(a, b)
      BY DEF CutBefore
    <3>2. dom[b] \in SUBSET Nodes
      BY <1>1 DEF CutBefore
    <3> QED BY <1>1, <3>1, <3>2 DEF UnstruckBy, Strict
  <2>2. Rest(0) = Strict(b)
    BY <1>2
  <2> QED BY <2>1, <2>2
<1>4. ASSUME NEW k \in Nat, k \in S PROVE k + 1 \in S
  <2> SUFFICES ASSUME k + 1 <= Len(order) PROVE left[k + 1] = Rest(k + 1)
    OBVIOUS
  <2> DEFINE x == order[k + 1]
  <2>1. k + 1 \in 1..Len(order) /\ (k + 1) - 1 = k
    BY <1>1
  <2>2. x \in Nodes /\ Num(x) = k + 1
    BY <2>1, NumAt
  <2>3. left[k + 1] = Struck(k + 1, Rest(k))
    <3>1. left[k] = Rest(k)
      BY <1>1, <1>4
    <3>2. left[k + 1] = Struck(k + 1, left[k])
      BY <2>1 DEF UnstruckBy
    <3> QED BY <3>1, <3>2
  <2>4. CASE x \notin Strict(b)
    <3>1. \A j \in Strict(b) : Num(j) <= k + 1 <=> Num(j) <= k
      <4>1. \A j \in Strict(b) : Num(j) # k + 1
        BY <1>2, <2>4
      <4> QED BY <1>2, <4>1
    <3>2. Rest(k + 1) = Rest(k)
      BY <3>1
    <3>3. x \notin Rest(k)
      BY <2>4
    <3> HIDE DEF Rest, x
    <3> QED BY <2>3, <3>2, <3>3 DEF Struck, x
  <2>5. CASE x \in Strict(b)
    <3>1. x \in Rest(k)
      <4> SUFFICES ASSUME NEW j \in Strict(b), Num(j) <= k, Imm(x, j) PROVE FALSE
        BY <2>5
      <4>1. Num(x) < Num(j)
        BY <1>2, <2>2, StrictBefore DEF Imm
      <4> QED BY <1>2, <2>2, <4>1
    <3>2. \A j \in Strict(b) : Num(j) <= k + 1 <=> Num(j) <= k \/ j = x
      <4>1. \A j \in Strict(b) : Num(j) = k + 1 <=> j = x
        BY <1>2, <2>2
      <4> QED BY <1>2, <4>1
    <3>3. Rest(k + 1) = {a \in Rest(k) : ~Imm(a, x)}
      BY <2>5, <3>2
    <3>4. \A a \in Strict(b) : a \in dom[x] \ {x} <=> Imm(a, x)
      <4>1. CASE x = Entry
        BY <4>1, EntryAlone DEF CutBefore, Imm
      <4>2. CASE x # Entry
        <5>1. k + 1 \in 2..(n - 1)
          <6>1. k + 1 # 1
            BY <4>2 DEF NumberedBefore
          <6> QED BY <1>2, <2>2, <2>5, <6>1
        <5>2. \A a \in Nodes : a \in dom[x] <=> Imm(a, x)
          BY <5>1 DEF CutBefore
        <5> QED BY <5>2 DEF Imm, Strict
      <4> QED BY <4>1, <4>2
    <3>5. Struck(k + 1, Rest(k)) = Rest(k) \ (dom[x] \ {x})
      BY <3>1 DEF Struck
    <3>6. Rest(k) \subseteq Strict(b)
      OBVIOUS
    <3> HIDE DEF Rest, x
    <3> QED BY <2>3, <3>3, <3>4, <3>5, <3>6
  <2> QED BY <2>4, <2>5
<1>5. Nat \subseteq S
  <2> HIDE DEF S
  <2> QED BY <1>3, <1>4, SetInduction
<1>6. \A k \in 0..Len(order) : left[k] = Rest(k)
  BY <1>1, <1>5
<1> QED BY <1>6

\* Of the strict dominators only the immediate one immediately dominates no
\* other of them.
LEMMA OnlyImmediateLeft ==
    ASSUME succs \in Graphs, NumberedBefore, Visited = Nodes,
           NEW b \in Nodes, NEW a \in Strict(b)
    PROVE  (\A j \in Strict(b) : ~Imm(a, j)) <=> Imm(a, b)
<1>1. ASSUME Imm(a, b), NEW j \in Strict(b), Imm(a, j) PROVE FALSE
  <2>1. Dominates(j, a) /\ Dominates(a, j) /\ a # j /\ j \in Nodes /\ a \in Nodes
    BY <1>1 DEF Imm, Strict
  <2> QED BY <2>1, DominatesAntisymmetric
<1>2. ASSUME ~Imm(a, b) PROVE \E j \in Strict(b) : Imm(a, j)
  <2> DEFINE Between == {j \in Strict(b) : a # j /\ Dominates(a, j)}
             Numbers == {Num(j) : j \in Between}
  <2>1. b # Entry
    BY EntryAlone DEF Strict
  <2>2. PICK m \in Nodes : Imm(m, b)
    BY <2>1, ImmExists
  <2>3. m \in Between
    BY <1>2, <2>2 DEF Imm, Strict
  <2>4. PICK q \in Numbers : \A r \in Numbers : q <= r
    <3>1. Numbers \subseteq Nat /\ Numbers # {}
      BY <2>3, NumOf DEF Strict
    <3> HIDE DEF Numbers
    <3> QED BY <3>1, LeastNumber
  <2>5. PICK j \in Between : q = Num(j)
    OBVIOUS
  <2>6. ASSUME NEW x \in Nodes, x # j, Dominates(x, j) PROVE Dominates(x, a)
    <3>1. x \in Strict(b)
      <4>1. Dominates(x, b)
        BY <2>6, DominatesTransitive DEF Strict
      <4>2. x # b
        BY <2>6, DominatesAntisymmetric DEF Strict
      <4> QED BY <4>1, <4>2 DEF Strict
    <3>2. Num(x) < Num(j)
      BY <2>6, StrictBefore DEF Strict
    <3>3. x \notin Between
      <4>1. Num(x) \in Nat /\ Num(j) \in Nat
        BY NumOf DEF Strict
      <4>2. Num(x) \notin Numbers
        BY <2>4, <2>5, <3>2, <4>1
      <4> QED BY <4>2
    <3>4. a = x \/ ~Dominates(a, x)
      BY <3>1, <3>3
    <3> QED BY <3>1, <3>4, DominatorsChain, EntryDominates DEF Strict
  <2>7. Imm(a, j)
    BY <2>6 DEF Imm, Strict
  <2> QED BY <2>7
<1> QED BY <1>1, <1>2

LEMMA UnstruckIsImm ==
    ASSUME succs \in Graphs, NumberedBefore, Visited = Nodes,
           NEW n \in 2..Len(order), CutBefore(n)
    PROVE  Unstruck(order[n]) = {a \in Nodes : Imm(a, order[n])}
<1>1. n \in 1..Len(order) /\ Len(order) \in Nat /\ order[n] \in Nodes
  <2>1. n \in 1..Len(order)
    OBVIOUS
  <2> QED BY <2>1, NumAt DEF NumberedBefore
<1>2. PICK left : UnstruckBy(order[n], left)
  BY <1>1, UnstruckSteps DEF CutBefore
<1>3. Unstruck(order[n]) = left[Len(order)] /\ Len(order) \in 0..Len(order)
  BY <1>1, <1>2 DEF UnstruckBy
<1>4. left[Len(order)] = {x \in Strict(order[n]) :
                            \A j \in Strict(order[n]) : Num(j) <= Len(order) => ~Imm(x, j)}
  BY <1>2, <1>3, StruckAt
<1>5. \A j \in Strict(order[n]) : Num(j) <= Len(order)
  BY NumOf DEF Strict
<1>6. left[Len(order)] = {a \in Strict(order[n]) : \A j \in Strict(order[n]) : ~Imm(a, j)}
  BY <1>4, <1>5
<1>7. \A a : Imm(a, order[n]) => a \in Strict(order[n])
  BY DEF Imm, Strict
<1>8. \A a \in Strict(order[n]) : a \in Nodes
  BY DEF Strict
<1> QED BY <1>1, <1>3, <1>6, <1>7, <1>8, OnlyImmediateLeft

-----------------------------------------------------------------------------
(***************************************************************************)
(* The immediate dominators along the stages.                              *)
(***************************************************************************)
TreeShape ==
    /\ idom \in [Nodes -> Nodes \cup {Null}] /\ idom[Entry] = Null
    /\ \A b \in Nodes \ {Entry} : Imm(idom[b], b)

CutSoFar ==
    /\ at \in 2..(Len(order) + 1)
    /\ CutBefore(at)
    /\ idom \in [Nodes -> Nodes \cup {Null}] /\ idom[Entry] = Null
    /\ \A i \in 2..(at - 1) : Imm(idom[order[i]], order[i])

\* The loops of LengauerTarjanDominators.
LengauerTarjanSound ==
    /\ stage \in {"semi", "bucket"} => at \in 2..Len(order)
    /\ stage = "semi" => LookingUp(Tr, maps, order[at], todo)
    /\ stage = "bucket" => Settling(Tr, maps, order[at], todo)
    /\ stage = "defer" => at \in 2..(Len(order) + 1) /\ Deferring(Tr, maps, at)

\* The stages in which no block has an immediate dominator yet.
FirstStages == {"number", "visit", "semi", "bucket", "defer"}

TreeInv ==
    /\ IndInv
    /\ NumberedBefore
    /\ \A k \in DOMAIN stack : stack[k] \in Visited
    /\ stage = "number" => SearchSound
    /\ stage # "number" => AsNumbered(Tr)
    /\ LengauerTarjanSound
    /\ stage \in FirstStages => idom = [b \in Nodes |-> Null]
    /\ stage = "idom" => CutSoFar
    /\ stage \notin FirstStages \cup {"idom"} => TreeShape

LEMMA FirstInOne ==
    ASSUME NumberedBefore, Visited = Nodes, NEW m \in Nodes
    PROVE  FirstIn({m}) = m
<1> DEFINE Places == {i \in DOMAIN order : order[i] \in {m}}
<1>1. Num(m) \in DOMAIN order /\ order[Num(m)] = m /\ Num(m) \in Nat
  BY NumOf DEF NumberedBefore
<1>2. Places = {Num(m)}
  BY <1>1 DEF NumberedBefore
<1>3. Min({Num(m)}) = Num(m)
  BY <1>1 DEF Min
<1> QED BY <1>1, <1>2, <1>3 DEF FirstIn

LEMMA TreeInit == Init => TreeInv
<1> SUFFICES ASSUME Init PROVE TreeInv
  OBVIOUS
<1>1. IndInv
  BY InitInv
<1>2. /\ succs \in Graphs /\ stage = "number" /\ order = <<Entry>> /\ stack = <<Entry>>
      /\ idom = [b \in Nodes |-> Null]
  BY DEF Init
<1>3. Entry \in Nodes
  BY <1>2, EntryDominates, GraphsAssumption DEF Nodes
<1>4. NumberedBefore
  BY <1>2, <1>3 DEF NumberedBefore
<1>5. \A k \in DOMAIN stack : stack[k] \in Visited
  BY <1>2 DEF Visited
<1> QED BY <1>1, <1>2, <1>4, <1>5, SearchInit DEF TreeInv, LengauerTarjanSound, FirstStages

\* A step that leaves the numbering alone and is in none of the first stages.
LEMMA TreeKept ==
    ASSUME TreeInv, [Next]_vars, UNCHANGED <<succs, order, stack, parent, idom>>,
           stage \notin FirstStages \cup {"idom"},
           stage' \notin FirstStages \cup {"idom"}
    PROVE  TreeInv'
<1>1. IndInv'
  BY StepInv DEF TreeInv
<1>2. Nodes' = Nodes /\ Visited' = Visited
  BY DEF Nodes, Visited
<1>3. NumberedBefore'
  BY <1>2 DEF TreeInv, NumberedBefore
<1>4. TreeShape'
  BY <1>2, SameGraph DEF TreeInv, TreeShape
<1>5. AsNumbered(Tr)'
  BY SamePhase DEF TreeInv, FirstStages
<1> QED BY <1>1, <1>2, <1>3, <1>4, <1>5 DEF TreeInv, LengauerTarjanSound, FirstStages

\* Where the loops of LengauerTarjanDominators are.
LEMMA LoopBlock ==
    ASSUME TreeInv, stage # "number", NEW k \in 2..Len(order)
    PROVE  /\ order[k] \in Blocks(Tr) \ {Entry} /\ Tr.no[order[k]] = k
           /\ Tr.p = parent /\ Blocks(Tr) = Nodes /\ Len(order) \in Nat
           /\ Tr.no[Entry] = 1 /\ Entry \in Nodes
           /\ TreeOfGraph(Tr) /\ AsNumbered(Tr)
           /\ \A b \in Nodes : Tr.no[b] \in 1..Len(order)
           /\ \A b : PredsIn(Tr, b) = Preds(b)
<1>1. NumberedBefore /\ Visited = Nodes /\ AsNumbered(Tr) /\ DomTyped
  BY DEF TreeInv, IndInv, NumberingSound
<1>2. /\ Tr.p = parent /\ Blocks(Tr) = Nodes /\ TreeOfGraph(Tr) /\ Len(order) \in Nat
      /\ \A b : PredsIn(Tr, b) = Preds(b)
      /\ \A b \in Nodes : Tr.no[b] = Num(b)
  BY <1>1, BlocksOfGraph DEF AsNumbered, Tr
<1>3. order[k] \in Nodes /\ Num(order[k]) = k
  BY <1>1, <1>2, NumAt
<1>4. Num(Entry) = 1 /\ Entry \in Nodes
  <2>1. order[1] = Entry /\ 1 \in 1..Len(order)
    BY <1>1, <1>2 DEF NumberedBefore
  <2> QED BY <1>1, <2>1, NumAt
<1>5. \A b \in Nodes : Num(b) \in 1..Len(order)
  BY <1>1, NumOf
<1> QED BY <1>1, <1>2, <1>3, <1>4, <1>5

\* What remains of the invariant in the stages of LengauerTarjanDominators.
LEMMA LoopKept ==
    ASSUME TreeInv, [Next]_vars, UNCHANGED <<succs, order, stack, parent, idom>>,
           stage \in {"semi", "bucket", "defer"}, stage' \in {"semi", "bucket", "defer"},
           LengauerTarjanSound'
    PROVE  TreeInv'
<1>1. IndInv'
  BY StepInv DEF TreeInv
<1>2. Nodes' = Nodes /\ Visited' = Visited
  BY DEF Nodes, Visited
<1>3. NumberedBefore'
  BY <1>2 DEF TreeInv, NumberedBefore
<1>4. AsNumbered(Tr)'
  BY SamePhase DEF TreeInv
<1>5. idom' = [b \in Nodes |-> Null]
  BY DEF TreeInv, FirstStages
<1> QED BY <1>1, <1>2, <1>3, <1>4, <1>5 DEF TreeInv, FirstStages

LEMMA LoopsStep ==
    ASSUME TreeInv, [Next]_vars, Semidominator \/ Link \/ Settle \/ BlockDone
    PROVE  TreeInv'
<1> DEFINE w == order[at]
<1>1. /\ stage \in {"semi", "bucket"} /\ stage' \in {"semi", "bucket", "defer"}
      /\ UNCHANGED <<succs, order, stack, parent, idom>>
  BY DEF Semidominator, Link, Settle, BlockDone, dfsVars
<1>2. /\ at \in 2..Len(order)
      /\ stage = "semi" => LookingUp(Tr, maps, w, todo)
      /\ stage = "bucket" => Settling(Tr, maps, w, todo)
  BY <1>1 DEF TreeInv, LengauerTarjanSound
<1>3. /\ w \in Blocks(Tr) \ {Entry} /\ Tr.no[w] = at
      /\ Tr.p = parent /\ Blocks(Tr) = Nodes /\ Len(order) \in Nat
      /\ Tr.no[Entry] = 1 /\ Entry \in Nodes
      /\ TreeOfGraph(Tr) /\ AsNumbered(Tr)
      /\ \A b \in Nodes : Tr.no[b] \in 1..Len(order)
      /\ \A b : PredsIn(Tr, b) = Preds(b)
  BY <1>1, <1>2, LoopBlock
<1> HIDE DEF w
<1>4. CASE Semidominator
  <2>1. PICK p \in todo : /\ maps' = Lowered(Eval(maps, p), w, p) /\ todo' = todo \ {p}
                          /\ stage = "semi" /\ stage' = "semi" /\ at' = at
    BY <1>4 DEF Semidominator, w
  <2>2. LookingUp(Tr, Lowered(Eval(maps, p), w, p), w, todo \ {p})
    <3>1. \A b \in Blocks(Tr) : Tr.no[b] <= Len(order)
      BY <1>3
    <3> QED BY <1>2, <1>3, <2>1, <3>1, LoweredStep
  <2>3. LengauerTarjanSound'
    BY <1>1, <1>2, <2>1, <2>2, SamePhase DEF LengauerTarjanSound, w
  <2> QED BY <1>1, <2>3, LoopKept
<1>5. CASE Link
  <2>1. /\ stage = "semi" /\ stage' = "bucket" /\ todo = {} /\ at' = at
        /\ maps' = Linked(maps, w) /\ todo' = maps'.bucket[parent[w]]
    BY <1>5 DEF Link, w
  <2>2. Settling(Tr, Linked(maps, w), w, Linked(maps, w).bucket[Tr.p[w]])
    BY <1>2, <1>3, <2>1, LinkedStep
  <2>3. todo' = Linked(maps, w).bucket[Tr.p[w]]
    BY <1>3, <2>1
  <2>4. LengauerTarjanSound'
    BY <1>1, <1>2, <2>1, <2>2, <2>3, SamePhase DEF LengauerTarjanSound, w
  <2> QED BY <1>1, <2>4, LoopKept
<1>6. CASE Settle
  <2>1. PICK v \in todo : /\ maps' = Settled(Eval(maps, v), parent[w], v) /\ todo' = todo \ {v}
                          /\ stage = "bucket" /\ stage' = "bucket" /\ at' = at
    BY <1>6 DEF Settle, w
  <2>2. Settling(Tr, Settled(Eval(maps, v), Tr.p[w], v), w, todo \ {v})
    BY <1>2, <1>3, <2>1, SettledStep
  <2>3. maps' = Settled(Eval(maps, v), Tr.p[w], v)
    BY <1>3, <2>1
  <2>4. LengauerTarjanSound'
    BY <1>1, <1>2, <2>1, <2>2, <2>3, SamePhase DEF LengauerTarjanSound, w
  <2> QED BY <1>1, <2>4, LoopKept
<1>7. CASE BlockDone
  <2>1. /\ stage = "bucket" /\ todo = {} /\ maps' = Emptied(maps, parent[w])
        /\ IF at > 2 THEN at' = at - 1 /\ todo' = Preds(order[at']) /\ stage' = "semi"
           ELSE at' = 2 /\ stage' = "defer"
    BY <1>7 DEF BlockDone, w
  <2>2. maps' = Emptied(maps, Tr.p[w]) /\ Settling(Tr, maps, w, {})
    BY <1>2, <1>3, <2>1
  <2>3. CASE at > 2
    <3> DEFINE x == order[at - 1]
    <3>1. at - 1 \in 2..Len(order) /\ at' = at - 1 /\ stage' = "semi" /\ todo' = Preds(x)
      BY <1>2, <1>3, <2>1, <2>3
    <3>2. x \in Blocks(Tr) \ {Entry} /\ Tr.no[x] = Tr.no[w] - 1
      BY <1>1, <1>3, <3>1, LoopBlock
    <3> HIDE DEF x
    <3>3. LookingUp(Tr, Emptied(maps, Tr.p[w]), x, PredsIn(Tr, x))
      BY <1>3, <2>2, <3>2, EmptiedNext
    <3>4. PredsIn(Tr, x) = Preds(x)
      BY <1>3
    <3>5. LengauerTarjanSound'
      BY <1>1, <2>2, <3>1, <3>3, <3>4, SamePhase DEF LengauerTarjanSound, x
    <3> QED BY <1>1, <3>5, LoopKept
  <2>4. CASE ~(at > 2)
    <3>1. at = 2 /\ at' = 2 /\ stage' = "defer" /\ 2 \in 2..(Len(order) + 1)
      BY <1>2, <1>3, <2>1, <2>4
    <3>2. \A b \in Blocks(Tr) \ {Entry} : ~(Tr.no[b] < 2)
      <4>1. DfsTree(Tr)
        BY <1>3 DEF TreeOfGraph
      <4>2. \A b \in Blocks(Tr) \ {Entry} : Tr.no[b] # Tr.no[Entry]
        BY <1>3, <4>1 DEF DfsTree
      <4> QED BY <1>3, <4>2
    <3>3. Tr.no[Entry] = Tr.no[w] - 1
      BY <1>3, <3>1
    <3>4. Deferring(Tr, Emptied(maps, Tr.p[w]), 2)
      BY <1>3, <2>2, <3>2, <3>3, EmptiedLast
    <3>5. LengauerTarjanSound'
      BY <1>1, <2>2, <3>1, <3>4, SamePhase DEF LengauerTarjanSound
    <3> QED BY <1>1, <3>5, LoopKept
  <2> QED BY <2>3, <2>4
<1> QED BY <1>4, <1>5, <1>6, <1>7

LEMMA DeferLoopStep ==
    ASSUME TreeInv, [Next]_vars, Defer
    PROVE  TreeInv'
<1>1. stage = "defer" /\ UNCHANGED <<succs, order, stack, parent>>
  BY DEF Defer, dfsVars
<1>2. at \in 2..(Len(order) + 1) /\ Deferring(Tr, maps, at)
  BY <1>1 DEF TreeInv, LengauerTarjanSound
<1>3. DomTyped /\ NumberedBefore /\ AsNumbered(Tr) /\ Len(order) \in Nat
  BY <1>1 DEF TreeInv, IndInv, AsNumbered
<1>4. CASE at <= Len(order)
  <2> DEFINE w == order[at]
             d == Deferred(w)
  <2>1. /\ maps' = [maps EXCEPT !.idom[w] = d] /\ at' = at + 1
        /\ stage' = "defer" /\ idom' = idom
    BY <1>1, <1>4 DEF Defer, Resolved
  <2>2. at \in 2..Len(order)
    BY <1>2, <1>3, <1>4
  <2>3. w \in Blocks(Tr) \ {Entry} /\ Tr.no[w] = at
    BY <1>1, <2>2, LoopBlock
  <2> HIDE DEF w
  <2>4. Imm(d, w)
    BY <1>2, <1>3, <2>3, DeferredImm DEF Deferred
  <2> HIDE DEF d
  <2>5. Deferring(Tr, maps', at + 1)
    <3>1. at \in Nat
      BY <1>2, <1>3
    <3> QED BY <1>2, <1>3, <2>1, <2>3, <2>4, <3>1, DeferStep
  <2>6. LengauerTarjanSound'
    BY <1>1, <2>1, <2>2, <2>5, SamePhase DEF LengauerTarjanSound
  <2> QED BY <1>1, <2>1, <2>6, LoopKept
<1>5. CASE ~(at <= Len(order))
  <2>1. stage' = "tree" /\ idom' = maps.idom
    BY <1>1, <1>5 DEF Defer
  <2>2. Nodes' = Nodes /\ Visited' = Visited
    BY <1>1 DEF Nodes, Visited
  <2>3. IndInv' /\ NumberedBefore' /\ AsNumbered(Tr)'
    BY <1>1, <1>3, <2>2, StepInv, SamePhase DEF TreeInv, NumberedBefore
  <2>4. /\ maps.idom \in [Nodes -> Nodes \cup {Null}] /\ maps.idom[Entry] = Null
        /\ \A b \in Nodes \ {Entry} : Imm(maps.idom[b], b)
    <3>1. at \in Nat /\ at > Len(order)
      BY <1>2, <1>3, <1>5
    <3> QED BY <1>2, <1>3, <3>1, DeferEnd
  <2>5. TreeShape'
    BY <1>1, <2>1, <2>2, <2>4, SameGraph DEF TreeShape
  <2> QED BY <1>1, <2>1, <2>2, <2>3, <2>5 DEF TreeInv, LengauerTarjanSound, FirstStages
<1> QED BY <1>4, <1>5

LEMMA TreeStep ==
    ASSUME TreeInv, [Next]_vars
    PROVE  TreeInv'
<1>1. IndInv' /\ IndInv /\ DomTyped
  BY StepInv DEF TreeInv, IndInv
<1>2. CASE Descend
  <2>1. PICK t \in succs[stack[1]] :
           t \notin Visited /\ order' = Append(order, t) /\ stack' = <<t>> \o stack
    BY <1>2 DEF Descend, NotNumbered
  <2>2. /\ stage = "number" /\ stack # <<>>
        /\ UNCHANGED <<succs, stage, idom>>
    BY <1>2 DEF Descend
  <2>3. /\ Nodes' = Nodes /\ stack[1] \in Nodes /\ t \in Nodes
        /\ 1 \in DOMAIN stack
    BY <1>1, <2>2, GraphShape DEF Nodes, DomTyped
  <2>4. /\ Len(order) \in Nat /\ DOMAIN order = 1..Len(order) /\ Len(order) >= 1
        /\ Len(order') = Len(order) + 1
        /\ DOMAIN order' = 1..(Len(order) + 1)
        /\ \A i \in 1..Len(order) : order'[i] = order[i]
        /\ order'[Len(order) + 1] = t
        /\ order' \in Seq(Nodes)
    BY <1>1, <2>1, <2>3 DEF TreeInv, NumberedBefore, DomTyped
  <2>5. \A i \in 1..(Len(order) + 1) : i \in 1..Len(order) \/ i = Len(order) + 1
    BY <2>4
  <2>6. NumberedBefore'
    <3>1. order'[1] = Entry
      BY <2>4 DEF TreeInv, NumberedBefore
    <3>2. \A i \in 1..Len(order) : order[i] # t
      BY <2>1, <2>4 DEF Visited
    <3>3. \A i, j \in DOMAIN order' : order'[i] = order'[j] => i = j
      BY <2>4, <2>5, <3>2 DEF TreeInv, NumberedBefore
    <3>4. ASSUME NEW i \in 2..(Len(order) + 1)
          PROVE  \E j \in 1..(i - 1) : order'[i] \in succs[order'[j]]
      <4>1. CASE i \in 2..Len(order)
        <5>1. PICK j \in 1..(i - 1) : order[i] \in succs[order[j]]
          BY <4>1 DEF TreeInv, NumberedBefore
        <5>2. j \in 1..Len(order) /\ i \in 1..Len(order)
          BY <2>4, <4>1
        <5> QED BY <2>4, <5>1, <5>2
      <4>2. CASE i = Len(order) + 1
        <5>1. PICK j \in 1..Len(order) : order[j] = stack[1]
          BY <2>3, <2>4 DEF TreeInv, Visited
        <5>2. j \in 1..(i - 1)
          BY <2>4, <4>2, <5>1
        <5> QED BY <2>1, <2>4, <4>2, <5>1, <5>2
      <4> QED BY <2>4, <4>1, <4>2
    <3> QED BY <2>2, <2>3, <2>4, <3>1, <3>3, <3>4 DEF NumberedBefore
  <2>7. \A k \in DOMAIN stack' : stack'[k] \in Visited'
    <3>1. Visited \subseteq Visited' /\ t \in Visited'
      BY <2>4 DEF Visited
    <3>2. \A k \in DOMAIN stack' :
             stack'[k] = t \/ (k - 1 \in DOMAIN stack /\ stack'[k] = stack[k - 1])
      BY <1>1, <2>1, <2>3 DEF DomTyped
    <3> QED BY <3>1, <3>2 DEF TreeInv
  <2>8. SearchSound'
    BY <1>1, <1>2, <2>2, SearchDescend DEF TreeInv, IndInv
  <2> QED BY <1>1, <2>2, <2>3, <2>6, <2>7, <2>8 DEF TreeInv, LengauerTarjanSound, FirstStages
<1>3. CASE Return
  <2>1. /\ stage = "number" /\ stack # <<>> /\ stack' = Tail(stack)
        /\ UNCHANGED <<succs, stage, order, idom>>
    BY <1>3 DEF Return
  <2>2. Nodes' = Nodes /\ Visited' = Visited
    BY <2>1 DEF Nodes, Visited
  <2>3. NumberedBefore'
    BY <2>1, <2>2 DEF TreeInv, NumberedBefore
  <2>4. \A k \in DOMAIN stack' : k + 1 \in DOMAIN stack /\ stack'[k] = stack[k + 1]
    BY <1>1, <2>1 DEF DomTyped
  <2>5. SearchSound'
    BY <1>1, <1>3, <2>1, SearchReturn DEF TreeInv
  <2> QED BY <1>1, <2>1, <2>2, <2>3, <2>4, <2>5 DEF TreeInv, LengauerTarjanSound, FirstStages
<1>4. CASE Numbered
  <2>1. /\ stage = "number" /\ stack = <<>> /\ UNCHANGED <<succs, order, stack, parent, idom>>
        /\ \/ stage' = "visit"
           \/ stage' = "semi" /\ at' = Len(order) /\ maps' = Started /\ todo' = Preds(order[at'])
    BY <1>4 DEF Numbered, dfsVars
  <2>2. Nodes' = Nodes /\ Visited' = Visited
    BY <2>1 DEF Nodes, Visited
  <2>3. NumberedBefore' /\ NumberedBefore
    BY <2>1, <2>2 DEF TreeInv, NumberedBefore
  <2>4. Visited = Nodes
    BY <1>1, <2>1, <2>2 DEF IndInv, NumberingSound
  <2>5. AsNumbered(Tr)
    BY <1>1, <2>1, <2>3, <2>4, SearchEnds DEF TreeInv
  <2>6. AsNumbered(Tr)'
    BY <2>1, <2>5, SamePhase
  <2>7. ASSUME stage' = "semi"
        PROVE  Len(order) \in 2..Len(order) /\ LookingUp(Tr, Started, order[at'], Preds(order[at']))
    <3>1. CfgHead \in Nodes /\ Entry \in Nodes /\ CfgHead # Entry
      BY <1>1, GraphsAssumption DEF DomTyped, Nodes, CfgHead, Entry
    <3>2. \A b \in Nodes : Num(b) \in 1..Len(order) /\ order[Num(b)] = b /\ Len(order) \in Nat
      BY <2>3, <2>4, NumOf
    <3>3. Num(CfgHead) # Num(Entry)
      BY <3>1, <3>2
    <3>4. Len(order) \in 2..Len(order) /\ 1 \in 1..Len(order) /\ Len(order) \in 1..Len(order)
      BY <3>1, <3>2, <3>3
    <3>5. order[Len(order)] \in Nodes /\ Num(order[Len(order)]) = Len(order)
      BY <2>3, <2>4, <3>4, NumAt
    <3>6. order[Len(order)] # Entry
      <4>1. order[1] = Entry
        BY <2>3 DEF NumberedBefore
      <4>2. Num(Entry) = 1
        BY <2>3, <2>4, <3>4, <4>1, NumAt
      <4> QED BY <3>4, <3>5, <4>2
    <3>7. Tr.no = [b \in Nodes |-> Num(b)] /\ Blocks(Tr) = Nodes /\ TreeOfGraph(Tr)
          /\ \A b : PredsIn(Tr, b) = Preds(b)
      BY <2>5, BlocksOfGraph DEF AsNumbered, Tr
    <3>8. \A b \in Nodes : Tr.no[b] <= Tr.no[order[Len(order)]]
      BY <3>2, <3>5, <3>7
    <3>9. LookingUp(Tr, Started, order[Len(order)], PredsIn(Tr, order[Len(order)]))
      BY <3>5, <3>6, <3>7, <3>8, StartedStep
    <3>10. at' = Len(order)
      BY <2>1, <2>7
    <3> QED BY <3>4, <3>7, <3>9, <3>10
  <2>8. LengauerTarjanSound'
    BY <2>1, <2>7, SamePhase DEF LengauerTarjanSound
  <2> QED BY <1>1, <2>1, <2>2, <2>3, <2>6, <2>8 DEF TreeInv, FirstStages
<1>5. CASE Visit
  <2>1. stage = "visit" /\ UNCHANGED <<succs, stage, order, stack, parent, idom>>
    BY <1>5 DEF Visit, dfsVars
  <2>2. Nodes' = Nodes /\ Visited' = Visited
    BY <2>1 DEF Nodes, Visited
  <2>3. NumberedBefore'
    BY <2>1, <2>2 DEF TreeInv, NumberedBefore
  <2>4. AsNumbered(Tr)'
    BY <2>1, SamePhase DEF TreeInv
  <2> QED BY <1>1, <2>1, <2>2, <2>3, <2>4 DEF TreeInv, LengauerTarjanSound, FirstStages
<1>6. CASE PassDone
  <2>1. /\ stage = "visit" /\ UNCHANGED <<succs, order, stack, parent, dom, idom>>
        /\ stage' = "visit" \/ (stage' = "idom" /\ at' = 2)
    BY <1>6 DEF PassDone, dfsVars
  <2>2. Nodes' = Nodes /\ Visited' = Visited
    BY <2>1 DEF Nodes, Visited
  <2>3. NumberedBefore'
    BY <2>1, <2>2 DEF TreeInv, NumberedBefore
  <2>4. ASSUME stage' = "idom" PROVE CutSoFar'
    <3>1. Visited = Nodes
      BY <1>1, <2>1 DEF IndInv, NumberingSound
    <3>2. \A b \in Nodes : dom[b] = {a \in Nodes : Dominates(a, b)}
      BY <1>1, <2>1, <2>2, <2>4, SameGraph DEF IndInv, DominatorsExact
    <3>3. Entry \in Nodes /\ dom[Entry] = {Entry} /\ dom \in [Nodes -> SUBSET Nodes]
      BY <1>1, <2>1, GraphShape DEF IndInv, IterationSound, DomTyped
    <3>4. \A i \in 2..Len(order) : order[i] \in Nodes
      BY <1>1 DEF DomTyped
    <3>5. Len(order) >= 1 /\ Len(order) \in Nat
      BY <1>1 DEF TreeInv, NumberedBefore, DomTyped
    <3>6. \A i \in 2..Len(order) : \A a \in Nodes : a \in dom[order[i]] <=> Dominates(a, order[i])
      BY <3>2, <3>4
    <3>7. CutBefore(2)'
      BY <2>1, <2>2, <3>3, <3>6, SameGraph DEF CutBefore
    <3>8. idom \in [Nodes -> Nodes \cup {Null}] /\ idom[Entry] = Null
      BY <2>1, <3>3 DEF TreeInv, FirstStages
    <3>9. at' = 2
      BY <2>1, <2>4
    <3> QED BY <2>1, <2>2, <3>5, <3>7, <3>8, <3>9 DEF CutSoFar, CutBefore
  <2>5. stage' \in {"visit", "idom"} /\ idom' = [b \in Nodes' |-> Null]
    BY <2>1, <2>2 DEF TreeInv, FirstStages
  <2>6. AsNumbered(Tr)'
    BY <2>1, SamePhase DEF TreeInv
  <2> QED BY <1>1, <2>1, <2>2, <2>3, <2>4, <2>5, <2>6 DEF TreeInv, LengauerTarjanSound, FirstStages
<1>7. CASE ImmediateDom
  <2> DEFINE b == order[at]
  <2>1. /\ stage = "idom" /\ UNCHANGED <<succs, order, stack, parent>>
        /\ \/ /\ at <= Len(order) /\ at' = at + 1 /\ stage' = stage
              /\ dom' = [dom EXCEPT ![b] = Unstruck(b)]
              /\ idom' = [idom EXCEPT ![b] = FirstIn(Unstruck(b))]
           \/ at > Len(order) /\ stage' = "tree" /\ UNCHANGED idom
    <3>1. CASE at <= Len(order)
      BY <1>7, <3>1 DEF ImmediateDom, dfsVars
    <3>2. CASE ~(at <= Len(order))
      <4>1. at > Len(order)
        BY <1>1, <3>2 DEF DomTyped
      <4> QED BY <1>7, <3>2, <4>1 DEF ImmediateDom, dfsVars
    <3> QED BY <3>1, <3>2
  <2>2. Nodes' = Nodes /\ Visited' = Visited /\ Visited = Nodes
    BY <1>1, <2>1 DEF Nodes, Visited, IndInv, NumberingSound
  <2>3. NumberedBefore' /\ NumberedBefore
    BY <2>1, <2>2 DEF TreeInv, NumberedBefore
  <2>4. CutSoFar /\ Len(order) \in Nat /\ Len(order) >= 1
    BY <1>1, <2>1 DEF TreeInv, NumberedBefore, DomTyped
  <2>7. AsNumbered(Tr)'
    BY <2>1, SamePhase DEF TreeInv
  <2>5. CASE at <= Len(order)
    <3>1. at \in 2..Len(order) /\ at \in 1..Len(order)
      BY <2>4, <2>5 DEF CutSoFar
    <3>2. b \in Nodes /\ b # Entry /\ Num(b) = at
      <4>1. b \in Nodes /\ Num(b) = at
        BY <2>2, <2>3, <3>1, NumAt
      <4>2. 1 \in 1..Len(order) /\ order[1] = Entry
        BY <2>3, <2>4 DEF NumberedBefore
      <4>3. Num(Entry) = 1
        BY <2>2, <2>3, <4>2, NumAt
      <4> QED BY <3>1, <4>1, <4>3
    <3>3. PICK m \in Nodes : Imm(m, b)
      BY <1>1, <2>2, <2>3, <3>2, ImmExists DEF DomTyped
    <3>4. Unstruck(b) = {m}
      <4>1. Unstruck(b) = {a \in Nodes : Imm(a, b)}
        BY <1>1, <2>2, <2>3, <2>4, <3>1, UnstruckIsImm DEF CutSoFar, DomTyped
      <4> HIDE DEF b
      <4>2. \A a \in Nodes : Imm(a, b) <=> a = m
        BY <1>1, <3>2, <3>3, ImmUnique DEF DomTyped
      <4> QED BY <4>1, <4>2
    <3>5. /\ at' = at + 1 /\ stage' = "idom"
          /\ dom' = [dom EXCEPT ![b] = {m}] /\ idom' = [idom EXCEPT ![b] = m]
      <4>1. FirstIn(Unstruck(b)) = m
        <5>1. FirstIn({m}) = m
          BY <2>2, <2>3, FirstInOne
        <5> HIDE DEF b
        <5> QED BY <3>4, <5>1
      <4>2. at \in Nat /\ Len(order) \in Nat /\ ~(at > Len(order))
        BY <2>4, <2>5 DEF CutSoFar
      <4> HIDE DEF b
      <4> QED BY <2>1, <3>4, <4>1, <4>2
    <3>6. \A i \in 1..Len(order) : order[i] = b <=> i = at
      BY <2>3, <3>1 DEF NumberedBefore
    <3>7. \A i \in 2..at : i \in 1..Len(order) /\ order[i] \in Nodes /\ (i = at \/ i \in 2..(at - 1))
      BY <2>2, <2>3, <2>4, <3>1, NumAt
    <3>8. \A i \in (at + 1)..Len(order) : i \in 1..Len(order) /\ order[i] \in Nodes /\ i # at /\ i \in at..Len(order)
      BY <2>2, <2>3, <2>4, <3>1, NumAt
    <3> HIDE DEF b
    <3>9. /\ dom' \in [Nodes -> SUBSET Nodes] /\ dom'[Entry] = {Entry}
          /\ idom' \in [Nodes -> Nodes \cup {Null}] /\ idom'[Entry] = Null
      BY <1>1, <2>4, <3>2, <3>5, GraphShape DEF CutSoFar, CutBefore
    <3>10. \A i \in 2..at : \A a \in Nodes : a \in dom'[order[i]] <=> Imm(a, order[i])
      <4> SUFFICES ASSUME NEW i \in 2..at, NEW a \in Nodes
                   PROVE  a \in dom'[order[i]] <=> Imm(a, order[i])
        OBVIOUS
      <4>1. CASE i = at
        <5>1. order[i] = b /\ dom'[b] = {m}
          BY <2>4, <3>1, <3>2, <3>5, <3>6, <4>1 DEF CutSoFar, CutBefore
        <5>2. Imm(a, b) <=> a = m
          BY <1>1, <3>2, <3>3, ImmUnique DEF DomTyped
        <5> QED BY <5>1, <5>2
      <4>2. CASE i # at
        <5>1. dom'[order[i]] = dom[order[i]] /\ i \in 2..(at - 1)
          BY <2>4, <3>2, <3>5, <3>6, <3>7, <4>2 DEF CutSoFar, CutBefore
        <5> QED BY <2>4, <5>1 DEF CutSoFar, CutBefore
      <4> QED BY <4>1, <4>2
    <3>11. \A i \in (at + 1)..Len(order) : dom'[order[i]] = dom[order[i]]
      BY <2>4, <3>2, <3>5, <3>6, <3>8 DEF CutSoFar, CutBefore
    <3>12. \A i \in 2..at : Imm(idom'[order[i]], order[i])
      <4> SUFFICES ASSUME NEW i \in 2..at PROVE Imm(idom'[order[i]], order[i])
        OBVIOUS
      <4>1. CASE i = at
        BY <2>4, <3>1, <3>2, <3>3, <3>5, <3>6, <4>1 DEF CutSoFar
      <4>2. CASE i # at
        <5>1. idom'[order[i]] = idom[order[i]] /\ i \in 2..(at - 1)
          BY <2>4, <3>2, <3>5, <3>6, <3>7, <4>2 DEF CutSoFar
        <5> QED BY <2>4, <5>1 DEF CutSoFar
      <4> QED BY <4>1, <4>2
    <3>13. (at + 1) - 1 = at /\ at + 1 \in 2..(Len(order) + 1)
      BY <2>4, <3>1
    <3>14. \A i \in (at + 1)..Len(order) : \A a \in Nodes : a \in dom'[order[i]] <=> Dominates(a, order[i])
      BY <2>4, <3>8, <3>11 DEF CutSoFar, CutBefore
    <3>15. CutBefore(at)'
      BY <2>1, <2>2, <3>5, <3>9, <3>10, <3>13, <3>14, SameGraph DEF CutBefore
    <3>16. CutSoFar'
      BY <2>1, <2>2, <3>5, <3>9, <3>12, <3>13, <3>15, SameGraph DEF CutSoFar
    <3> QED BY <1>1, <2>1, <2>2, <2>3, <2>7, <3>5, <3>16
            DEF TreeInv, LengauerTarjanSound, FirstStages
  <2>6. CASE at > Len(order)
    <3>1. stage' = "tree" /\ UNCHANGED idom
      BY <2>1, <2>4, <2>6 DEF CutSoFar
    <3>2. TreeShape
      <4>1. ASSUME NEW x \in Nodes, x # Entry PROVE Imm(idom[x], x)
        <5>1. Num(x) \in 1..Len(order) /\ order[Num(x)] = x /\ Num(x) # 1
          BY <2>2, <2>3, <4>1, NumOf DEF NumberedBefore
        <5>2. Num(x) \in 2..(at - 1)
          BY <2>4, <2>6, <5>1 DEF CutSoFar
        <5> QED BY <2>4, <5>1, <5>2 DEF CutSoFar
      <4> QED BY <2>4, <4>1 DEF TreeShape, CutSoFar
    <3>3. TreeShape'
      BY <2>1, <2>2, <3>1, <3>2, SameGraph DEF TreeShape
    <3> QED BY <1>1, <2>1, <2>2, <2>3, <2>7, <3>1, <3>3
            DEF TreeInv, LengauerTarjanSound, FirstStages
  <2> QED BY <2>1, <2>5, <2>6
<1>8. CASE Semidominator \/ Link \/ Settle \/ BlockDone \/ Defer
  BY <1>8, LoopsStep, DeferLoopStep
<1>9. CASE FastDominancePreComputation \/ ComputeDominanceFrontiers \/ FindNaturalLoops
  BY <1>9, TreeKept
     DEF FastDominancePreComputation, ComputeDominanceFrontiers, FindNaturalLoops, dfsVars,
         FirstStages
<1>10. CASE GetRegDefBlocks \/ InducePhis \/ Generate \/ Run \/ Abort
  BY <1>10, TreeKept DEF GetRegDefBlocks, InducePhis, Generate, Run, Abort, dfsVars, FirstStages
<1>11. CASE UNCHANGED vars
  <2>1. UNCHANGED <<succs, stage, order, stack, parent, dom, at, maps, todo, idom>>
    BY <1>11 DEF vars, dfsVars, domVars
  <2>2. Nodes' = Nodes /\ Visited' = Visited
    BY <2>1 DEF Nodes, Visited
  <2>3. NumberedBefore'
    BY <2>1, <2>2 DEF TreeInv, NumberedBefore
  <2>4. CutSoFar => CutSoFar'
    BY <2>1, <2>2, SameGraph DEF CutSoFar, CutBefore
  <2>5. TreeShape => TreeShape'
    BY <2>1, <2>2, SameGraph DEF TreeShape
  <2>6. SearchSound => SearchSound'
    BY <2>1, <2>2
       DEF SearchSound, ParentsBefore, StackSorted, AncPlace, ParentFrom, OnStack
  <2>7. LengauerTarjanSound'
    BY <2>1, SamePhase DEF TreeInv, LengauerTarjanSound
  <2>8. AsNumbered(Tr) => AsNumbered(Tr)'
    BY <2>1, SamePhase
  <2> QED BY <1>1, <2>1, <2>2, <2>3, <2>4, <2>5, <2>6, <2>7, <2>8 DEF TreeInv, FirstStages
<1> QED
  BY <1>2, <1>3, <1>4, <1>5, <1>6, <1>7, <1>8, <1>9, <1>10, <1>11 DEF Next, Analyze

LEMMA TreeInvariance == Spec => []TreeInv
<1>1. TreeInv /\ [Next]_vars => TreeInv'
  BY TreeStep
<1> QED BY <1>1, TreeInit, PTL DEF Spec

\* When the blocks have been looked at, Sdno holds the semidominator of each: the
\* least number from which it is reached through blocks numbered after it.
SemidominatorsExact == stage = "defer" => \A b \in Nodes \ {Entry} : maps.sdno[b] = Sd(Tr, b)

\* LengauerTarjanDominators computes semidominators, although Eval moves the
\* ancestors and labels of the blocks it passes, in whatever order it is called.
THEOREM SemidominatorsFound == Spec => []SemidominatorsExact
<1>1. TreeInv => SemidominatorsExact
  BY DEF TreeInv, LengauerTarjanSound, Deferring, SemidominatorsExact, Blocks, Tr, Nodes
<1> QED BY <1>1, TreeInvariance, PTL

\* Either algorithm leaves each block with its immediate dominator.
THEOREM ImmediateFound == Spec => []ImmediateExact
<1>1. TreeInv => ImmediateExact
  BY DEF TreeInv, FirstStages, TreeShape, ImmediateExact, Imm
<1> QED BY <1>1, TreeInvariance, PTL
=============================================================================
