------------------------------ MODULE Dominance ------------------------------
(***************************************************************************)
(* regionCFG::analyzeGraph: what is computed on the graph of a region      *)
(* before its code is generated.  The blocks are numbered depth first,     *)
(* dominators are computed (by iteration in a small region, by the         *)
(* algorithm of Lengauer and Tarjan in a large one), the dominator tree is *)
(* numbered, dominance frontiers and natural loops are found, and phi      *)
(* nodes are placed for the registers.  Registers do not depend on each    *)
(* other, so one is followed.  The last stages walk the generated code and *)
(* leave it.                                                               *)
(*                                                                         *)
(* A graph maps each block to its successors; it is what RegionCFG's       *)
(* Compiled yields, with analyzeGraph's empty entry block put before the   *)
(* head.                                                                   *)
(***************************************************************************)
EXTENDS Naturals, Sequences, FiniteSets
INSTANCE FiniteSetsExt

CONSTANTS
    Graphs,         \* the graphs to consider
    ManyBlocks      \* from this number of blocks on Lengauer-Tarjan is used

Null == 0           \* the null pointer
Entry == 1          \* entryBlock
CfgHead == 2        \* cfgHead

\* S is closed under the edges of g, those into block a left aside.
ClosedBut(g, a, S) == \A b \in S : g[b] \ {a} \subseteq S

\* The entry leads to the head and is led to by none; allBlocksReachable.
ASSUME GraphsAssumption ==
    \A g \in Graphs :
        /\ {Entry, CfgHead} \subseteq DOMAIN g
        /\ DOMAIN g \subseteq Nat \ {Null} /\ IsFiniteSet(DOMAIN g)
        /\ g[Entry] = {CfgHead}
        /\ \A b \in DOMAIN g : g[b] \subseteq DOMAIN g \ {Entry}
        /\ \A S \in SUBSET DOMAIN g : Entry \in S /\ ClosedBut(g, Null, S) => S = DOMAIN g
ASSUME ManyBlocksAssumption == ManyBlocks \in Nat

VARIABLES
    succs,      \* the graph, fixed
    stage,      \* how far analyzeGraph is
    order,      \* preOrderVisit; Ndfs
    stack,      \* the calls of dfs in progress, innermost first
    parent,     \* Parent in the depth-first tree
    dom,        \* domMap
    at,         \* where in preOrderVisit the current loop is
    changed,    \* changed
    maps,       \* the maps of LengauerTarjanDominators
    todo,       \* the blocks that its inner loop has still to look at
    idom,       \* idombb of each block
    tree,       \* dt_dfn and dt_max_ancestor_dfn of each block
    frontier,   \* dfrontier of each block
    loops,      \* the natural loops
    defs,       \* gprDefinitionBlocks of the register
    work,       \* workList of inducePhis
    queued,     \* its checkSet
    phis,       \* the blocks with a phi node for the register
    cur,        \* the block that the generated code is in
    fresh       \* the names that hold the register's latest value

dfsVars == <<order, stack, parent>>
domVars == <<dom, changed, maps, todo>>
shapeVars == <<tree, frontier, loops>>
phiVars == <<defs, work, queued, phis>>
runVars == <<cur, fresh>>
vars == <<succs, stage, dfsVars, at, domVars, idom, shapeVars, phiVars, runVars>>

Nodes == DOMAIN succs
Preds(b) == {p \in Nodes : b \in succs[p]}

\* Besides its SSA names the register has its place in memory, s->gpr[].
Memory == [block |-> Null, phi |-> FALSE]

\* LengauerTarjanDominators before it is used.
Unstarted ==
    [ sdno   |-> [b \in Nodes |-> 0],
      anc    |-> [b \in Nodes |-> Null],
      label  |-> [b \in Nodes |-> b],
      bucket |-> [b \in Nodes |-> {}],
      idom   |-> [b \in Nodes |-> Null] ]

Init ==
    /\ succs \in Graphs
    /\ stage = "number"
    /\ order = <<Entry>> /\ stack = <<Entry>>
    /\ parent = [b \in Nodes |-> Null]
    /\ dom = [b \in Nodes |-> Nodes]
    /\ at = 1 /\ changed = FALSE
    /\ maps = Unstarted /\ todo = {}
    /\ idom = [b \in Nodes |-> Null]
    /\ tree = [dfn |-> [b \in Nodes |-> 0], max |-> [b \in Nodes |-> 0]]
    /\ frontier = [b \in Nodes |-> {}]
    /\ loops = {}
    /\ defs = {} /\ work = {} /\ queued = {} /\ phis = {}
    /\ cur = Entry /\ fresh = {}

(***************************************************************************)
(* Depth-first numbering.  Successors are visited in the order of their    *)
(* addresses in memory, that is in any order.                              *)
(***************************************************************************)
Visited == {order[i] : i \in DOMAIN order}

\* Mutant: a successor that has a number is visited again.
NotNumbered_Any(t) == Len(order) <= Cardinality(Nodes)
NotNumbered(t) == t \notin Visited

Descend ==
    /\ stage = "number" /\ stack # <<>>
    /\ \E t \in succs[stack[1]] :
        /\ NotNumbered(t)
        /\ order' = Append(order, t)
        /\ stack' = <<t>> \o stack
        /\ parent' = [parent EXCEPT ![t] = stack[1]]
    /\ UNCHANGED <<succs, stage, at, domVars, idom, shapeVars, phiVars, runVars>>

Return ==
    /\ stage = "number" /\ stack # <<>>
    /\ \A t \in succs[stack[1]] : t \in Visited
    /\ stack' = Tail(stack)
    /\ UNCHANGED <<succs, stage, order, parent, at, domVars, idom, shapeVars, phiVars, runVars>>

\* LengauerTarjanDominators at the end of its DFS.
Num(b) == CHOOSE i \in DOMAIN order : order[i] = b

Started == [Unstarted EXCEPT !.sdno = [b \in Nodes |-> Num(b)]]

\* analyzeGraph's choice between the two algorithms; domMap as it is before
\* the iteration.
Numbered ==
    /\ stage = "number" /\ stack = <<>>
    /\ IF Cardinality(Nodes) < ManyBlocks
       THEN /\ stage' = "visit" /\ at' = 1
            /\ dom' = [dom EXCEPT ![Entry] = {Entry}]
            /\ UNCHANGED <<maps, todo>>
       ELSE /\ stage' = "semi" /\ at' = Len(order)
            /\ maps' = Started /\ todo' = Preds(order[at'])
            /\ UNCHANGED dom
    /\ UNCHANGED <<succs, dfsVars, changed, idom, shapeVars, phiVars, runVars>>

(***************************************************************************)
(* computeDominance: iterate over the blocks until nothing changes.        *)
(***************************************************************************)
\* Mutant: the block itself is left to the predecessors.
Meet_NotItself(d, b) == {a \in d[b] : \A p \in Preds(b) : a \in d[p]}
Meet(d, b) == {a \in d[b] : \A p \in Preds(b) : a \in d[p]} \cup {b}

\* Mutant: every visit counts as a change.
Changed_Always(new, b) == TRUE
Changed(new, b) == changed \/ new # dom[b]

Visit ==
    /\ stage = "visit" /\ at <= Len(order)
    /\ LET b == order[at]
           new == Meet(dom, b)
       IN  /\ dom' = [dom EXCEPT ![b] = new]
           /\ changed' = Changed(new, b)
    /\ at' = at + 1
    /\ UNCHANGED <<succs, stage, dfsVars, maps, todo, idom, shapeVars, phiVars, runVars>>

\* The end of a pass over the blocks.
PassDone ==
    /\ stage = "visit" /\ at > Len(order)
    /\ IF changed THEN at' = 1 /\ UNCHANGED stage ELSE at' = 2 /\ stage' = "idom"
    /\ changed' = FALSE
    /\ UNCHANGED <<succs, dfsVars, dom, maps, todo, idom, shapeVars, phiVars, runVars>>

\* What is left of the strict dominators of b: each of them, from the first
\* numbered on, strikes out those in its own entry of domMap, where by now
\* only its immediate dominator is left.
Unstruck(b) ==
    LET left[i \in 0..Len(order)] ==
          IF i = 0 THEN dom[b] \ {b}
          ELSE left[i - 1] \ (IF order[i] \in left[i - 1] THEN dom[order[i]] \ {order[i]} ELSE {})
    IN  left[Len(order)]

FirstIn(S) == order[Min({i \in DOMAIN order : order[i] \in S})]

ImmediateDom ==
    /\ stage = "idom"
    /\ IF at <= Len(order)
       THEN LET b == order[at] IN
            /\ dom' = [dom EXCEPT ![b] = Unstruck(b)]
            /\ idom' = [idom EXCEPT ![b] = FirstIn(Unstruck(b))]
            /\ at' = at + 1
            /\ UNCHANGED stage
       ELSE stage' = "tree" /\ UNCHANGED <<dom, at, idom>>
    /\ UNCHANGED <<succs, dfsVars, changed, maps, todo, shapeVars, phiVars, runVars>>

(***************************************************************************)
(* class LengauerTarjanDominators, on the same depth-first numbering.  Its *)
(* maps are a record L: sdno, anc (Ancestor), label, bucket and idom.      *)
(***************************************************************************)
Maps == [ sdno : [Nodes -> Nat], anc : [Nodes -> Nodes \cup {Null}], label : [Nodes -> Nodes],
          bucket : [Nodes -> SUBSET Nodes], idom : [Nodes -> Nodes \cup {Null}] ]

\* Compress has something to do for b: the ancestor of b is not a root.
Chained(L, b) == L.anc[b] # Null /\ L.anc[L.anc[b]] # Null

\* What it does once the ancestor a of b is compressed: b takes over the label
\* of a if that has the lesser semidominator, and the ancestor of a.
Shortened(L, b) ==
    LET a == L.anc[b]
    IN  [L EXCEPT !.label[b] = IF L.sdno[L.label[a]] < L.sdno[L.label[b]]
                               THEN L.label[a] ELSE L.label[b],
                  !.anc[b] = L.anc[a]]

\* Eval's effect; its result is the label of b.
Eval(L, b) ==
    LET compress[c \in Nodes] ==
          IF Chained(L, c) THEN Shortened(compress[L.anc[c]], c) ELSE L
    IN  compress[b]

\* The loop over the blocks, the last numbered first.  First the predecessors of
\* block w, in any order: w's semidominator, in view of p.
Lowered(L, w, p) ==
    LET s == L.sdno[L.label[p]] IN [L EXCEPT !.sdno[w] = IF s < L.sdno[w] THEN s ELSE L.sdno[w]]

Semidominator ==
    /\ stage = "semi"
    /\ \E p \in todo :
        /\ maps' = Lowered(Eval(maps, p), order[at], p)
        /\ todo' = todo \ {p}
    /\ UNCHANGED <<succs, stage, dfsVars, at, dom, changed, idom, shapeVars, phiVars, runVars>>

\* Then w goes into the bucket of its semidominator and is linked to its parent,
\* whose bucket is looked at next.
Linked(L, w) ==
    LET s == order[L.sdno[w]]
    IN  [L EXCEPT !.bucket[s] = L.bucket[s] \cup {w}, !.anc[w] = parent[w]]

Link ==
    /\ stage = "semi" /\ todo = {}
    /\ maps' = Linked(maps, order[at])
    /\ todo' = maps'.bucket[parent[order[at]]]
    /\ stage' = "bucket"
    /\ UNCHANGED <<succs, dfsVars, at, dom, changed, idom, shapeVars, phiVars, runVars>>

\* Block v of the bucket of q.
Settled(L, q, v) ==
    LET u == L.label[v] IN [L EXCEPT !.idom[v] = IF L.sdno[u] < L.sdno[v] THEN u ELSE q]

Settle ==
    /\ stage = "bucket"
    /\ \E v \in todo :
        /\ maps' = Settled(Eval(maps, v), parent[order[at]], v)
        /\ todo' = todo \ {v}
    /\ UNCHANGED <<succs, stage, dfsVars, at, dom, changed, idom, shapeVars, phiVars, runVars>>

\* The bucket is emptied, and the next block is up.
Emptied(L, q) == [L EXCEPT !.bucket[q] = {}]

BlockDone ==
    /\ stage = "bucket" /\ todo = {}
    /\ maps' = Emptied(maps, parent[order[at]])
    /\ IF at > 2
       THEN at' = at - 1 /\ todo' = Preds(order[at']) /\ stage' = "semi"
       ELSE at' = 2 /\ stage' = "defer" /\ UNCHANGED todo
    /\ UNCHANGED <<succs, dfsVars, dom, changed, idom, shapeVars, phiVars, runVars>>

\* The last loop, over the blocks whose immediate dominator is not settled yet.
\* Mutant: they stay as they are.
Deferred_Not(w) == maps.idom[w]
Deferred(w) ==
    IF maps.idom[w] = order[maps.sdno[w]] THEN maps.idom[w] ELSE maps.idom[maps.idom[w]]

Resolved(w) == [maps EXCEPT !.idom[w] = Deferred(w)]

Defer ==
    /\ stage = "defer"
    /\ IF at <= Len(order)
       THEN /\ maps' = Resolved(order[at])
            /\ at' = at + 1
            /\ UNCHANGED <<stage, idom>>
       ELSE stage' = "tree" /\ idom' = maps.idom /\ UNCHANGED <<maps, at>>
    /\ UNCHANGED <<succs, dfsVars, dom, changed, todo, shapeVars, phiVars, runVars>>

(***************************************************************************)
(* What is read off the dominator tree.                                    *)
(***************************************************************************)
\* The blocks from p up the dominator tree to, but not with, block stop.
Upto(p, stop) ==
    LET up[b \in Nodes \cup {Null}] ==
          IF b \in {stop, Null} THEN {} ELSE {b} \cup up[idom[b]]
    IN  up[p]

Below(b) == {x \in Nodes : b \in Upto(x, Null)}

\* The number of a block when those below a block are met in order of address:
\* its siblings before it, with all that is below them, come first.
PreNumber ==
    LET dfn[b \in Nodes] ==
          IF b = Entry THEN 1
          ELSE dfn[idom[b]] + 1
                 + Cardinality(UNION {Below(t) : t \in {x \in Nodes : x < b /\ idom[x] = idom[b]}})
    IN  [b \in Nodes |-> dfn[b]]

\* Mutant: the number after the last one below the block.
MaxBelow_OneMore(first, below) == first + below
MaxBelow(first, below) == first + below - 1

FastDominancePreComputation ==
    /\ stage = "tree"
    /\ tree' = [dfn |-> PreNumber,
                max |-> [b \in Nodes |-> MaxBelow(PreNumber[b], Cardinality(Below(b)))]]
    /\ stage' = "frontier"
    /\ UNCHANGED <<succs, dfsVars, at, domVars, idom, frontier, loops, phiVars, runVars>>

ComputeDominanceFrontiers ==
    /\ stage = "frontier"
    /\ frontier' =
         [n \in Nodes |->
            {b \in Nodes : Cardinality(Preds(b)) > 1
                             /\ \E p \in Preds(b) : n \in Upto(p, idom[b])}]
    /\ stage' = "loops"
    /\ UNCHANGED <<succs, dfsVars, at, domVars, idom, tree, loops, phiVars, runVars>>

FastDominates(a, b) ==
    a = b \/ (tree.dfn[a] < tree.dfn[b] /\ tree.max[a] >= tree.dfn[b])

\* cfgBasicBlock::dominates, by climbing up the tree from b.
Climbs(a, b) ==
    a = b \/ idom[b] = a \/ (idom[a] # b /\ a \in Upto(idom[b], Null))

\* Mutant: an edge to a block that was numbered before goes back.
BackEdge_Numbered(l, h) == h \in succs[l] /\ tree.dfn[h] <= tree.dfn[l]
BackEdge(l, h) == h \in succs[l] /\ FastDominates(h, l)

\* findLoop: the blocks from which l is reached without passing h.
LoopOf(l, h) ==
    LET back[k \in Nat] ==
          IF k = 0 THEN {l}
          ELSE back[k - 1] \cup UNION {Preds(b) : b \in back[k - 1] \ {h}}
    IN  back[Cardinality(Nodes)]

FindNaturalLoops ==
    /\ stage = "loops"
    /\ loops' = {[head |-> h, body |-> UNION {LoopOf(l, h) : l \in {x \in Nodes : BackEdge(x, h)}}] :
                   h \in {x \in Nodes : \E l \in Nodes : BackEdge(l, x)}}
    /\ stage' = "defs"
    /\ UNCHANGED <<succs, dfsVars, at, domVars, idom, tree, frontier, phiVars, runVars>>

(***************************************************************************)
(* insertPhis for one register, which any set of blocks may define.  The   *)
(* entry block loads a register that is defined or read anywhere; if it is *)
(* defined, that load is one of the definitions.  The instruction counter  *)
(* is a register that every block defines.                                 *)
(***************************************************************************)
GetRegDefBlocks ==
    /\ stage = "defs"
    /\ defs' \in {{}} \cup {D \cup {Entry} : D \in (SUBSET (Nodes \ {Entry})) \ {{}}}
    /\ work' = defs' /\ queued' = defs'
    /\ stage' = "phis"
    /\ UNCHANGED <<succs, dfsVars, at, domVars, idom, shapeVars, phis, runVars>>

\* Mutant: a block that got a phi node is not considered again.
Requeued_Never(b) == {}
Requeued(b) == frontier[b] \ queued

InducePhis ==
    /\ stage = "phis"
    /\ \E b \in work :
        /\ phis' = phis \cup frontier[b]
        /\ work' = (work \ {b}) \cup Requeued(b)
        /\ queued' = queued \cup frontier[b]
    /\ UNCHANGED <<succs, stage, dfsVars, at, domVars, idom, shapeVars, defs, runVars>>

(***************************************************************************)
(* traverseAndRename and patchUpPhiNodes.  A block hands its register      *)
(* table down the dominator tree; In and Out are the names in the          *)
(* register's entry after the block's phi nodes and at its end.  The phi   *)
(* of a block takes the Out of the predecessor control came from.          *)
(***************************************************************************)
DefOf(b) == [block |-> b, phi |-> FALSE]
PhiOf(b) == [block |-> b, phi |-> TRUE]

Out(b) ==
    LET end[x \in Nodes] == IF x \in defs \cup {Entry} THEN DefOf(x)
                            ELSE IF x \in phis THEN PhiOf(x) ELSE end[idom[x]]
    IN  end[b]

In(b) == IF b \in phis THEN PhiOf(b) ELSE Out(idom[b])

\* The code is generated, and starts in the entry block with its load.
Generate ==
    /\ stage = "phis" /\ work = {}
    /\ stage' = "run"
    /\ cur' = Entry /\ fresh' = {Memory, DefOf(Entry)}
    /\ UNCHANGED <<succs, dfsVars, at, domVars, idom, shapeVars, phiVars>>

\* The names that hold the latest value at the end of block b.
AtEnd(b) == IF b \in defs \ {Entry} THEN {DefOf(b)} ELSE fresh

Incoming(b) == Out(b)

\* The code goes from one block to the next.
Run ==
    /\ stage = "run"
    /\ \E t \in succs[cur] :
        /\ cur' = t
        /\ fresh' = IF t \notin phis THEN AtEnd(cur)
                    ELSE IF Incoming(cur) \in AtEnd(cur) THEN AtEnd(cur) \cup {PhiOf(t)}
                    ELSE AtEnd(cur) \ {PhiOf(t)}
    /\ UNCHANGED <<succs, stage, dfsVars, at, domVars, idom, shapeVars, phiVars>>

\* Which registers an abort block of b stores.
\* Mutant: those that b has defined.
Stored_OwnOnly(b) == b \in defs
Stored(b) == defs # {}

\* The code is left at the end of a block, through its abort block.
Abort ==
    /\ stage = "run" /\ cur # Entry
    /\ stage' = "left"
    /\ fresh' = IF ~Stored(cur) THEN AtEnd(cur)
                ELSE IF Out(cur) \in AtEnd(cur) THEN AtEnd(cur) \cup {Memory}
                ELSE AtEnd(cur) \ {Memory}
    /\ UNCHANGED <<succs, dfsVars, at, domVars, idom, shapeVars, phiVars, cur>>

Analyze ==
    \/ Descend \/ Return \/ Numbered
    \/ Visit \/ PassDone \/ ImmediateDom
    \/ Semidominator \/ Link \/ Settle \/ BlockDone \/ Defer
    \/ FastDominancePreComputation \/ ComputeDominanceFrontiers \/ FindNaturalLoops
    \/ GetRegDefBlocks \/ InducePhis \/ Generate

Next == Analyze \/ Run \/ Abort

Spec == Init /\ [][Next]_vars

\* One thread, which never waits.
FairSpec == Spec /\ WF_vars(Analyze)

-----------------------------------------------------------------------------
(***************************************************************************)
(* Properties.                                                             *)
(***************************************************************************)
\* Block a dominates b: the blocks reached from the entry without passing a,
\* which are in every set that holds the entry and is closed, leave b out.
Dominates(a, b) ==
    \/ a = b
    \/ \E S \in SUBSET Nodes :
          /\ a # Entry => Entry \in S
          /\ ClosedBut(succs, a, S)
          /\ b \notin S

Stages == {"number", "visit", "semi", "bucket", "defer", "idom", "tree", "frontier", "loops",
           "defs", "phis", "run", "left"}

Names == [block : Nodes \cup {Null}, phi : BOOLEAN]

\* Types: every block is numbered at most once, and each map of analyzeGraph
\* holds blocks of the region.
TypeOK ==
    /\ stage \in Stages
    /\ order \in Seq(Nodes) /\ Len(order) <= Cardinality(Nodes)
    /\ stack \in Seq(Nodes)
    /\ parent \in [Nodes -> Nodes \cup {Null}]
    /\ dom \in [Nodes -> SUBSET Nodes]
    /\ at \in 1..(Cardinality(Nodes) + 1)
    /\ changed \in BOOLEAN
    /\ maps \in Maps /\ todo \subseteq Nodes
    /\ idom \in [Nodes -> Nodes \cup {Null}]
    /\ tree \in [dfn : [Nodes -> Nat], max : [Nodes -> Nat]]
    /\ frontier \in [Nodes -> SUBSET Nodes]
    /\ loops \subseteq [head : Nodes, body : SUBSET Nodes]
    /\ defs \subseteq Nodes /\ work \subseteq Nodes /\ queued \subseteq Nodes
    /\ phis \subseteq Nodes
    /\ cur \in Nodes
    /\ fresh \subseteq Names

\* When a pass has left domMap as it was, domMap holds exactly the dominators
\* of each block, whatever the shape of the region and the numbering: nothing
\* that dominates was struck out on the way, and nothing else is left.
DominatorsExact ==
    (stage = "idom" /\ at = 2) =>
       \A b \in Nodes : dom[b] = {a \in Nodes : Dominates(a, b)}

\* While the iteration is under way domMap errs on one side only.
DominatorsKept ==
    stage \in {"number", "visit"} =>
       \A a, b \in Nodes : Dominates(a, b) => a \in dom[b]

\* Both algorithms find the immediate dominator: it strictly dominates the
\* block and every other strict dominator dominates it.
ImmediateExact ==
    stage = "tree" =>
       /\ idom[Entry] = Null
       /\ \A b \in Nodes \ {Entry} :
             LET strict == {a \in Nodes \ {b} : Dominates(a, b)}
             IN  idom[b] \in strict /\ \A a \in strict : Dominates(a, idom[b])

\* The constant-time test and the climb up the tree answer as dominance does
\* (the assertion d0 == d1 of fastDominancePreComputation, which is switched
\* off and only compares the two).
FastDominanceExact ==
    stage = "frontier" =>
       \A a, b \in Nodes :
          /\ FastDominates(a, b) <=> Dominates(a, b)
          /\ Climbs(a, b) <=> Dominates(a, b)

\* A natural loop is entered at its head only, from each of its blocks the head
\* is reached inside the loop, and the blocks of two loops with different heads
\* are disjoint or one loop lies inside the other.
LoopsNatural ==
    stage = "defs" =>
       \A x \in loops :
          /\ x.head \in x.body
          /\ \A b \in Nodes \ x.body : succs[b] \cap x.body \subseteq {x.head}
          /\ \A S \in SUBSET x.body :
                (x.head \in S /\ \A b \in x.body : succs[b] \cap S # {} => b \in S)
                   => S = x.body
          /\ \A y \in loops :
                \/ x.body \cap y.body = {}
                \/ x.body \subseteq y.body \/ y.body \subseteq x.body

\* Wherever the generated code goes, the name a block reads the register by
\* holds the register's latest value: a join that merges two values has a phi
\* node.
ReadsLatest == stage = "run" /\ cur # Entry => In(cur) \in fresh

\* Wherever it is left, s->gpr[] holds the register's latest value, although an
\* abort block only stores registers that some block of the region defines, and
\* stores all of them, from whichever names its own block knows.
StoredLatest == stage = "left" => Memory \in fresh

\* The analysis ends: the passes over domMap come to one that changes nothing.
AnalysisEnds == <>(stage = "run")
=============================================================================
