----------------------------- MODULE RegionCFG -----------------------------
(***************************************************************************)
(* Class regionCFG up to code generation: from the loops recorded for a    *)
(* head to the set of blocks that is compiled together.  Dominance, phi    *)
(* placement and LLVM are not modelled; of them only the conditions under  *)
(* which they abort are kept.                                              *)
(***************************************************************************)
EXTENDS BlockGraph, RegionOps
INSTANCE SequencesExt

CONSTANTS
    CfgAug,     \* globals::cfgAug, how blocks outside the traces are added
    MaxLen,     \* length of a path at which a search gives up, 1024
    Orders      \* orders in which a search may take a block's successors

ASSUME CfgAugAssumption == CfgAug \in {"none", "head", "aggressive", "insane"}
ASSUME OrdersAssumption ==
    /\ Orders # {}
    /\ Orders \subseteq [Addr -> Addr]
    /\ \A o \in Orders : \A a \in Addr : \E i \in Addr : o[i] = a
ASSUME MaxLenAssumption == MaxLen \in Nat

HasKind(c, G, b, K) == \E a \in Words(G, b) : c[a].kind \in K

\* Mutant: a search goes on through an indirect jump.
DeadEnds_EcallOnly == {"ecall"}
DeadEnds == Indirect \cup {"ecall"}

\* Where aug_dfs turns back: at a jump-and-link that leads neither to the
\* target nor to a block already seen, at an indirect jump and at an ecall.
Blocked(c, G, b, target, seen) ==
    IF HasKind(c, G, b, {"jal"})
    THEN G.succs[b] \cap (seen \cup {target}) = {}
    ELSE HasKind(c, G, b, DeadEnds)

\* What block b adds to the path after the search r from a successor.
\* Mutant: b is reported although that search has not found the target.
Reported_Always(b, r) == r.path \cup {b}
Reported(b, r) == IF r.path # {} THEN r.path \cup {b} ELSE {}

\* A search marks the blocks it has seen and collects those on the paths it
\* finds to the target; there are none when it fails.
Failed(seen) == [seen |-> seen, path |-> {}]

\* Block b has tried some of its successors, with result acc, and now tries t.
\* All successors are tried, but a block already seen is not a way to the target
\* again.
Tried(G, b, t, acc, deeper) ==
    IF t \in G.succs[b]
    THEN LET r == deeper[<<t, acc.seen>>]
         IN  [seen |-> r.seen, path |-> acc.path \cup Reported(b, r)]
    ELSE acc

\* The loop over the successors, by decreasing execution count, which order
\* stands for.
TryAll(G, b, order, seen, deeper) ==
    LET tried[i \in Nat] ==
          IF i = 0 THEN Failed(seen) ELSE Tried(G, b, order[i], tried[i - 1], deeper)
    IN  tried[N]

\* aug_dfs on a block, with a set of blocks seen, when the path may grow by
\* another left blocks; deeper is aug_dfs one block further on.
Visit(c, G, target, order, left, deeper) ==
    [at \in Addr \X SUBSET Addr |->
       LET b == at[1]
           seen == at[2] \cup {b}
       IN  IF b = target THEN [seen |-> at[2], path |-> {b}]
           ELSE IF left = 0 \/ b \in at[2] THEN Failed(at[2])
           ELSE IF Blocked(c, G, b, target, seen) THEN Failed(seen)
           ELSE TryAll(G, b, order, seen, deeper)]

\* The blocks that aug_dfs reports from block s.
Search(c, G, s, target, order) ==
    LET dfs[left \in Nat] == Visit(c, G, target, order, left, dfs[left - 1])
    IN  dfs[MaxLen][<<s, {}>>].path

Pairs(bs) == {p \in bs \X bs : p[1] # p[2]}

\* One more pair of blocks in the search of cfgAug insane.
Joined(c, G, found, s, target, order) ==
    IF <<s, target>> \in Pairs(found) THEN found \cup Search(c, G, s, target, order)
    ELSE found

\* cfgAug insane: the set that is iterated over, in the order of its blocks'
\* addresses, grows while it is.
Insane(c, G, bs, order) ==
    LET grown[k \in Nat] ==
          IF k = 0 THEN bs
          ELSE Joined(c, G, grown[k - 1],
                      order[((k - 1) % N) + 1], order[((k - 1) \div N) + 1], order)
    IN  grown[N * N]

\* The switch on cfgAug: what is added to the blocks bs of the traces.
Discovered(aug, c, G, h, bs, order) ==
    CASE aug = "none" -> {}
      [] aug = "head" -> UNION {Search(c, G, h, b, order) : b \in bs}
      [] aug = "aggressive" -> UNION {Search(c, G, p[1], p[2], order) : p \in Pairs(bs)}
      [] aug = "insane" -> Insane(c, G, bs, order)

\* Mutant: the instructions are not looked at.
AllAccepted_Any(c, G, b) == TRUE
AllAccepted(c, G, b) == \A a \in Words(G, b) : CanCompileInstr(c[a])

\* canCompileRegion: every instruction is accepted, and a block without a
\* transfer falls into the next one of the trace.
CanCompileRegion(c, G, trace) ==
    \A i \in DOMAIN trace :
        LET b == trace[i]
            next == trace[(i % Len(trace)) + 1]
        IN  /\ AllAccepted(c, G, b)
            /\ (\A a \in Words(G, b) : ~IsBranchOrJump(c[a])) => G.term[b] + 1 = next

TraceBlocks(ts) == UNION {ToSet(t) : t \in ts}

\* The blocks of a region.
RegionBlocks(c, G, h, ts, order) ==
    LET bs == TraceBlocks(ts) IN bs \cup Discovered(CfgAug, c, G, h, bs, order)

\* The compiled code of head h: each block as it is now, and the edges known
\* between the blocks.  A region of one block gets an edge to itself.
NoCode == [blocks |-> {}, last |-> [b \in Addr |-> 0], succs |-> [b \in Addr |-> {}]]

Compiled(G, bs) ==
    [ blocks |-> bs,
      last   |-> [b \in Addr |-> IF b \in bs THEN G.last[b] ELSE 0],
      succs  |-> [b \in Addr |-> IF bs = {b} THEN {b}
                                 ELSE IF b \in bs THEN G.succs[b] \cap bs ELSE {}] ]

\* What k rounds along the edges E make of the set S.
Grown(E, S, k) ==
    LET grown[i \in Nat] ==
          IF i = 0 THEN S ELSE grown[i - 1] \cup UNION {E[b] : b \in grown[i - 1]}
    IN  grown[k]

\* Blocks reachable from h along the edges of compiled code cd.
ReachableIn(cd, h) == Grown(cd.succs, {h}, Cardinality(cd.blocks))

\* basicBlock::sanityCheck of one block.  Its loop over the predecessors holds
\* what it finds in succs against preds.end(), and so never fails.
SanityCheck(c, G, b) ==
    /\ \A a \in b..(G.last[b] - 1) : ~IsBranchOrJump(c[a])
    /\ \A t \in G.succs[b] : b \in G.preds[t]

\* checkIfPlausableSuccessors: a branch goes to its target or past itself (the
\* jumps are no iBranchTypeInsn and are not looked at).
PlausibleEdges(c, cd, b) ==
    LET z == cd.last[b]
    IN  c[z].kind \in Conditional => cd.succs[b] \subseteq c[z].tgt \cup {z + 1}

\* How buildCFG fails, in the order in which it looks: the process is gone.
\*   "noloop"  regionProb.at(head) throws      "insane"     sanityCheck
\*   "noinsn"  getInsn returned no translation "impossible" impossible edge
\*   "island"  not all blocks reachable        "x0"         x0 is defined
\*   "nojump"  insn_j finds no successor
\*   "nocall"  insn_jal takes the first of no successors (undefined in C++; the
\*             null pointer that a std::set gives is dereferenced)
BuildFault(c, G, h, bs) ==
    LET cd == Compiled(G, bs)
        words == UNION {Words(G, b) : b \in bs}
    IN  CASE \A b \in ReachableIn(cd, h) : h \notin G.succs[b] -> "noloop"
          [] \E b \in bs : ~SanityCheck(c, G, b) -> "insane"
          [] \E a \in words : ~HasTranslation(c[a]) -> "noinsn"
          [] \E b \in bs : ~PlausibleEdges(c, cd, b) -> "impossible"
          [] ReachableIn(cd, h) # bs -> "island"
          [] \E a \in words : c[a].kind = "nop" -> "x0"
          [] \E b \in bs : /\ c[G.last[b]].kind = "j"
                             /\ c[G.last[b]].tgt \cap cd.succs[b] = {} -> "nojump"
          [] \E b \in bs : c[G.last[b]].kind = "jal" /\ cd.succs[b] = {} -> "nocall"
          [] OTHER -> "none"

-----------------------------------------------------------------------------
(***************************************************************************)
(* Properties of the regions that could be built from the current graph.   *)
(* Recordings of head h are loops through h over known edges, so that the  *)
(* blocks of several of them are any set that is strongly connected.       *)
(***************************************************************************)
Closure(E, S) == Grown(E, S, N)

Within(E, S) == [b \in Addr |-> E[b] \cap S]
Backwards(E, S) == [t \in Addr |-> {b \in S : t \in E[b]}]

\* Within S, the edges E lead from h to every block and from every block to h.
Connected(h, S, E) ==
    /\ Closure(Within(E, S), {h}) = S
    /\ Closure(Backwards(E, S), Backwards(E, S)[h]) = S

Traced(h) ==
    {bs \in {{h} \cup other : other \in SUBSET ((graph.blocks \cap graph.ro) \ {h})} :
       Connected(h, bs, graph.succs)}

StopsASearch == Indirect \cup {"ecall"}

PassesThrough(b) == ~HasKind(code, graph, b, {"jal"} \cup StopsASearch)

Onwards(t) ==
    [b \in Addr |-> IF b # t /\ PassesThrough(b) THEN graph.succs[b] ELSE {}]

\* In a program without jump-and-link aug_dfs finds a path exactly when there
\* is one whose blocks before the target end in a direct transfer: the blocks
\* one attempt marks as seen never hide the target from a later one, the order
\* in which successors are tried decides nothing, and the limit on the length
\* cuts nothing off as long as it is not below the number of blocks less one.
SearchDecides ==
    (/\ Dispatching /\ cBB \in graph.ro
     /\ \A a \in Addr : code[a].kind # "jal"
     /\ Cardinality(graph.blocks) <= MaxLen + 1) =>
       \A t \in graph.blocks : \A order \in Orders :
          (Search(code, graph, cBB, t, order) # {}) <=> t \in Closure(Onwards(t), {cBB})

\* Augmented or not, a region leads from its head to all of its blocks and from
\* all of its blocks back, and a block that was not recorded has no indirect
\* jump; so none of the checks of buildCFG fails but, on a word it does not know
\* or that writes x0, the translation of single instructions.
RegionsWellBuilt ==
    (Dispatching /\ cBB \in graph.ro) =>
      \A bs \in Traced(cBB) :
      \A all \in {bs \cup Discovered(aug, code, graph, cBB, bs, order) :
                    aug \in {CfgAug, "insane"}, order \in Orders} :
        LET h == cBB
            cd == Compiled(graph, all)
        IN  /\ Connected(h, all, cd.succs)
            /\ \A b \in all \ bs : ~HasKind(code, graph, b, StopsASearch)
            /\ (\A b \in all : ~HasKind(code, graph, b, {"nop", "fence", "csr"})) =>
                  BuildFault(code, graph, h, all) = "none"
=============================================================================
