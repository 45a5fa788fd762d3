----------------------------- MODULE BlockGraph -----------------------------
(***************************************************************************)
(* The basic block graph that the interpreter discovers while it runs the  *)
(* guest, and the main loop that alternates between building blocks one    *)
(* instruction at a time and running the blocks already built.  The region *)
(* finder is inert here, as it is under --profile; module Translator adds  *)
(* it.                                                                     *)
(*                                                                         *)
(* A block is named by its entry address (bbMap holds at most one block    *)
(* per entry).  vecIns is always the run of words entry..last, so only its *)
(* last address is kept; succsMap is keyed by the successor's entry and is *)
(* written together with succs, so it is succs.                            *)
(***************************************************************************)
EXTENDS Guest

VARIABLES
    code,   \* the guest program, fixed
    pc,     \* s->pc
    brk,    \* s->brk
    host,   \* the tohost word
    graph,  \* bbMap, insMap and the blocks
    cBB,    \* globals::cBB
    unit    \* the activation of basicBlock::run, if any

guestVars == <<code, pc, brk, host>>
vars == <<code, pc, brk, host, graph, cBB, unit>>

(***************************************************************************)
(* The graph and the operations of class basicBlock on it.                 *)
(***************************************************************************)
EmptyGraph ==
    [ blocks |-> {},                          \* the domain of bbMap
      last   |-> [b \in Addr |-> 0],          \* address of vecIns.back()
      term   |-> [b \in Addr |-> 0],          \* termAddr, 0 when unset
      ro     |-> {},                          \* blocks with readOnly set
      succs  |-> [b \in Addr |-> {}],
      preds  |-> [b \in Addr |-> {}],
      ins    |-> [a \in Addr |-> NoBlock],    \* insMap
      died   |-> FALSE ]                      \* die() was called

Words(G, b) == b..G.last[b]

\* The constructor: an empty block, entered in bbMap.
NewBlock(G, b) ==
    [G EXCEPT !.blocks = @ \cup {b},
              !.last = [G.last EXCEPT ![b] = b - 1]]

AddIns(G, b, a) ==
    IF b \in G.ro THEN G
    ELSE [G EXCEPT !.last = [G.last EXCEPT ![b] = a],
                   !.ins = [G.ins EXCEPT ![a] = b]]

\* Mutant: the address after the last instruction.
SetTermAddr_Next(G, b, a) == [G EXCEPT !.term = [G.term EXCEPT ![b] = a + 1]]
SetTermAddr(G, b, a) ==
    IF G.term[b] = 0 THEN [G EXCEPT !.term = [G.term EXCEPT ![b] = a]] ELSE G

SetReadOnly(G, b) == [G EXCEPT !.ro = @ \cup {b}]

FallsThru(c, G, b) == ~IsBranchOrJump(c[G.last[b]])

\* hasjr, hasjalr or hasmonitor; setReadOnly computes the flags.
ManyTargets(c, G, b) ==
    /\ b \in G.ro
    /\ \E a \in Words(G, b) : IsIndirect(c[a]) \/ IsMonitor(c[a])

Die(G) == [G EXCEPT !.died = TRUE]

Link(G, b, t) ==
    [G EXCEPT !.succs = [G.succs EXCEPT ![b] = G.succs[b] \cup {t}],
              !.preds = [G.preds EXCEPT ![t] = G.preds[t] \cup {b}]]

TooMany(c, G, b, t) ==
    Cardinality(G.succs[b] \cup {t}) > 2 /\ ~ManyTargets(c, G, b)

\* Mutant: the successors are not looked up.
KnownSuccessor_Never(G, b, t) == FALSE
KnownSuccessor(G, b, t) == t \in G.succs[b]

AddSuccessor(c, G, b, t) ==
    IF KnownSuccessor(G, b, t) THEN G
    ELSE IF FallsThru(c, G, b) /\ G.succs[b] # {} THEN Die(G)
    ELSE IF TooMany(c, G, b, t) THEN Die(Link(G, b, t))
    ELSE Link(G, b, t)

\* A split of block v at address t: v keeps v..t-1 and falls into the new
\* block t, which takes over the rest of the instructions, the successors and
\* the terminal address.
\* Mutants: the tail gets no successors; the cut block keeps its own.
SplitSuccs_TailAlone(G, v, t) == [G.succs EXCEPT ![v] = {t}, ![t] = {}]
SplitSuccs_Kept(G, v, t) == [G.succs EXCEPT ![v] = G.succs[v] \cup {t}, ![t] = G.succs[v]]
SplitSuccs(G, v, t) == [G.succs EXCEPT ![v] = {t}, ![t] = G.succs[v]]

\* Mutant: the successors keep the cut block as their predecessor.
SplitPreds_NotRelinked(G, v, t) == [G.preds EXCEPT ![t] = G.preds[t] \cup {v}]
SplitPreds(G, v, t) ==
    [x \in Addr |-> ((IF x \in G.succs[v] THEN G.preds[x] \ {v} ELSE G.preds[x])
                       \cup (IF x \in G.succs[v] THEN {t} ELSE {}))
                       \cup (IF x = t THEN {v} ELSE {})]

\* Mutant: the cut block keeps its terminal address.
SplitTerm_Stale(G, v, t) == [G.term EXCEPT ![t] = G.term[v]]
SplitTerm(G, v, t) == [G.term EXCEPT ![v] = t - 1, ![t] = G.term[v]]

\* Mutant: insMap keeps naming the cut block.
SplitIns_Stale(G, v, t) == [G.ins EXCEPT ![t] = t]
SplitIns(G, v, t) == [a \in Addr |-> IF a \in t..G.last[v] THEN t ELSE G.ins[a]]

Split(G, v, t) ==
    [ blocks |-> G.blocks \cup {t},
      last   |-> [G.last EXCEPT ![v] = t - 1, ![t] = G.last[v]],
      term   |-> SplitTerm(G, v, t),
      ro     |-> G.ro \cup {v, t},
      succs  |-> SplitSuccs(G, v, t),
      preds  |-> SplitPreds(G, v, t),
      ins    |-> SplitIns(G, v, t),
      died   |-> G.died ]

\* findBlock splits a block when the target is neither a known successor nor
\* the entry of a block, but lies inside one.
MustSplit(G, b, t) ==
    /\ t \notin G.succs[b]
    /\ t \notin G.blocks
    /\ G.ins[t] # NoBlock

FoundBlock(G, b, t) ==
    t \in G.succs[b] \/ t \in G.blocks \/ G.ins[t] # NoBlock

FindBlock(c, G, b, t) ==
    LET H == IF MustSplit(G, b, t) THEN Split(G, G.ins[t], t) ELSE G
    IN  AddSuccessor(c, H, b, t)

\* Callers of findBlock create the block when there is none; the new block's
\* predecessor is the caller's current block p.
FindOrCreate(c, G, b, p, t) ==
    IF FoundBlock(G, b, t) THEN FindBlock(c, G, b, t)
    ELSE AddSuccessor(c, NewBlock(G, t), p, t)

\* Mutant: the block that ends is not closed.
GetNextBlock_LeftOpen(c, G, b, t) == FindOrCreate(c, G, b, b, t)

\* getNextBlock, at the end of every branch or jump the interpreter executes.
GetNextBlock(c, G, b, t) == SetReadOnly(FindOrCreate(c, G, b, b, t), b)

(***************************************************************************)
(* The main loop.                                                          *)
(***************************************************************************)
Idle == [blk |-> NoBlock, left |-> 0]

Running == ~brk /\ ~graph.died
Dispatching == Running /\ unit = Idle

\* The block built at the loop's current pc: the first word of the program.
Init ==
    /\ code \in Programs
    /\ pc = 1
    /\ brk = FALSE
    /\ host = "idle"
    /\ graph = NewBlock(EmptyGraph, 1)
    /\ cBB = 1
    /\ unit = Idle

\* The guest's side of one execRiscv: poll tohost, execute, step the pc to n.
Interpret(n) ==
    /\ n \in GoesTo(code, pc, Served(host))
    /\ pc' = n
    /\ brk' = BrkAfter(code, pc, host, brk)
    /\ host' \in HostAfter(code, pc, Served(host))
    /\ UNCHANGED code

\* executeJIT refuses an open block (or one the pc is not at the entry of), and
\* interpretAndBuildCFG appends one instruction to it and executes it.
BuildInsn ==
    /\ Dispatching
    /\ cBB \notin graph.ro \/ pc # cBB
    /\ \E n \in NextPCs(code, pc) :
        /\ Interpret(n)
        /\ LET G == AddIns(graph, cBB, pc)
           IN IF IsBranchOrJump(code[pc])
              THEN /\ graph' = GetNextBlock(code, SetTermAddr(G, cBB, pc), cBB, n)
                   /\ cBB' = n
              ELSE /\ graph' = G
                   /\ cBB' = cBB
    /\ UNCHANGED unit

\* The number of iterations of the loop in run.
\* Mutant: it runs while i < length.
RunLength_OneShort(G, b) == G.term[b] - b
RunLength(G, b) == (G.term[b] - b) + 1

\* executeJIT on a closed block enters basicBlock::run.
EnterBlock ==
    /\ Dispatching
    /\ cBB \in graph.ro /\ pc = cBB
    /\ unit' = [blk |-> cBB, left |-> RunLength(graph, cBB)]
    /\ UNCHANGED <<guestVars, graph, cBB>>

\* One iteration of the loop in basicBlock::run.
RunInsn ==
    /\ Running
    /\ unit.blk # NoBlock /\ unit.left > 0
    /\ \E n \in NextPCs(code, pc) :
        /\ Interpret(n)
        /\ IF IsBranchOrJump(code[pc])
           THEN /\ graph' = GetNextBlock(code, graph, cBB, n)
                /\ cBB' = n
           ELSE UNCHANGED <<graph, cBB>>
    /\ unit' = [unit EXCEPT !.left = @ - 1]

\* The rest of run and of executeJIT: look the next block up from the block
\* that ran, create it when there is none, make it current.
LeaveBlock ==
    /\ ~graph.died
    /\ unit.blk # NoBlock
    /\ unit.left = 0 \/ brk
    /\ graph' = FindOrCreate(code, graph, unit.blk, cBB, pc)
    /\ cBB' = pc
    /\ unit' = Idle
    /\ UNCHANGED guestVars

Next == BuildInsn \/ EnterBlock \/ RunInsn \/ LeaveBlock

Spec == Init /\ [][Next]_vars

\* The main loop is one thread that runs until brk; it never waits.
FairSpec == Spec /\ WF_vars(Next)

-----------------------------------------------------------------------------
(***************************************************************************)
(* Soundness of a graph G for a program c, when the blocks in O are still  *)
(* open.  The guest runs on graphs whose open blocks are those without     *)
(* readOnly; while a block is being closed the two differ for a moment,    *)
(* which is why O is a parameter.                                          *)
(***************************************************************************)
Graph ==
    [ blocks : SUBSET Addr, last : [Addr -> 0..N], term : [Addr -> 0..N],
      ro : SUBSET Addr, succs : [Addr -> SUBSET Addr],
      preds : [Addr -> SUBSET Addr], ins : [Addr -> 0..N], died : BOOLEAN ]

InsSound(G) ==
    \A a \in Addr : G.ins[a] # NoBlock =>
        /\ G.ins[a] \in G.blocks
        /\ a \in Words(G, G.ins[a])

Mirrored(G) ==
    \A b, t \in Addr : t \in G.succs[b] <=> b \in G.preds[t]

EdgesSound(c, G, O) ==
    \A b \in Addr : \A t \in G.succs[b] :
        /\ b \in G.blocks \ O
        /\ t \in G.blocks
        /\ t \in NextPCs(c, G.last[b])

ClosedSound(c, G, O) ==
    /\ G.ro \subseteq G.blocks
    /\ \A b \in G.blocks \ O :
          /\ b <= G.last[b]
          /\ G.term[b] = G.last[b]
          /\ \A a \in b..(G.last[b] - 1) : ~IsBranchOrJump(c[a])
          /\ \A a \in Words(G, b) : ~IsMonitor(c[a])
          /\ FallsThru(c, G, b) => G.succs[b] = {G.last[b] + 1}

OpenSound(c, G, O) ==
    /\ \A b \in G.blocks \cap O :
          /\ b <= G.last[b] + 1
          /\ \A a \in Words(G, b) : ~IsBranchOrJump(c[a]) /\ ~IsMonitor(c[a])
    /\ \A b \in Addr : b \notin G.blocks \ O => G.term[b] = 0

\* From graph G to graph H a block closed in G has lost nothing but a tail that
\* is a closed block of H, with its words and successors.
Cuts(G, H) ==
    \A b \in G.ro : H.last[b] # G.last[b] =>
       LET t == H.last[b] + 1
       IN  /\ t \in Addr /\ t \notin G.blocks /\ t \in H.ro
           /\ H.last[t] = G.last[b]
           /\ G.succs[b] \subseteq H.succs[t]

-----------------------------------------------------------------------------
(***************************************************************************)
(* Properties.  What is said of the graph is said while the guest runs:    *)
(* when a guest stops in the middle of a block, LeaveBlock still looks up  *)
(* a successor for the pc it stopped at.                                   *)
(***************************************************************************)
Open == graph.blocks \ graph.ro

\* Types: every variable holds a value of its kind (state of basicBlock.hh).
TypeOK ==
    /\ code \in Programs
    /\ pc \in Addr
    /\ brk \in BOOLEAN
    /\ host \in HostWords
    /\ graph \in Graph
    /\ cBB \in Addr
    /\ unit \in [blk : 0..N, left : 0..N]

\* insMap never lies: the block it names for an address exists and still holds
\* that address.  findBlock splits that block at the address, so a stale entry
\* would cut a block that does not contain the target.
InsMapSound == brk \/ InsSound(graph)

\* succs and preds mirror each other, which sanityCheck asserts of the blocks
\* of a region and split relies on when it relinks the successors; a recorded
\* edge leaves a closed block, reaches a known one and is one the last
\* instruction can take (checkIfPlausableSuccessors dies on any other).
EdgesTrue == brk \/ (Mirrored(graph) /\ EdgesSound(code, graph, Open))

\* A closed block is a non-empty stretch of straight-line code that ends in a
\* transfer, or was cut by a split and falls into the one block that follows;
\* termAddr, from which run takes its length, is the address of its last word.
\* The block being built holds no transfer yet and has no terminal address, so
\* that setTermAddr, which only writes an unset one, takes effect.
Extents == brk \/ (ClosedSound(code, graph, Open) /\ OpenSound(code, graph, Open))

\* A closed block is entered at its entry and an open one is extended at its
\* end: executeJIT's test "s->pc != entryAddr" never holds for a closed block,
\* whose instructions would then run without being recorded; run stays on the
\* words of its block until the last one, and when it returns the block that
\* ran already has the new pc as a successor.
PcInSync ==
    \/ brk
    \/ /\ Open \subseteq {cBB}
       /\ cBB \in graph.blocks
       /\ unit.blk = NoBlock =>
             /\ unit.left = 0
             /\ pc = IF cBB \in graph.ro THEN cBB ELSE graph.last[cBB] + 1
       /\ unit.blk # NoBlock => unit.blk \in graph.ro
       /\ unit.blk # NoBlock /\ unit.left > 0 =>
             /\ cBB = unit.blk /\ cBB <= pc
             /\ pc + unit.left = graph.last[cBB] + 1
       /\ unit.blk # NoBlock /\ unit.left = 0 =>
             /\ pc \in graph.succs[unit.blk]
             /\ Open \subseteq {pc}
             /\ pc \notin graph.ro => pc = graph.last[pc] + 1

\* While the guest runs, addSuccessor never meets a second successor of a block
\* that falls through, nor a third one of a block without an indirect jump.
NoDie == brk \/ ~graph.died

\* addSuccessor never dies at all, not even on the way out of a guest that has
\* asked for its exit (its die() says that the block "has 3 successors!").
NoDieAtExit == ~graph.died

\* The extent of a block that is closed only changes by a split: what it loses
\* is, word for word and successor for successor, a block of its own.
OnlySplitsCutBlocks == [][Cuts(graph, graph')]_vars

\* Discovery ends: from some point on the guest has stopped or executes only
\* blocks that are already built (fairness of the main loop).
Settles == <>[](brk \/ graph.died \/ (unit = Idle => cBB \in graph.ro))
=============================================================================
