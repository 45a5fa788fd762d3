-------------------------- MODULE TranslatorProofs --------------------------
(***************************************************************************)
(* Proofs about module Translator, for every program without a lost call   *)
(* (a jalr that links to the register it jumps through, or that links and  *)
(* adds an immediate, which compiled code sends elsewhere), every N, every *)
(* setting of the finder and of cfgAug.                                    *)
(*                                                                         *)
(* The argument.  While a guest is interpreted the block graph takes steps *)
(* of module BlockGraph, whose invariant can be cited.  What that module   *)
(* cannot know is what compiled code does to the graph when it is left;    *)
(* for that, the invariant says that compiled code consists of straight    *)
(* stretches of the program joined by edges the guest may take, even when  *)
(* the blocks it was made from have been cut since.                        *)
(***************************************************************************)
EXTENDS Translator, SearchProofs

\* No call of a kind that insn_jalr compiles to a jump elsewhere.
NoLostCall == \A c \in Programs : \A a \in Addr : c[a].kind \notin {"farcall", "offcall"}

-----------------------------------------------------------------------------
(***************************************************************************)
(* The inductive invariant.                                                *)
(***************************************************************************)

\* BlockGraph's invariant, except that addSuccessor may have died: leaving code
\* compiled from blocks that have been cut since can do that.
Structure(c, G, O) ==
    /\ InsSound(G)
    /\ Mirrored(G)
    /\ EdgesSound(c, G, O)
    /\ ClosedSound(c, G, O)
    /\ OpenSound(c, G, O)

GraphInv ==
    /\ TypeOK
    /\ PcInSync
    /\ Known(graph)
    /\ brk \/ Structure(code, graph, Open)

FinderRecord ==
    [ en : BOOLEAN, head : 0..N, buf : Seq(Addr),
      heads : [Slot -> 0..N], counts : [Slot -> Nat] ]

\* Closed blocks, each a known successor of the one before.
KnownPath(G, s) ==
    /\ \A i \in 1..Len(s) : s[i] \in G.ro
    /\ \A i \in 1..(Len(s) - 1) : s[i + 1] \in G.succs[s[i]]

\* The recording starts at its head, and leads to the block about to run or
\* ends with the one that is running.
Recording(f, G, blk, next, b) ==
    f.en =>
        /\ KnownPath(G, f.buf)
        /\ f.buf # <<>> => f.buf[1] = f.head
        /\ blk # NoBlock => f.buf # <<>> /\ f.buf[Len(f.buf)] = blk
        /\ blk = NoBlock =>
              \/ b
              \/ f.buf = <<>> /\ next = f.head
              \/ f.buf # <<>> /\ next \in G.succs[f.buf[Len(f.buf)]]

FinderInv ==
    /\ rf \in FinderRecord
    /\ rf.en => rf.head \notin hasRegion
    /\ Recording(rf, graph, unit.blk, cBB, brk)

\* A loop of closed blocks through h.
LoopOf(G, h, t) ==
    /\ t \in Seq(Addr) /\ t # <<>> /\ t[1] = h
    /\ KnownPath(G, t)
    /\ h \in G.succs[t[Len(t)]]

\* What is kept of head h; its blocks know the head.
Kept(G, inr, h, ts) ==
    \A t \in DOMAIN ts :
        /\ ts[t] \in Nat \ {0}
        /\ LoopOf(G, h, t)
        /\ \A i \in 1..Len(t) : h \in inr[t[i]]

\* Code cd of head h: straight stretches of program c, joined by edges that the
\* guest may take.
RunsProgram(c, h, cd) ==
    /\ h \in cd.blocks
    /\ \A b \in cd.blocks :
          /\ b <= cd.last[b] /\ cd.last[b] \in Addr
          /\ \A a \in b..(cd.last[b] - 1) : ~IsBranchOrJump(c[a])
          /\ \A a \in b..cd.last[b] : ~IsMonitor(c[a])
          /\ cd.succs[b] \subseteq cd.blocks
          /\ cd.succs[b] \subseteq NextPCs(c, cd.last[b])
          /\ c[cd.last[b]].kind = "jal" => cd.succs[b] # {}

\* Since then its blocks have at most been cut.
Shrunk(G, cd) ==
    /\ cd.blocks \subseteq G.ro
    /\ \A b \in cd.blocks : G.last[b] <= cd.last[b]

CodeTyped ==
    /\ cfg \in [Addr -> Code]
    /\ hasRegion \subseteq Addr
    /\ inRegions \in [Addr -> SUBSET Addr]
    /\ fault \in Faults
    /\ native \in [head : 0..N, at : 0..N, word : 0..N]
    /\ ahead \in Nat

CodeInv ==
    /\ DOMAIN traces = Addr
    /\ \A h \in Addr : Kept(graph, inRegions, h, traces[h])
    /\ \A h \in Addr : cfg[h] # NoCode =>
          /\ RunsProgram(code, h, cfg[h])
          /\ brk \/ Shrunk(graph, cfg[h])

NativeInv ==
    /\ native # NoNative => ~brk /\ ~graph.died
    /\ NativeInPlace
    /\ CounterExact

JitInv ==
    /\ GraphInv
    /\ CodeTyped
    /\ HasRegionExact
    /\ FinderInv
    /\ CodeInv
    /\ NativeInv

-----------------------------------------------------------------------------
(***************************************************************************)
(* The block graph, in the steps of module BlockGraph.                     *)
(***************************************************************************)
LEMMA StructureSound ==
    ASSUME NEW c, NEW G, NEW O
    PROVE  Sound(c, G, O) <=> Structure(c, G, O) /\ ~G.died
BY DEF Sound, Structure

LEMMA GraphStep ==
    ASSUME GraphInv, [Next]_vars
    PROVE  GraphInv' /\ Cuts(graph, graph') /\ code' = code
<1>1. CASE UNCHANGED vars
  BY <1>1 DEF vars, GraphInv, TypeOK, PcInSync, Open, Structure, Cuts
<1>2. CASE Next
  <2>1. ~graph.died /\ code' = code
    BY <1>2 DEF Next, BuildInsn, EnterBlock, RunInsn, LeaveBlock, Dispatching, Running,
         Interpret, guestVars
  <2>2. IndInv
    BY <2>1, StructureSound DEF GraphInv, IndInv
  <2>3. IndInv'
    BY <1>2, <2>2, NextInv
  <2>4. Known(graph') /\ Cuts(graph, graph')
    BY <1>2, <2>2, StepCuts DEF GraphInv
  <2>5. brk' \/ Structure(code', graph', Open')
    BY <2>3, StructureSound DEF IndInv
  <2> QED BY <2>1, <2>3, <2>4, <2>5 DEF IndInv, GraphInv
<1> QED BY <1>1, <1>2

(***************************************************************************)
(* What a transfer from b to t leaves alone: every closed block but the    *)
(* one that it cuts keeps its words and its successors.                    *)
(***************************************************************************)
Keeps(G, H, S) ==
    /\ G.ro \subseteq H.ro
    /\ \A x \in G.ro \ S : H.last[x] = G.last[x] /\ G.succs[x] \subseteq H.succs[x]

LEMMA AddSuccessorKeeps ==
    ASSUME NEW c, NEW G \in Graph, NEW K \in Graph, NEW S, Keeps(G, K, S),
           G.ro \subseteq Addr, NEW b \in Addr, NEW t \in Addr
    PROVE  Keeps(G, AddSuccessor(c, K, b, t), S)
<1> DEFINE H == AddSuccessor(c, K, b, t)
<1>1. /\ H.ro = K.ro /\ H.last = K.last
      /\ \A x \in Addr : K.succs[x] \subseteq H.succs[x]
  BY AddSuccessorAdds
<1> HIDE DEF H
<1>2. Keeps(G, H, S)
  BY <1>1 DEF Keeps
<1> QED BY <1>2 DEF H

LEMMA FindOrCreateKeeps ==
    ASSUME NEW c, NEW G \in Graph, Known(G),
           NEW b \in Addr, NEW p \in Addr, NEW t \in Addr
    PROVE  /\ Keeps(G, FindOrCreate(c, G, b, p, t), Cut(G, b, t))
           /\ Cut(G, b, t) \subseteq Addr
<1>0. G.ro \subseteq G.blocks /\ G.blocks \subseteq Addr
  BY DEF Known, Graph
<1>1. CASE FoundBlock(G, b, t) /\ MustSplit(G, b, t)
  <2> DEFINE v == G.ins[t]
             K == Split(G, v, t)
  <2>1. v \in G.blocks /\ t \notin G.blocks /\ v \in Addr
    BY <1>0, <1>1 DEF MustSplit, Known
  <2>2. Cut(G, b, t) = {v}
    BY <1>1 DEF Cut
  <2>3. /\ K.ro = G.ro \cup {v, t}
        /\ \A x \in Addr \ {v, t} : K.last[x] = G.last[x] /\ K.succs[x] = G.succs[x]
    BY <2>1 DEF Split, SplitSuccs, Graph
  <2>4. Keeps(G, K, {v})
    BY <1>0, <2>1, <2>3 DEF Keeps
  <2>5. K \in Graph
    BY <2>1, SplitTyped
  <2>6. FindOrCreate(c, G, b, p, t) = AddSuccessor(c, K, b, t)
    BY <1>1 DEF FindOrCreate, FindBlock
  <2> HIDE DEF K, v
  <2> QED BY <1>0, <2>1, <2>2, <2>4, <2>5, <2>6, AddSuccessorKeeps
<1>2. CASE FoundBlock(G, b, t) /\ ~MustSplit(G, b, t)
  <2>1. FindOrCreate(c, G, b, p, t) = AddSuccessor(c, G, b, t) /\ Cut(G, b, t) = {}
    BY <1>2 DEF FindOrCreate, FindBlock, Cut
  <2>2. Keeps(G, G, {})
    BY DEF Keeps
  <2> QED BY <1>0, <2>1, <2>2, AddSuccessorKeeps
<1>3. CASE ~FoundBlock(G, b, t)
  <2> DEFINE K == NewBlock(G, t)
  <2>1. t \notin G.blocks /\ Cut(G, b, t) = {}
    BY <1>3 DEF FoundBlock, Cut, MustSplit
  <2>2. /\ K.ro = G.ro /\ K.succs = G.succs
        /\ \A x \in Addr \ {t} : K.last[x] = G.last[x]
    BY DEF NewBlock, Graph
  <2>3. Keeps(G, K, {})
    BY <1>0, <2>1, <2>2 DEF Keeps
  <2>4. K \in Graph
    BY NewBlockTyped
  <2>5. FindOrCreate(c, G, b, p, t) = AddSuccessor(c, K, p, t)
    BY <1>3 DEF FindOrCreate
  <2> HIDE DEF K
  <2> QED BY <1>0, <2>1, <2>3, <2>4, <2>5, AddSuccessorKeeps
<1> QED BY <1>1, <1>2, <1>3

LEMMA GetNextBlockKeeps ==
    ASSUME NEW c, NEW G \in Graph, Known(G), NEW b \in Addr, NEW t \in Addr
    PROVE  /\ Keeps(G, GetNextBlock(c, G, b, t), Cut(G, b, t))
           /\ Cut(G, b, t) \subseteq Addr
<1> DEFINE K == FindOrCreate(c, G, b, b, t)
           H == SetReadOnly(K, b)
<1>1. Keeps(G, K, Cut(G, b, t)) /\ Cut(G, b, t) \subseteq Addr
  BY FindOrCreateKeeps
<1>2. K \in Graph
  BY FindOrCreateTyped
<1> HIDE DEF K
<1>3. H.ro = K.ro \cup {b} /\ H.last = K.last /\ H.succs = K.succs
  BY <1>2 DEF SetReadOnly, Graph
<1>4. Keeps(G, H, Cut(G, b, t))
  BY <1>1, <1>3 DEF Keeps
<1> QED BY <1>1, <1>4 DEF GetNextBlock, K

\* The same for the transfer that ends the block being built.
LEMMA BuildKeeps ==
    ASSUME NEW c, NEW G \in Graph, Known(G),
           NEW b \in G.blocks, b \notin G.ro, NEW a \in Addr, NEW t \in Addr
    PROVE  LET L == AddIns(G, b, a)
               H == GetNextBlock(c, SetTermAddr(L, b, a), b, t)
           IN  /\ Keeps(G, L, {})
               /\ Keeps(G, H, Cut(L, b, t))
               /\ Cut(L, b, t) \subseteq Addr
               /\ L.ro = G.ro
<1> DEFINE L == AddIns(G, b, a)
           K == SetTermAddr(L, b, a)
           H == GetNextBlock(c, K, b, t)
<1>0. G.ro \subseteq G.blocks /\ G.blocks \subseteq Addr /\ b \in Addr
  BY DEF Known, Graph
<1>1. /\ L.ro = G.ro /\ L.succs = G.succs /\ L.blocks = G.blocks
      /\ \A x \in Addr \ {b} : L.last[x] = G.last[x]
  BY DEF AddIns, Graph
<1>2. L \in Graph
  BY <1>0, AddInsTyped
<1> HIDE DEF L
<1>3. /\ K.ro = L.ro /\ K.succs = L.succs /\ K.last = L.last
      /\ K.blocks = L.blocks /\ K.ins = L.ins
  BY <1>2 DEF SetTermAddr, Graph
<1>4. K \in Graph /\ Known(K)
  BY BuildCuts DEF L
<1> HIDE DEF K
<1>5. Keeps(G, L, {}) /\ Keeps(G, K, {})
  BY <1>0, <1>1, <1>3 DEF Keeps
<1>6. Cut(K, b, t) = Cut(L, b, t)
  BY <1>3 DEF Cut, MustSplit
<1>7. Keeps(K, H, Cut(L, b, t)) /\ Cut(L, b, t) \subseteq Addr
  BY <1>0, <1>4, <1>6, GetNextBlockKeeps
<1> HIDE DEF H
<1>8. Keeps(G, H, Cut(L, b, t))
  BY <1>5, <1>7 DEF Keeps
<1> QED BY <1>1, <1>5, <1>7, <1>8 DEF L, K, H

\* A closed block that is cut ends earlier.
LEMMA ShrunkStays ==
    ASSUME NEW c, NEW G \in Graph, NEW H \in Graph, Cuts(G, H),
           G.ro \subseteq H.ro, ClosedSound(c, H, H.blocks \ H.ro),
           NEW cd \in Code, Shrunk(G, cd)
    PROVE  Shrunk(H, cd)
<1> SUFFICES ASSUME NEW b \in cd.blocks
             PROVE  b \in H.ro /\ H.last[b] <= cd.last[b]
  BY DEF Shrunk
<1>1. b \in G.ro /\ b \in H.ro /\ G.last[b] <= cd.last[b]
  BY DEF Shrunk
<1>2. b \in Addr /\ G.last[b] \in Nat /\ H.last[b] \in Nat /\ cd.last[b] \in Nat
  BY AddrFacts DEF Code, Graph
<1>3. CASE H.last[b] # G.last[b]
  <2> DEFINE t == H.last[b] + 1
  <2>1. t \in H.ro /\ H.last[t] = G.last[b]
    BY <1>1, <1>3 DEF Cuts
  <2>2. t <= H.last[t]
    BY <2>1 DEF ClosedSound
  <2> QED BY <1>1, <1>2, <2>1, <2>2
<1> QED BY <1>1, <1>3

-----------------------------------------------------------------------------
(***************************************************************************)
(* Recordings and compiled code, when the graph changes.                   *)
(***************************************************************************)
LEMMA NoCodeTyped == NoCode \in Code
BY AddrFacts DEF NoCode, Code

LEMMA KnownPathStays ==
    ASSUME NEW G, NEW H, NEW S, Keeps(G, H, S), NEW s \in Seq(Addr),
           KnownPath(G, s), \A i \in 1..Len(s) : s[i] \notin S
    PROVE  KnownPath(H, s)
<1>1. Len(s) \in Nat
  OBVIOUS
<1>2. ASSUME NEW i \in 1..Len(s) PROVE s[i] \in G.ro \ S
  BY DEF KnownPath
<1>3. ASSUME NEW i \in 1..(Len(s) - 1) PROVE i \in 1..Len(s)
  BY <1>1
<1> QED BY <1>2, <1>3 DEF KnownPath, Keeps

LEMMA LoopStays ==
    ASSUME NEW G, NEW H, NEW S, Keeps(G, H, S), NEW h, NEW t,
           LoopOf(G, h, t), \A i \in 1..Len(t) : t[i] \notin S
    PROVE  LoopOf(H, h, t)
<1>1. t \in Seq(Addr) /\ t # <<>> /\ Len(t) \in 1..Len(t)
  BY DEF LoopOf
<1>2. KnownPath(H, t)
  BY <1>1, KnownPathStays DEF LoopOf
<1>3. t[Len(t)] \in G.ro \ S
  BY <1>1 DEF LoopOf, KnownPath
<1>4. h \in H.succs[t[Len(t)]]
  BY <1>3 DEF LoopOf, Keeps
<1> QED BY <1>1, <1>2, <1>4 DEF LoopOf

LEMMA KeptStays ==
    ASSUME NEW G, NEW H, NEW S, Keeps(G, H, S), NEW inr, NEW h, NEW ts,
           Kept(G, inr, h, ts), \A b \in S : h \notin inr[b]
    PROVE  Kept(H, inr, h, ts)
<1> SUFFICES ASSUME NEW t \in DOMAIN ts
             PROVE  LoopOf(H, h, t)
  BY DEF Kept
<1>1. LoopOf(G, h, t) /\ \A i \in 1..Len(t) : h \in inr[t[i]]
  BY DEF Kept
<1>2. \A i \in 1..Len(t) : t[i] \notin S
  BY <1>1
<1> QED BY <1>1, <1>2, LoopStays

\* A transfer drops the code and the recordings that hold the block it cuts.
LEMMA AfterTransferCode ==
    ASSUME CodeTyped, HasRegionExact, CodeInv, GraphInv, GraphInv', code' = code,
           NEW L, NEW b, NEW t, L.ro = graph.ro, AfterTransfer(L, b, t),
           Keeps(graph, graph', Cut(L, b, t)), Cut(L, b, t) \subseteq Addr,
           Cuts(graph, graph'), brk => brk'
    PROVE  /\ cfg' \in [Addr -> Code]
           /\ hasRegion' \subseteq hasRegion
           /\ inRegions' = inRegions /\ fault' = fault
           /\ HasRegionExact'
           /\ CodeInv'
<1> DEFINE heads == DroppedHeads(L, b, t)
           reset == Cut(L, b, t) \cup ({b} \ L.ro)
<1>1. /\ cfg' = [h \in Addr |-> IF h \in heads \cup reset THEN NoCode ELSE cfg[h]]
      /\ hasRegion' = hasRegion \ ({h \in heads : cfg[h] # NoCode} \cup reset)
      /\ traces' = [h \in Addr |-> IF h \in heads \cup reset THEN NoTraces ELSE traces[h]]
      /\ inRegions' = inRegions /\ fault' = fault
  BY DEF AfterTransfer, FlagsAfter, TracesAfter
<1>2. \A h \in Addr : h \notin heads => \A v \in Cut(L, b, t) : h \notin inRegions[v]
  BY DEF DroppedHeads
<1> HIDE DEF heads, reset
<1>3. cfg' \in [Addr -> Code]
  BY <1>1, NoCodeTyped DEF CodeTyped
<1>4. HasRegionExact'
  BY <1>1 DEF HasRegionExact
<1>5. ASSUME NEW h \in Addr
      PROVE  Kept(graph', inRegions', h, traces'[h])
  <2>1. CASE h \in heads \cup reset
    <3>1. DOMAIN traces'[h] = {}
      BY <1>1, <2>1 DEF NoTraces
    <3> QED BY <3>1 DEF Kept
  <2>2. CASE h \notin heads \cup reset
    <3>1. traces'[h] = traces[h] /\ Kept(graph, inRegions, h, traces[h])
      BY <1>1, <2>2 DEF CodeInv
    <3> QED BY <1>1, <1>2, <2>2, <3>1, KeptStays
  <2> QED BY <2>1, <2>2
<1>6. ASSUME NEW h \in Addr, cfg'[h] # NoCode
      PROVE  /\ RunsProgram(code', h, cfg'[h])
             /\ brk' \/ Shrunk(graph', cfg'[h])
  <2>1. cfg'[h] = cfg[h]
    BY <1>1, <1>6
  <2>2. RunsProgram(code, h, cfg[h]) /\ (brk \/ Shrunk(graph, cfg[h]))
    BY <1>6, <2>1 DEF CodeInv
  <2>3. ASSUME ~brk' PROVE Shrunk(graph', cfg[h])
    <3>1. ClosedSound(code', graph', graph'.blocks \ graph'.ro)
      BY <2>3 DEF GraphInv, Structure, Open
    <3>2. graph \in Graph /\ graph' \in Graph /\ cfg[h] \in Code
      BY DEF GraphInv, TypeOK, CodeTyped
    <3>3. graph.ro \subseteq graph'.ro
      BY DEF Keeps
    <3> QED BY <2>2, <2>3, <3>1, <3>2, <3>3, ShrunkStays
  <2> QED BY <2>1, <2>2, <2>3
<1>7. CodeInv'
  BY <1>1, <1>5, <1>6 DEF CodeInv
<1> QED BY <1>1, <1>3, <1>4, <1>7

\* The graph grows and the code stays.
LEMMA CodeStays ==
    ASSUME CodeInv, UNCHANGED codeVars, code' = code, brk => brk',
           Keeps(graph, graph', {})
    PROVE  CodeInv'
<1>1. traces' = traces /\ cfg' = cfg /\ inRegions' = inRegions
  BY DEF codeVars
<1>2. ASSUME NEW h \in Addr
      PROVE  Kept(graph', inRegions', h, traces'[h])
  BY <1>1, KeptStays DEF CodeInv
<1>3. ASSUME NEW h \in Addr, cfg'[h] # NoCode
      PROVE  /\ RunsProgram(code', h, cfg'[h])
             /\ brk' \/ Shrunk(graph', cfg'[h])
  <2>1. RunsProgram(code, h, cfg[h]) /\ (brk \/ Shrunk(graph, cfg[h]))
    BY <1>1, <1>3 DEF CodeInv
  <2>2. Shrunk(graph, cfg[h]) => Shrunk(graph', cfg[h])
    BY DEF Shrunk, Keeps
  <2> QED BY <1>1, <2>1, <2>2
<1> QED BY <1>1, <1>2, <1>3 DEF CodeInv

\* Code is dropped nowhere while it runs: the finder's and the engine's parts
\* of the invariant look at the code variables only here.
LEMMA HeadHasCode ==
    ASSUME JitInv, native # NoNative
    PROVE  /\ native.head \in Addr /\ native.at \in Region.blocks /\ native.at \in Addr
           /\ Region \in Code /\ RunsProgram(code, native.head, Region)
           /\ Shrunk(graph, Region)
           /\ cBB = native.head /\ cBB \in graph.ro
<1>1. native.head \in hasRegion /\ native.at \in Region.blocks /\ cBB = native.head
  BY DEF JitInv, NativeInv, NativeInPlace
<1>2. native.head \in Addr /\ Region # NoCode /\ Region \in Code
  BY <1>1 DEF JitInv, HasRegionExact, CodeTyped, Region
<1>3. RunsProgram(code, native.head, Region) /\ Shrunk(graph, Region)
  BY <1>2 DEF JitInv, CodeInv, Region, NativeInv
<1> QED BY <1>1, <1>2, <1>3 DEF Code, RunsProgram, Shrunk

-----------------------------------------------------------------------------
(***************************************************************************)
(* Inside compiled code.                                                   *)
(***************************************************************************)

\* The instruction compiled code is at is one of the block it is in.
LEMMA NativeWhere ==
    ASSUME JitInv, native # NoNative
    PROVE  /\ native.word \in Addr /\ native.word \in Nat
           /\ Region.last[native.at] \in Addr
           /\ native.word \in native.at..Region.last[native.at]
           /\ ~IsMonitor(code[native.word])
           /\ ~AtEnd => /\ ~IsBranchOrJump(code[native.word])
                        /\ native.word + 1 \in native.at..Region.last[native.at]
<1>1. /\ native.at \in Region.blocks /\ native.at \in Addr
      /\ RunsProgram(code, native.head, Region)
  BY HeadHasCode
<1>2. native.word \in native.at..Region.last[native.at]
  BY DEF JitInv, NativeInv, NativeInPlace
<1> DEFINE z == Region.last[native.at]
<1>3. /\ z \in Addr
      /\ \A a \in native.at..(z - 1) : ~IsBranchOrJump(code[a])
      /\ \A a \in native.at..z : ~IsMonitor(code[a])
  BY <1>1 DEF RunsProgram
<1>4. native.at \in Nat /\ z \in Nat /\ native.at > 0 /\ z <= N /\ N \in Nat
  BY <1>1, <1>3, NAssumption DEF Addr
<1>5. native.word \in z..z \/ native.word \in native.at..(z - 1)
  BY <1>2, <1>4
<1>6. native.word \in Nat /\ native.word > 0 /\ native.word <= N
  BY <1>2, <1>4
<1>7. ~AtEnd => native.word \in native.at..(z - 1)
  BY <1>4, <1>5 DEF AtEnd
<1>8. native.word \in Addr
  BY <1>6, <1>4 DEF Addr
<1>9. ~AtEnd => native.word + 1 \in native.at..z
  BY <1>4, <1>7
<1> QED BY <1>2, <1>3, <1>6, <1>7, <1>8, <1>9

\* Compiled code goes where the guest goes.
LEMMA NativeGoes ==
    ASSUME NoLostCall, JitInv, native # NoNative,
           NEW n \in GoesTo(code, native.word, host)
    PROVE  /\ n \in Addr
           /\ CompiledNext(native.word, n) = {n}
           /\ ~AtEnd => n = native.word + 1
           /\ AtEnd => /\ n \in NextPCs(code, Region.last[native.at])
                       /\ \A t \in InRegion(n) : t = n /\ t \in Region.blocks
<1>1. native.word \in Addr /\ code \in Programs
  BY NativeWhere DEF JitInv, GraphInv, TypeOK
<1>2. n \in NextPCs(code, native.word)
  BY GoesWhereItMay
<1>3. n \in Addr
  BY <1>1, <1>2, FlowTyped
<1>4. CompiledNext(native.word, n) = {n}
  BY <1>1 DEF CompiledNext, NoLostCall
<1>5. ASSUME ~AtEnd PROVE n = native.word + 1
  <2>1. ~IsBranchOrJump(code[native.word]) /\ ~IsMonitor(code[native.word])
    BY <1>5, NativeWhere
  <2> QED BY <1>1, <1>2, <2>1, StraightFlow
<1>6. ASSUME AtEnd
      PROVE  /\ n \in NextPCs(code, Region.last[native.at])
             /\ \A t \in InRegion(n) : t = n /\ t \in Region.blocks
  <2>1. native.word = Region.last[native.at]
    BY <1>6 DEF AtEnd
  <2> DEFINE S == Region.succs[native.at]
  <2>2. S \subseteq Region.blocks /\ S \subseteq NextPCs(code, native.word)
    BY <2>1, HeadHasCode DEF RunsProgram
  <2>3. CASE code[native.word].kind = "jal"
    <3>1. PICK x \in Addr : code[native.word].tgt = {x}
      BY <1>1, <2>3, ProgramsAssumption DEF WellFormed
    <3>2. NextPCs(code, native.word) = {x}
      BY <2>3, <3>1 DEF NextPCs, Transfers, Indirect, Conditional
    <3>3. InRegion(n) = S
      BY <2>3 DEF InRegion
    <3> QED BY <1>2, <2>1, <2>2, <3>2, <3>3
  <2>4. CASE code[native.word].kind # "jal"
    <3>1. InRegion(n) = S \cap {n}
      BY <2>4 DEF InRegion
    <3> QED BY <1>2, <2>1, <2>2, <3>1
  <2> QED BY <2>3, <2>4
<1> QED BY <1>3, <1>4, <1>5, <1>6

LEMMA HostTyped ==
    ASSUME NEW c, NEW a, NEW h \in HostWords
    PROVE  HostAfter(c, a, h) \subseteq HostWords
BY HostAssumption DEF HostAfter, HostWords

LEMMA NativeInsnInv ==
    ASSUME NoLostCall, JitInv, NativeInsn
    PROVE  JitInv'
<1>1. /\ native # NoNative
      /\ UNCHANGED <<code, pc, brk, graph, cBB, unit, rf, codeVars>>
  BY DEF NativeInsn
<1>2. UNCHANGED <<traces, cfg, hasRegion, inRegions, fault>>
  BY <1>1 DEF codeVars
<1>3. PICK n \in GoesTo(code, native.word, host) :
        /\ host' \in HostAfter(code, native.word, host)
        /\ \/ /\ ~AtEnd
              /\ native' = [native EXCEPT !.word = n]
              /\ ahead' = ahead - 1
           \/ /\ AtEnd
              /\ \E t \in UNION {InRegion(w) : w \in CompiledNext(native.word, n)} :
                    /\ native' = [native EXCEPT !.at = t, !.word = t]
                    /\ ahead' = (ahead - 1) + BlockSize(Region, t)
  BY DEF NativeInsn
<1>4. host' \in HostWords
  BY <1>3, HostTyped DEF JitInv, GraphInv, TypeOK
<1>5. GraphInv'
  BY <1>1, <1>4 DEF JitInv, GraphInv, TypeOK, PcInSync, Open, Structure
<1>6. /\ native \in [head : 0..N, at : 0..N, word : 0..N]
      /\ ahead \in Nat
      /\ ahead = (Region.last[native.at] - native.word) + 1
      /\ native.head # NoBlock
  BY <1>1, HeadHasCode, AddrFacts DEF JitInv, CodeTyped, NativeInv, CounterExact
<1>7. /\ native' \in [head : 0..N, at : 0..N, word : 0..N]
      /\ native'.head = native.head
      /\ native'.at \in Region.blocks
      /\ native'.word \in native'.at..Region.last[native'.at]
      /\ ahead' \in Nat
      /\ ahead' = (Region.last[native'.at] - native'.word) + 1
  <2>1. /\ n \in Addr /\ CompiledNext(native.word, n) = {n}
        /\ native.word \in Nat /\ Region.last[native.at] \in Nat
        /\ native.at \in Region.blocks
    BY <1>1, NativeGoes, NativeWhere, HeadHasCode, AddrFacts
  <2>2. CASE ~AtEnd
    <3>1. n = native.word + 1 /\ n \in native.at..Region.last[native.at]
      BY <1>1, <2>2, NativeGoes, NativeWhere
    <3>2. native' = [native EXCEPT !.word = n] /\ ahead' = ahead - 1
      BY <1>3, <2>2
    <3>3. /\ native' \in [head : 0..N, at : 0..N, word : 0..N]
          /\ native'.head = native.head /\ native'.at = native.at /\ native'.word = n
      BY <1>6, <2>1, <3>2, AddrFacts
    <3> QED BY <1>6, <2>1, <3>1, <3>2, <3>3
  <2>3. CASE AtEnd
    <3>1. PICK t \in InRegion(n) :
            /\ native' = [native EXCEPT !.at = t, !.word = t]
            /\ ahead' = (ahead - 1) + BlockSize(Region, t)
      BY <1>3, <2>1, <2>3
    <3>2. t \in Region.blocks /\ t \in Addr
      BY <1>1, <2>1, <2>3, <3>1, NativeGoes
    <3>3. t <= Region.last[t] /\ Region.last[t] \in Nat /\ t \in Nat
      BY <1>1, <3>2, HeadHasCode, AddrFacts DEF RunsProgram
    <3>4. /\ native' \in [head : 0..N, at : 0..N, word : 0..N]
          /\ native'.head = native.head /\ native'.at = t /\ native'.word = t
      BY <1>6, <3>1, <3>2, AddrFacts
    <3>5. ahead = 1
      BY <1>6, <2>1, <2>3 DEF AtEnd
    <3> QED BY <3>1, <3>2, <3>3, <3>4, <3>5 DEF BlockSize
  <2> QED BY <2>2, <2>3
<1>8. native' # NoNative /\ Region' = cfg[native.head] /\ Region = cfg[native.head]
  BY <1>2, <1>6, <1>7 DEF NoNative, Region
<1>9. NativeInv'
  BY <1>1, <1>2, <1>7, <1>8 DEF JitInv, NativeInv, NativeInPlace, CounterExact
<1>10. CodeTyped' /\ HasRegionExact' /\ CodeInv'
  BY <1>1, <1>2, <1>7 DEF JitInv, CodeTyped, HasRegionExact, CodeInv
<1>11. FinderInv'
  BY <1>1, <1>2 DEF JitInv, FinderInv
<1> QED BY <1>5, <1>9, <1>10, <1>11 DEF JitInv

-----------------------------------------------------------------------------
(***************************************************************************)
(* The finder.                                                             *)
(***************************************************************************)
LEMMA IndexInTable == \A b \in 0..N : ComputeIndex(b) \in Slot
BY SlotsAssumption, NAssumption DEF ComputeIndex, Slot

LEMMA ResetFacts ==
    ASSUME NEW f \in FinderRecord, NEW h \in 0..N
    PROVE  Reset(f, h) \in FinderRecord /\ ~Reset(f, h).en
<1>1. ComputeIndex(h) \in Slot /\ NoHead \in 0..N
  BY IndexInTable, AddrFacts DEF NoHead
<1>2. [f.heads EXCEPT ![ComputeIndex(h)] = NoHead] \in [Slot -> 0..N]
  BY <1>1 DEF FinderRecord
<1>3. [f.counts EXCEPT ![ComputeIndex(h)] = 0] \in [Slot -> Nat]
  BY <1>1 DEF FinderRecord
<1>4. <<>> \in Seq(Addr)
  OBVIOUS
<1> QED BY <1>1, <1>2, <1>3, <1>4 DEF Reset, FinderRecord

LEMMA DisableFacts ==
    ASSUME NEW f \in FinderRecord
    PROVE  /\ DisableRegionCollection(f) \in FinderRecord
           /\ ~DisableRegionCollection(f).en
<1>1. CASE ~f.en
  BY <1>1 DEF DisableRegionCollection
<1>2. CASE f.en /\ f.head # NoHead
  <2>1. f.head \in 0..N
    BY DEF FinderRecord
  <2> QED BY <1>2, <2>1, ResetFacts DEF DisableRegionCollection
<1>3. CASE f.en /\ f.head = NoHead
  <2>1. DisableRegionCollection(f) = [f EXCEPT !.en = FALSE, !.buf = <<>>]
    BY <1>3 DEF DisableRegionCollection
  <2>2. DisableRegionCollection(f)
          = [en |-> FALSE, head |-> f.head, buf |-> <<>>, heads |-> f.heads, counts |-> f.counts]
    BY <2>1 DEF FinderRecord
  <2>3. <<>> \in Seq(Addr)
    OBVIOUS
  <2> QED BY <2>2, <2>3 DEF FinderRecord
<1> QED BY <1>1, <1>2, <1>3

\* A head that is offered either changes nothing or restarts the recording.
LEMMA OfferFacts ==
    ASSUME NEW f \in FinderRecord, NEW n \in Addr, NEW l, NEW heads
    PROVE  LET R == OfferHead(f, n, l, heads)
           IN  /\ R \in FinderRecord
               /\ R.en => \/ R = f
                          \/ R.buf = <<>> /\ R.head = n /\ n \notin heads
<1> DEFINE i == ComputeIndex(n)
           k == IF f.heads[i] = n THEN f.counts[i] + 1 ELSE 1
           hot == f.heads[i] = n /\ k >= HotThresh
           R == [ en     |-> hot,
                  head   |-> IF hot THEN n ELSE f.head,
                  buf    |-> BufferAfter(f, hot),
                  heads  |-> [f.heads EXCEPT ![i] = SlotAfter(n, hot)],
                  counts |-> [f.counts EXCEPT ![i] = k] ]
<1>1. i \in Slot /\ n \in 0..N /\ NoHead \in 0..N
  BY IndexInTable, AddrFacts DEF NoHead
<1>2. k \in Nat
  BY <1>1 DEF FinderRecord
<1>3. hot \in BOOLEAN
  OBVIOUS
<1> HIDE DEF k, hot, i
<1>4. SlotAfter(n, hot) \in 0..N /\ BufferAfter(f, hot) \in Seq(Addr)
  BY <1>1 DEF SlotAfter, BufferAfter, FinderRecord
<1>5. [f.heads EXCEPT ![i] = SlotAfter(n, hot)] \in [Slot -> 0..N]
  BY <1>1, <1>4 DEF FinderRecord
<1>6. [f.counts EXCEPT ![i] = k] \in [Slot -> Nat]
  BY <1>1, <1>2 DEF FinderRecord
<1>7. R \in FinderRecord
  BY <1>1, <1>3, <1>4, <1>5, <1>6 DEF FinderRecord
<1>8. R.en => R.buf = <<>> /\ R.head = n
  BY DEF BufferAfter
<1> HIDE DEF R
<1>9. OfferHead(f, n, l, heads) = f \/ (n \notin heads /\ OfferHead(f, n, l, heads) = R)
  BY DEF OfferHead, UpdateRegionHeads, R, k, hot, i
<1> QED BY <1>7, <1>8, <1>9

LEMMA UpdateFacts ==
    ASSUME NEW f \in FinderRecord, NEW b \in Addr, ~Closes(f, b)
    PROVE  LET R == Update(f, b)
           IN  /\ R \in FinderRecord
               /\ R.en => /\ f.en
                          /\ R.head = f.head
                          /\ R.buf = Append(f.buf, b)
<1>1. CASE ~f.en
  BY <1>1 DEF Update
<1>2. CASE f.en /\ Full(f)
  BY <1>2 DEF Update, Abandon, FinderRecord
<1>3. CASE f.en /\ ~Full(f)
  <2>1. Update(f, b) = [f EXCEPT !.buf = Append(f.buf, b)]
    BY <1>3 DEF Update, Buffered
  <2>2. Append(f.buf, b) \in Seq(Addr)
    BY DEF FinderRecord
  <2> QED BY <1>3, <2>1, <2>2 DEF FinderRecord
<1> QED BY <1>1, <1>2, <1>3

LEMMA CloseFacts ==
    ASSUME NEW f \in FinderRecord, NEW b \in Addr, Closes(f, b)
    PROVE  /\ GetRegion(Update(f, b)) \in FinderRecord
           /\ ~GetRegion(Update(f, b)).en
<1>1. Update(f, b) = [f EXCEPT !.en = FALSE]
  BY DEF Update, Closes
<1>2. Update(f, b) \in FinderRecord
  BY <1>1 DEF FinderRecord
<1>3. Update(f, b).head \in 0..N
  BY <1>2 DEF FinderRecord
<1> QED BY <1>2, <1>3, ResetFacts DEF GetRegion

-----------------------------------------------------------------------------
(***************************************************************************)
(* Leaving compiled code.                                                  *)
(***************************************************************************)

\* The graph after code has been left from block b, whose code ended at e, for
\* n.  Only when b has been cut since then may addSuccessor die.
LEMMA LeaveCodeGraph ==
    ASSUME NEW c \in Programs, NEW G \in Graph, Sound(c, G, {}), Known(G),
           NEW b \in G.ro, NEW e \in Addr, NEW n \in NextPCs(c, e),
           n \notin G.blocks, G.blocks \subseteq G.ro,
           G.last[b] <= e, \A a \in b..(e - 1) : ~IsBranchOrJump(c[a])
    PROVE  LET H == AddSuccessor(c, NewBlock(G, n), b, n)
           IN  /\ H \in Graph
               /\ Known(H)
               /\ Structure(c, H, {n})
               /\ H.blocks = G.blocks \cup {n} /\ H.ro = G.ro /\ H.last[n] = n - 1
               /\ Keeps(G, H, {})
               /\ G.last[b] = e => ~H.died
<1> DEFINE K == NewBlock(G, n)
           H == AddSuccessor(c, K, b, n)
<1>0. /\ n \in Addr /\ b \in Addr /\ b # n /\ b \in G.blocks
      /\ G.ro \subseteq Addr
  BY FlowTyped DEF Graph, Known
<1>1. /\ Sound(c, K, {n}) /\ K \in Graph
      /\ K.blocks = G.blocks \cup {n} /\ K.last[n] = n - 1
      /\ K.last[b] = G.last[b] /\ K.ro = G.ro /\ K.succs = G.succs
  <2>1. Sound(c, K, {} \cup {n})
    BY <1>0, NewBlockSound
  <2> QED BY <1>0, <2>1, NewBlockTyped, NewBlockSound
<1>2. Keeps(G, K, {})
  BY <1>0, <1>1, NewBlockSound DEF Keeps, Known
<1> HIDE DEF K
<1>3. H \in Graph
  BY <1>0, <1>1, AddSuccessorTyped
<1>4. H.blocks = K.blocks /\ H.ro = K.ro /\ H.last = K.last /\ H.ins = K.ins
  BY <1>0, <1>1, AddSuccessorAdds
<1>5. Keeps(G, H, {})
  BY <1>0, <1>1, <1>2, AddSuccessorKeeps
<1>6. ASSUME G.last[b] = e PROVE Sound(c, H, {n})
  BY <1>0, <1>1, <1>6, AddSuccessorSound
<1>7. ASSUME G.last[b] # e PROVE Structure(c, H, {n})
  <2>1. G.last[b] \in b..(e - 1) /\ b <= G.last[b]
    <3>1. b <= G.last[b] /\ G.last[b] \in Addr
      BY <1>0, LastInAddr DEF Sound
    <3> QED BY <1>0, <1>7, <3>1, AddrFacts
  <2>2. FallsThru(c, K, b) /\ FallsThru(c, G, b)
    BY <1>1, <2>1 DEF FallsThru
  <2>3. G.succs[b] = {G.last[b] + 1} /\ n \notin G.succs[b]
    BY <1>0, <2>2 DEF Sound, ClosedSound, EdgesSound
  <2>4. H = Die(K)
    BY <1>1, <2>2, <2>3 DEF AddSuccessor, KnownSuccessor
  <2>5. /\ H.blocks = K.blocks /\ H.last = K.last /\ H.term = K.term
        /\ H.ro = K.ro /\ H.succs = K.succs /\ H.preds = K.preds /\ H.ins = K.ins
    BY <1>1, <2>4 DEF Die, Graph
  <2> HIDE DEF H
  <2> QED BY <1>1, <2>5 DEF Sound, Structure, InsSound, Mirrored, EdgesSound,
             ClosedSound, OpenSound, Words, FallsThru
<1>8. Structure(c, H, {n}) /\ (G.last[b] = e => ~H.died)
  BY <1>6, <1>7, StructureSound
<1>9. Known(H)
  <2>1. InsSound(H)
    BY <1>8 DEF Structure
  <2>2. H.ro \subseteq H.blocks
    BY <1>1, <1>4 DEF Known
  <2> QED BY <2>1, <2>2 DEF Known, InsSound
<1> HIDE DEF H
<1> QED BY <1>1, <1>3, <1>4, <1>5, <1>8, <1>9 DEF H, K

\* While compiled code runs every block is closed and the graph is sound.
LEMMA NativeGraph ==
    ASSUME JitInv, native # NoNative
    PROVE  /\ ~brk /\ ~rf.en /\ unit = Idle
           /\ code \in Programs /\ graph \in Graph /\ Known(graph)
           /\ Sound(code, graph, {})
           /\ graph.blocks \subseteq graph.ro /\ Open = {}
<1>1. ~brk /\ ~graph.died /\ ~rf.en /\ unit = Idle
  BY DEF JitInv, NativeInv, NativeInPlace
<1>2. code \in Programs /\ graph \in Graph /\ Known(graph) /\ Structure(code, graph, Open)
  BY <1>1 DEF JitInv, GraphInv, TypeOK
<1>3. cBB \in graph.ro
  BY HeadHasCode
<1>4. Open \subseteq {cBB}
  BY <1>1 DEF JitInv, GraphInv, PcInSync
<1>5. Open = {} /\ graph.blocks \subseteq graph.ro
  BY <1>3, <1>4 DEF Open
<1> QED BY <1>1, <1>2, <1>5, StructureSound

LEMMA NativeExitGraph ==
    ASSUME NoLostCall, JitInv, NativeExit
    PROVE  /\ GraphInv'
           /\ Keeps(graph, graph', {})
           /\ cBB' = pc' /\ cBB' \in Addr /\ brk' = brk /\ code' = code /\ unit' = Idle
           /\ graph.last[native.at] = Region.last[native.at] => ~graph'.died
<1> DEFINE b == native.at
           e == Region.last[native.at]
<1>1. /\ native # NoNative /\ AtEnd
      /\ UNCHANGED <<code, brk, unit, codeVars>>
  BY DEF NativeExit
<1>2. PICK m \in GoesTo(code, native.word, host) :
        \E n \in CompiledNext(native.word, m) :
            /\ host' \in HostAfter(code, native.word, host)
            /\ pc' = n
            /\ graph' = IF n \in graph.blocks THEN graph
                        ELSE AddSuccessor(code, NewBlock(graph, n), native.at, n)
            /\ cBB' = n
  BY DEF NativeExit
<1>3. m \in Addr /\ m \in NextPCs(code, e) /\ CompiledNext(native.word, m) = {m}
  BY <1>1, NativeGoes
<1>4. /\ ~brk /\ unit = Idle
      /\ code \in Programs /\ graph \in Graph /\ Known(graph)
      /\ Sound(code, graph, {})
      /\ graph.blocks \subseteq graph.ro /\ Open = {}
  BY <1>1, NativeGraph
<1>5. /\ b \in graph.ro /\ e \in Addr /\ graph.last[b] <= e
      /\ \A a \in b..(e - 1) : ~IsBranchOrJump(code[a])
  BY <1>1, HeadHasCode DEF RunsProgram, Shrunk
<1>6. host' \in HostWords
  BY <1>2, HostTyped DEF JitInv, GraphInv, TypeOK
<1> HIDE DEF b, e
<1>7. CASE m \in graph.blocks
  <2>1. graph' = graph /\ pc' = m /\ cBB' = m
    BY <1>2, <1>3, <1>7
  <2>2. TypeOK'
    BY <1>1, <1>3, <1>6, <2>1 DEF JitInv, GraphInv, TypeOK
  <2>3. Open' = {}
    BY <1>4, <2>1 DEF Open
  <2>4. PcInSync'
    BY <1>1, <1>4, <1>7, <2>1, <2>3 DEF PcInSync, Idle
  <2>5. Structure(code, graph, {})
    BY <1>4, StructureSound
  <2> QED BY <1>1, <1>3, <1>4, <2>1, <2>2, <2>3, <2>4, <2>5 DEF GraphInv, Keeps, Sound
<1>8. CASE m \notin graph.blocks
  <2>1. /\ graph' = AddSuccessor(code, NewBlock(graph, m), b, m)
        /\ pc' = m /\ cBB' = m
    BY <1>2, <1>3, <1>8 DEF b
  <2>7. \A n \in NextPCs(code, e) : n \notin graph.blocks =>
            LET H == AddSuccessor(code, NewBlock(graph, n), b, n)
            IN  /\ H \in Graph
                /\ Known(H)
                /\ Structure(code, H, {n})
                /\ H.blocks = graph.blocks \cup {n} /\ H.ro = graph.ro
                /\ H.last[n] = n - 1
                /\ Keeps(graph, H, {})
                /\ graph.last[b] = e => ~H.died
    BY <1>4, <1>5, LeaveCodeGraph
  <2>2. /\ graph' \in Graph
        /\ Known(graph')
        /\ Structure(code, graph', {m})
        /\ graph'.blocks = graph.blocks \cup {m} /\ graph'.ro = graph.ro
        /\ graph'.last[m] = m - 1
        /\ Keeps(graph, graph', {})
        /\ graph.last[b] = e => ~graph'.died
    BY <1>3, <1>8, <2>1, <2>7
  <2>3. TypeOK'
    BY <1>1, <1>3, <1>6, <2>1, <2>2 DEF JitInv, GraphInv, TypeOK
  <2>4. m \notin graph'.ro /\ Open' = {m}
    BY <1>4, <1>8, <2>2 DEF Open, Known
  <2>5. m = graph'.last[m] + 1
    BY <1>3, <2>2, AddrFacts
  <2>6. PcInSync'
    BY <1>1, <1>4, <2>1, <2>2, <2>4, <2>5 DEF PcInSync, Idle
  <2> QED BY <1>1, <1>3, <1>4, <2>1, <2>2, <2>3, <2>4, <2>6 DEF GraphInv, b, e
<1> QED BY <1>7, <1>8

LEMMA NativeExitInv ==
    ASSUME NoLostCall, JitInv, NativeExit
    PROVE  JitInv'
<1>1. /\ native # NoNative /\ AtEnd /\ native' = NoNative /\ ahead' = ahead - 1
      /\ UNCHANGED codeVars
      /\ rf' = OfferHead(rf, cBB', native.at, hasRegion)
  BY DEF NativeExit
<1>2. UNCHANGED <<traces, cfg, hasRegion, inRegions, fault>>
  BY <1>1 DEF codeVars
<1>3. /\ GraphInv' /\ Keeps(graph, graph', {}) /\ cBB' \in Addr
      /\ brk' = brk /\ code' = code /\ unit' = Idle
  BY NativeExitGraph
<1>4. CodeInv'
  BY <1>1, <1>3, CodeStays DEF JitInv
<1>5. ahead' = 0
  <2>1. /\ ahead = (Region.last[native.at] - native.word) + 1
        /\ native.word = Region.last[native.at] /\ native.word \in Nat
    BY <1>1, NativeWhere DEF JitInv, NativeInv, CounterExact, AtEnd
  <2> QED BY <1>1, <2>1
<1>6. NativeInv'
  BY <1>1, <1>5 DEF NativeInv, NativeInPlace, CounterExact
<1>7. CodeTyped' /\ HasRegionExact'
  BY <1>1, <1>2, <1>5, AddrFacts DEF JitInv, CodeTyped, HasRegionExact, NoNative, NoBlock
<1>8. FinderInv'
  <2>1. rf \in FinderRecord /\ ~rf.en
    BY <1>1, NativeGraph DEF JitInv, FinderInv
  <2>2. /\ rf' \in FinderRecord
        /\ rf'.en => rf'.buf = <<>> /\ rf'.head = cBB' /\ rf'.head \notin hasRegion
    BY <1>1, <1>3, <2>1, OfferFacts
  <2>3. KnownPath(graph', <<>>)
    BY DEF KnownPath
  <2>4. Recording(rf', graph', unit'.blk, cBB', brk')
    BY <1>3, <2>2, <2>3 DEF Recording, Idle
  <2> QED BY <1>2, <2>2, <2>4 DEF FinderInv
<1> QED BY <1>3, <1>4, <1>6, <1>7, <1>8 DEF JitInv

-----------------------------------------------------------------------------
(***************************************************************************)
(* The interpreter's steps.                                                *)
(***************************************************************************)
LEMMA InterpreterState ==
    ASSUME JitInv
    PROVE  /\ graph \in Graph /\ Known(graph) /\ code \in Programs
           /\ pc \in Addr /\ cBB \in Addr /\ rf \in FinderRecord
           /\ CodeTyped /\ HasRegionExact /\ CodeInv /\ GraphInv
           /\ unit.blk # NoBlock => unit.blk \in Addr
<1>1. unit.blk \in 0..N
  BY DEF JitInv, GraphInv, TypeOK
<1>2. unit.blk # NoBlock => unit.blk \in Addr
  BY <1>1, AddrFacts DEF Addr, NoBlock
<1> QED BY <1>2 DEF JitInv, GraphInv, TypeOK, FinderInv

\* The engines change places in JitEnter and NativeExit only.
LEMMA EngineStays ==
    ASSUME JitInv, Interpreting, UNCHANGED engineVars
    PROVE  /\ NativeInv'
           /\ native' \in [head : 0..N, at : 0..N, word : 0..N] /\ ahead' \in Nat
<1>1. native = NoNative /\ native' = native /\ ahead' = ahead
  BY DEF Interpreting, engineVars
<1> QED BY <1>1 DEF JitInv, NativeInv, NativeInPlace, CounterExact, CodeTyped

LEMMA JitBuildInv ==
    ASSUME JitInv, JitBuild
    PROVE  JitInv'
<1> DEFINE L == AddIns(graph, cBB, pc)
<1>1. /\ Interpreting /\ BuildInsn /\ UNCHANGED engineVars
      /\ IF IsBranchOrJump(code[pc]) THEN AfterTransfer(L, cBB, pc') ELSE UNCHANGED codeVars
      /\ rf' = DisableRegionCollection(rf)
  BY DEF JitBuild
<1>2. GraphInv' /\ Cuts(graph, graph') /\ code' = code
  BY <1>1, GraphStep DEF JitInv, Next
<1>3. /\ graph \in Graph /\ Known(graph) /\ code \in Programs /\ pc \in Addr
      /\ rf \in FinderRecord /\ pc' \in Addr
      /\ CodeTyped /\ HasRegionExact /\ CodeInv /\ GraphInv
  BY <1>2, InterpreterState DEF GraphInv, TypeOK
<1>4. cBB \in graph.blocks /\ cBB \notin graph.ro /\ ~brk
  BY <1>1, <1>3 DEF GraphInv, PcInSync, BuildInsn, Dispatching, Running, Idle
<1>5. PICK n \in NextPCs(code, pc) :
        /\ Interpret(n)
        /\ IF IsBranchOrJump(code[pc])
           THEN graph' = GetNextBlock(code, SetTermAddr(L, cBB, pc), cBB, n)
           ELSE graph' = L
  BY <1>1 DEF BuildInsn
<1>6. pc' = n
  BY <1>5 DEF Interpret
<1>7. /\ Keeps(graph, L, {})
      /\ Keeps(graph, GetNextBlock(code, SetTermAddr(L, cBB, pc), cBB, n), Cut(L, cBB, n))
      /\ Cut(L, cBB, n) \subseteq Addr
      /\ L.ro = graph.ro
  BY <1>3, <1>4, <1>6, BuildKeeps
<1> HIDE DEF L
<1>8. /\ cfg' \in [Addr -> Code] /\ hasRegion' \subseteq Addr
      /\ inRegions' = inRegions /\ fault' = fault
      /\ HasRegionExact' /\ CodeInv'
  <2>1. CASE IsBranchOrJump(code[pc])
    <3>1. AfterTransfer(L, cBB, n) /\ Keeps(graph, graph', Cut(L, cBB, n))
      BY <1>1, <1>5, <1>6, <1>7, <2>1
    <3> QED BY <1>2, <1>3, <1>4, <1>7, <3>1, AfterTransferCode DEF CodeTyped
  <2>2. CASE ~IsBranchOrJump(code[pc])
    <3>1. UNCHANGED codeVars /\ Keeps(graph, graph', {})
      BY <1>1, <1>5, <1>7, <2>2
    <3>2. CodeInv'
      BY <1>2, <1>3, <1>4, <3>1, CodeStays
    <3> QED BY <1>3, <3>1, <3>2 DEF codeVars, CodeTyped, HasRegionExact
  <2> QED BY <2>1, <2>2
<1>9. NativeInv' /\ CodeTyped'
  BY <1>1, <1>3, <1>8, EngineStays DEF CodeTyped
<1>10. FinderInv'
  BY <1>1, <1>3, DisableFacts DEF FinderInv, Recording
<1> QED BY <1>2, <1>8, <1>9, <1>10 DEF JitInv

\* A recording whose blocks are not cut goes on.
LEMMA RecordingStays ==
    ASSUME NEW f \in FinderRecord, NEW G, NEW H, Keeps(G, H, {}),
           NEW blk, blk # NoBlock, NEW x, NEW y, NEW b, NEW d,
           Recording(f, G, blk, x, b)
    PROVE  Recording(f, H, blk, y, d)
<1>1. f.buf \in Seq(Addr)
  BY DEF FinderRecord
<1>2. KnownPath(G, f.buf) => KnownPath(H, f.buf)
  BY <1>1, KnownPathStays
<1> QED BY <1>2 DEF Recording

\* What the finder is left with when a transfer has been looked up.
LEMMA FinderAfterFacts ==
    ASSUME FinderInv, NEW b, NEW t
    PROVE  LET R == FinderAfter(graph, b, t)
           IN  /\ R \in FinderRecord
               /\ R.en => R = rf /\ Cut(graph, b, t) = {}
<1>1. rf \in FinderRecord
  BY DEF FinderInv
<1>2. CASE MustSplit(graph, b, t)
  BY <1>1, <1>2, DisableFacts DEF FinderAfter
<1>3. CASE ~MustSplit(graph, b, t)
  BY <1>1, <1>3 DEF FinderAfter, Cut
<1> QED BY <1>2, <1>3

LEMMA JitRunInsnInv ==
    ASSUME JitInv, JitRunInsn
    PROVE  JitInv'
<1>1. /\ Interpreting /\ RunInsn /\ UNCHANGED engineVars
      /\ IF IsBranchOrJump(code[pc])
         THEN /\ AfterTransfer(graph, cBB, pc')
              /\ rf' = FinderAfter(graph, cBB, pc')
         ELSE UNCHANGED <<codeVars, rf>>
  BY DEF JitRunInsn
<1>2. GraphInv' /\ Cuts(graph, graph') /\ code' = code
  BY <1>1, GraphStep DEF JitInv, Next
<1>3. /\ graph \in Graph /\ Known(graph) /\ code \in Programs /\ cBB \in Addr
      /\ rf \in FinderRecord /\ pc' \in Addr
      /\ CodeTyped /\ HasRegionExact /\ CodeInv /\ GraphInv /\ FinderInv
  BY <1>2, InterpreterState DEF GraphInv, TypeOK, JitInv
<1>4. ~brk /\ unit.blk # NoBlock /\ unit'.blk = unit.blk
  BY <1>1, <1>3 DEF RunInsn, Running, GraphInv, TypeOK
<1>5. PICK n \in NextPCs(code, pc) :
        /\ Interpret(n)
        /\ IF IsBranchOrJump(code[pc])
           THEN graph' = GetNextBlock(code, graph, cBB, n)
           ELSE graph' = graph
  BY <1>1 DEF RunInsn
<1>6. pc' = n
  BY <1>5 DEF Interpret
<1>7. CASE IsBranchOrJump(code[pc])
  <2>1. /\ AfterTransfer(graph, cBB, n) /\ rf' = FinderAfter(graph, cBB, n)
        /\ Keeps(graph, graph', Cut(graph, cBB, n)) /\ Cut(graph, cBB, n) \subseteq Addr
    BY <1>1, <1>3, <1>5, <1>6, <1>7, GetNextBlockKeeps
  <2>2. /\ cfg' \in [Addr -> Code] /\ hasRegion' \subseteq hasRegion
        /\ inRegions' = inRegions /\ fault' = fault
        /\ HasRegionExact' /\ CodeInv'
    BY <1>2, <1>3, <1>4, <2>1, AfterTransferCode
  <2>3. NativeInv' /\ CodeTyped'
    BY <1>1, <1>3, <2>2, EngineStays, InterpreterState DEF CodeTyped
  <2>4. FinderInv'
    <3>1. /\ rf' \in FinderRecord
          /\ rf'.en => rf' = rf /\ Cut(graph, cBB, n) = {}
      BY <1>3, <2>1, FinderAfterFacts
    <3>2. Recording(rf', graph', unit'.blk, cBB', brk')
      <4>1. CASE ~rf'.en
        BY <4>1 DEF Recording
      <4>2. CASE rf'.en
        <5>1. rf' = rf /\ Keeps(graph, graph', {})
          BY <2>1, <3>1, <4>2
        <5> QED BY <1>3, <1>4, <5>1, RecordingStays DEF FinderInv
      <4> QED BY <4>1, <4>2
    <3> QED BY <1>3, <2>2, <3>1, <3>2 DEF FinderInv
  <2> QED BY <1>2, <2>2, <2>3, <2>4 DEF JitInv
<1>8. CASE ~IsBranchOrJump(code[pc])
  <2>1. /\ UNCHANGED codeVars /\ rf' = rf /\ graph' = graph
        /\ Keeps(graph, graph', {})
    BY <1>1, <1>5, <1>8 DEF Keeps
  <2>2. CodeInv'
    BY <1>2, <1>3, <1>4, <2>1, CodeStays
  <2>3. UNCHANGED <<traces, cfg, hasRegion, inRegions, fault>>
    BY <2>1 DEF codeVars
  <2>4. NativeInv' /\ CodeTyped' /\ HasRegionExact'
    BY <1>1, <1>3, <2>3, EngineStays DEF CodeTyped, HasRegionExact
  <2>5. FinderInv'
    BY <1>3, <1>4, <2>1, <2>3, RecordingStays DEF FinderInv
  <2> QED BY <1>2, <2>2, <2>4, <2>5 DEF JitInv
<1> QED BY <1>7, <1>8

LEMMA JitLeaveInv ==
    ASSUME JitInv, JitLeave
    PROVE  JitInv'
<1>1. /\ Interpreting /\ LeaveBlock /\ UNCHANGED engineVars
      /\ AfterTransfer(graph, unit.blk, pc)
      /\ rf' = OfferHead(FinderAfter(graph, unit.blk, pc), pc, cBB, hasRegion')
  BY DEF JitLeave
<1>2. GraphInv' /\ Cuts(graph, graph') /\ code' = code
  BY <1>1, GraphStep DEF JitInv, Next
<1>3. /\ graph \in Graph /\ Known(graph) /\ code \in Programs /\ cBB \in Addr
      /\ rf \in FinderRecord /\ pc \in Addr
      /\ CodeTyped /\ HasRegionExact /\ CodeInv /\ GraphInv /\ FinderInv
  BY InterpreterState DEF JitInv
<1>4. /\ unit.blk # NoBlock /\ unit.blk \in Addr /\ unit'.blk = NoBlock
      /\ brk' = brk /\ pc' = pc /\ cBB' = pc
      /\ graph' = FindOrCreate(code, graph, unit.blk, cBB, pc)
  BY <1>1, InterpreterState DEF LeaveBlock, Idle, guestVars
<1>5. /\ Keeps(graph, graph', Cut(graph, unit.blk, pc))
      /\ Cut(graph, unit.blk, pc) \subseteq Addr
  BY <1>3, <1>4, FindOrCreateKeeps
<1>6. /\ cfg' \in [Addr -> Code] /\ hasRegion' \subseteq hasRegion
      /\ inRegions' = inRegions /\ fault' = fault
      /\ HasRegionExact' /\ CodeInv'
  BY <1>1, <1>2, <1>3, <1>4, <1>5, AfterTransferCode
<1>7. NativeInv' /\ CodeTyped'
  BY <1>1, <1>3, <1>6, EngineStays DEF CodeTyped
<1>8. FinderInv'
  <2> DEFINE F == FinderAfter(graph, unit.blk, pc)
  <2>1. F \in FinderRecord /\ (F.en => F = rf /\ Cut(graph, unit.blk, pc) = {})
    BY <1>3, FinderAfterFacts
  <2>2. /\ rf' \in FinderRecord
        /\ rf'.en => \/ rf' = F
                     \/ rf'.buf = <<>> /\ rf'.head = pc /\ pc \notin hasRegion'
    BY <1>1, <1>3, <2>1, OfferFacts
  <2> HIDE DEF F
  <2>3. CASE ~rf'.en
    BY <2>2, <2>3 DEF FinderInv, Recording
  <2>4. CASE rf'.en /\ rf'.buf = <<>> /\ rf'.head = pc /\ pc \notin hasRegion'
    <3>1. KnownPath(graph', <<>>)
      BY DEF KnownPath
    <3> QED BY <1>4, <2>2, <2>4, <3>1 DEF FinderInv, Recording
  <2>5. CASE rf'.en /\ rf' = F
    <3>1. rf' = rf /\ Keeps(graph, graph', {})
      BY <1>5, <2>1, <2>5
    <3>2. /\ KnownPath(graph, rf.buf) /\ rf.buf # <<>> /\ rf.buf[1] = rf.head
          /\ rf.buf[Len(rf.buf)] = unit.blk
          /\ rf.head \notin hasRegion
      BY <1>3, <1>4, <2>5, <3>1 DEF FinderInv, Recording
    <3>3. rf.buf \in Seq(Addr)
      BY <1>3 DEF FinderRecord
    <3>4. KnownPath(graph', rf.buf)
      BY <3>1, <3>2, <3>3, KnownPathStays
    <3>5. unit.blk \in graph.ro
      BY <3>2, <3>3 DEF KnownPath
    <3>6. ~brk => pc \in graph'.succs[unit.blk]
      <4>1. ~brk => pc \in graph.succs[unit.blk]
        BY <1>1, <1>3, <1>4 DEF LeaveBlock, GraphInv, PcInSync
      <4> QED BY <3>1, <3>5, <4>1 DEF Keeps
    <3> QED BY <1>4, <1>6, <2>2, <3>1, <3>2, <3>4, <3>6 DEF FinderInv, Recording
  <2> QED BY <2>2, <2>3, <2>4, <2>5
<1> QED BY <1>2, <1>6, <1>7, <1>8 DEF JitInv

-----------------------------------------------------------------------------
(***************************************************************************)
(* Recording and compiling.                                                *)
(***************************************************************************)
LEMMA TraceBlocksAre ==
    ASSUME NEW T, \A t \in T : t \in Seq(Addr)
    PROVE  \A b : b \in TraceBlocks(T) <=> \E t \in T : \E i \in 1..Len(t) : b = t[i]
BY DEF TraceBlocks, ToSet

LEMMA FaultTyped ==
    ASSUME NEW c, NEW G, NEW h, NEW bs
    PROVE  BuildFault(c, G, h, bs) \in Faults
BY DEF BuildFault, Faults

Loops(G, h, T) == T # {} /\ \A t \in T : LoopOf(G, h, t)

\* Every block of a loop has a successor in it.
LEMMA LoopGoesOn ==
    ASSUME NEW G, NEW h, NEW T, Loops(G, h, T), NEW b \in TraceBlocks(T)
    PROVE  \E n \in TraceBlocks(T) : n \in G.succs[b]
<1>1. \A t \in T : t \in Seq(Addr) /\ LoopOf(G, h, t)
  BY DEF Loops, LoopOf
<1>2. \A x : x \in TraceBlocks(T) <=> \E t \in T : \E i \in 1..Len(t) : x = t[i]
  BY <1>1, TraceBlocksAre
<1>3. PICK t \in T : \E i \in 1..Len(t) : b = t[i]
  BY <1>2
<1>4. PICK i \in 1..Len(t) : b = t[i]
  BY <1>3
<1>5. t \in Seq(Addr) /\ Len(t) \in Nat /\ 1 \in 1..Len(t) /\ t[1] = h
  BY <1>1, <1>4 DEF LoopOf
<1>6. CASE i = Len(t)
  <2>1. h \in G.succs[b]
    BY <1>1, <1>4, <1>6 DEF LoopOf
  <2> QED BY <1>2, <1>5, <2>1
<1>7. CASE i # Len(t)
  <2>1. i \in 1..(Len(t) - 1) /\ i + 1 \in 1..Len(t)
    BY <1>5, <1>7
  <2>2. t[i + 1] \in G.succs[b]
    BY <1>1, <1>4, <2>1 DEF LoopOf, KnownPath
  <2> QED BY <1>2, <2>1, <2>2
<1> QED BY <1>6, <1>7

\* Following the loops from their head leads everywhere.
LEMMA LoopsConnected ==
    ASSUME NEW G, NEW h, NEW T, Loops(G, h, T), NEW C, h \in C,
           \A b \in C : G.succs[b] \cap TraceBlocks(T) \subseteq C
    PROVE  TraceBlocks(T) \subseteq C
<1>1. \A t \in T : t \in Seq(Addr) /\ LoopOf(G, h, t)
  BY DEF Loops, LoopOf
<1>2. \A x : x \in TraceBlocks(T) <=> \E t \in T : \E i \in 1..Len(t) : x = t[i]
  BY <1>1, TraceBlocksAre
<1>3. ASSUME NEW t \in T, NEW j \in 1..Len(t) PROVE t[j] \in C
  <2> DEFINE S == {i \in Nat : i + 1 \in 1..Len(t) => t[i + 1] \in C}
  <2>0. t \in Seq(Addr) /\ Len(t) \in Nat /\ t[1] = h /\ KnownPath(G, t)
    BY <1>1 DEF LoopOf
  <2>1. 0 \in S
    BY <2>0
  <2>2. ASSUME NEW i \in Nat, i \in S PROVE i + 1 \in S
    <3> SUFFICES ASSUME (i + 1) + 1 \in 1..Len(t) PROVE t[(i + 1) + 1] \in C
      OBVIOUS
    <3>1. i + 1 \in 1..Len(t) /\ i + 1 \in 1..(Len(t) - 1)
      BY <2>0
    <3>2. t[i + 1] \in C
      BY <2>2, <3>1
    <3>3. t[(i + 1) + 1] \in G.succs[t[i + 1]]
      BY <2>0, <3>1 DEF KnownPath
    <3>4. t[(i + 1) + 1] \in TraceBlocks(T)
      BY <1>2
    <3> QED BY <3>2, <3>3, <3>4
  <2> HIDE DEF S
  <2>3. Nat \subseteq S
    BY <2>1, <2>2, SetInduction
  <2>4. j - 1 \in Nat /\ (j - 1) + 1 = j
    OBVIOUS
  <2> QED BY <2>3, <2>4 DEF S
<1> QED BY <1>2, <1>3

\* So the loops reach all of their blocks, and so does the region made of them.
LEMMA LoopsReach ==
    ASSUME NEW G \in Graph, NEW h, NEW T, Loops(G, h, T)
    PROVE  Reaches(G, h, TraceBlocks(T)) /\ TraceBlocks(T) \in SUBSET Addr
<1> DEFINE bs == TraceBlocks(T)
<1>1. /\ \A t \in T : t \in Seq(Addr) /\ LoopOf(G, h, t)
      /\ \A b : b \in bs <=> \E t \in T : \E i \in 1..Len(t) : b = t[i]
  <2>1. \A t \in T : t \in Seq(Addr) /\ LoopOf(G, h, t)
    BY DEF Loops, LoopOf
  <2> QED BY <2>1, TraceBlocksAre
<1>2. \A b \in bs : \E n \in bs : n \in G.succs[b]
  BY LoopGoesOn
<1>3. ASSUME NEW R \in SUBSET Addr, h \in R, After(G, bs, R) PROVE bs \subseteq R
  <2>1. h \in R \cap bs /\ \A b \in R \cap bs : G.succs[b] \cap bs \subseteq R \cap bs
    <3>1. PICK t \in T : t # <<>> /\ t[1] = h /\ t \in Seq(Addr)
      BY <1>1 DEF Loops, LoopOf
    <3>2. 1 \in 1..Len(t)
      BY <3>1
    <3>3. h \in bs
      BY <1>1, <3>1, <3>2
    <3> QED BY <1>3, <3>3 DEF After
  <2>2. bs \subseteq R \cap bs
    BY <2>1, LoopsConnected
  <2> QED BY <2>2
<1> HIDE DEF bs
<1>4. bs \subseteq G.ro /\ bs \in SUBSET Addr
  <2>1. \A t \in T : \A i \in 1..Len(t) : t[i] \in G.ro
    BY <1>1 DEF LoopOf, KnownPath
  <2>2. G.ro \in SUBSET Addr
    BY DEF Graph
  <2>3. bs \subseteq G.ro
    BY <1>1, <2>1
  <2> QED BY <2>2, <2>3
<1>5. h \in bs /\ \E e \in bs : h \in G.succs[e]
  <2>1. PICK t \in T : TRUE
    BY DEF Loops
  <2>2. t \in Seq(Addr) /\ t # <<>> /\ t[1] = h /\ h \in G.succs[t[Len(t)]]
    BY <1>1 DEF LoopOf
  <2>3. 1 \in 1..Len(t) /\ Len(t) \in 1..Len(t)
    BY <2>2
  <2> QED BY <1>1, <2>2, <2>3
<1>6. \A b \in bs : G.succs[b] \cap bs # {}
  BY <1>2
<1>7. Reaches(G, h, bs)
  BY <1>3, <1>4, <1>5, <1>6 DEF Reaches
<1> QED BY <1>4, <1>7 DEF bs

LEMMA RegionReaches ==
    ASSUME NEW c, NEW G \in Graph, Sound(c, G, G.blocks \ G.ro),
           NEW h, NEW T, Loops(G, h, T), NEW order
    PROVE  /\ Reaches(G, h, RegionBlocks(c, G, h, T, order))
           /\ TraceBlocks(T) \subseteq RegionBlocks(c, G, h, T, order)
<1> DEFINE bs == TraceBlocks(T)
           W == bs \cup Discovered(CfgAug, c, G, h, bs, order)
<1>1. Reaches(G, h, bs) /\ bs \in SUBSET Addr
  BY LoopsReach
<1>2. G.succs \in [Addr -> SUBSET Addr] /\ h \in bs
  BY <1>1 DEF Reaches, Graph
<1>3. RegionBlocks(c, G, h, T, order) = W
  BY DEF RegionBlocks
<1> HIDE DEF bs
<1>4. Joins(c, G, bs, W)
  BY <1>1, <1>2, CfgAugAssumption, DiscoveredJoins
<1> HIDE DEF W
<1>5. Reaches(G, h, W)
  BY <1>1, <1>4, JoinsReaches DEF Sound
<1>6. bs \subseteq W
  BY <1>4 DEF Joins
<1> QED BY <1>3, <1>5, <1>6 DEF bs

\* What is compiled is code of the program.
LEMMA CompiledRuns ==
    ASSUME NEW c \in Programs, NEW G \in Graph, Sound(c, G, G.blocks \ G.ro),
           NEW h, NEW T, Loops(G, h, T), NEW order
    PROVE  LET cd == Compiled(G, RegionBlocks(c, G, h, T, order))
           IN  /\ cd \in Code /\ cd # NoCode
               /\ RunsProgram(c, h, cd)
               /\ Shrunk(G, cd)
<1> DEFINE bs == RegionBlocks(c, G, h, T, order)
           cd == Compiled(G, bs)
<1>1. Reaches(G, h, bs)
  BY RegionReaches
<1> HIDE DEF bs
<1>2. bs \subseteq G.ro /\ h \in bs /\ bs \in SUBSET Addr
  BY <1>1 DEF Reaches, Graph
<1>3. cd \in Code
  <2>1. [b \in Addr |-> IF b \in bs THEN G.last[b] ELSE 0] \in [Addr -> 0..N]
    BY AddrFacts DEF Graph
  <2>2. [b \in Addr |-> IF bs = {b} THEN {b}
                        ELSE IF b \in bs THEN G.succs[b] \cap bs ELSE {}] \in [Addr -> SUBSET Addr]
    BY DEF Graph
  <2> QED BY <1>2, <2>1, <2>2 DEF Compiled, Code
<1>4. /\ cd.blocks = bs
      /\ \A b \in bs : /\ cd.last[b] = G.last[b]
                       /\ cd.succs[b] = G.succs[b] \cap bs /\ cd.succs[b] # {}
  BY <1>1, CompiledEdges
<1>5. cd # NoCode
  BY <1>2, <1>4 DEF NoCode
<1> HIDE DEF cd
<1>6. RunsProgram(c, h, cd)
  <2> SUFFICES ASSUME NEW b \in bs
               PROVE  /\ b <= cd.last[b] /\ cd.last[b] \in Addr
                      /\ \A a \in b..(cd.last[b] - 1) : ~IsBranchOrJump(c[a])
                      /\ \A a \in b..cd.last[b] : ~IsMonitor(c[a])
                      /\ cd.succs[b] \subseteq bs
                      /\ cd.succs[b] \subseteq NextPCs(c, cd.last[b])
                      /\ c[cd.last[b]].kind = "jal" => cd.succs[b] # {}
    BY <1>2, <1>4 DEF RunsProgram
  <2>1. cd.last[b] = G.last[b] /\ b \in G.ro
    BY <1>2, <1>4
  <2>2. /\ b <= G.last[b] /\ G.last[b] \in Addr
        /\ \A a \in b..(G.last[b] - 1) : ~IsBranchOrJump(c[a])
        /\ G.succs[b] \subseteq NextPCs(c, G.last[b])
    BY <2>1, ClosedBlock
  <2>3. \A a \in b..G.last[b] : ~IsMonitor(c[a])
    BY <2>1, ClosedBlock DEF Words, IsMonitor
  <2> QED BY <1>4, <2>1, <2>2, <2>3
<1>7. Shrunk(G, cd)
  <2>1. ASSUME NEW b \in bs PROVE G.last[b] <= cd.last[b]
    <3>1. cd.last[b] = G.last[b] /\ G.last[b] \in Addr
      BY <1>2, <1>4, ClosedBlock
    <3> QED BY <3>1, AddrFacts
  <2> QED BY <1>2, <1>4, <2>1 DEF Shrunk
<1> QED BY <1>3, <1>5, <1>6, <1>7 DEF cd, bs

\* The recording that closes is a loop of its head.
LEMMA ClosedRecording ==
    ASSUME JitInv, Dispatching, Closes(rf, cBB)
    PROVE  LoopOf(graph, cBB, rf.buf) /\ cBB \notin hasRegion
<1>1. rf.buf \in Seq(Addr)
  BY DEF JitInv, FinderInv, FinderRecord
<1>2. rf.en /\ cBB = rf.head /\ rf.buf # <<>> /\ ~brk /\ unit.blk = NoBlock
  BY DEF Closes, Dispatching, Running, Idle
<1>3. Recording(rf, graph, unit.blk, cBB, brk) /\ rf.head \notin hasRegion
  BY <1>2 DEF JitInv, FinderInv
<1> QED BY <1>1, <1>2, <1>3 DEF Recording, LoopOf

\* What is kept stays kept when more blocks know the head.
LEMMA KeptByMore ==
    ASSUME NEW G, NEW inr, NEW jnr, NEW h, NEW ts, Kept(G, inr, h, ts),
           \A b \in Addr : inr[b] \subseteq jnr[b]
    PROVE  Kept(G, jnr, h, ts)
<1>1. ASSUME NEW t \in DOMAIN ts, NEW i \in 1..Len(t)
      PROVE  h \in jnr[t[i]]
  <2>1. t \in Seq(Addr) /\ h \in inr[t[i]]
    BY DEF Kept, LoopOf
  <2>2. t[i] \in Addr
    BY <2>1
  <2> QED BY <2>1, <2>2
<1> QED BY <1>1 DEF Kept

LEMMA AddRegionKept ==
    ASSUME NEW G, NEW inr, NEW h, NEW ts, NEW trace,
           Kept(G, inr, h, ts), LoopOf(G, h, trace),
           \A i \in 1..Len(trace) : h \in inr[trace[i]]
    PROVE  /\ Kept(G, inr, h, AddRegion(ts, trace))
           /\ DOMAIN AddRegion(ts, trace) # {}
<1> DEFINE us == AddRegion(ts, trace)
<1>1. DOMAIN us = DOMAIN ts \cup {trace}
  BY DEF AddRegion
<1>2. ASSUME NEW t \in DOMAIN us
      PROVE  us[t] \in Nat \ {0}
  BY <1>1 DEF AddRegion, Kept
<1> HIDE DEF us
<1> QED BY <1>1, <1>2 DEF us, Kept

\* A loop is recorded: it is kept, and its blocks learn of the head.
LEMMA RecordFacts ==
    ASSUME JitInv, Interpreting, Dispatching, Closes(rf, cBB), Record(cBB, rf.buf)
    PROVE  LET ts == AddRegion(traces[cBB], rf.buf)
           IN  /\ inRegions' \in [Addr -> SUBSET Addr]
               /\ \A b \in Addr : inRegions[b] \subseteq inRegions'[b]
               /\ \A x \in Addr : Kept(graph, inRegions', x, traces[x])
               /\ Kept(graph, inRegions', cBB, ts)
               /\ DOMAIN ts # {}
<1> DEFINE h == cBB
           trace == rf.buf
           ts == AddRegion(traces[h], trace)
<1>1. /\ graph \in Graph /\ Known(graph) /\ code \in Programs /\ h \in Addr
      /\ CodeTyped /\ HasRegionExact /\ CodeInv /\ GraphInv
  BY InterpreterState
<1>2. LoopOf(graph, h, trace) /\ h \notin hasRegion
  BY ClosedRecording
<1>3. inRegions' = InRegionsAfter(h, trace)
  BY DEF Record
<1>4. \A b \in Addr : inRegions'[b] = IF b \in TraceBlocks({trace})
                                      THEN inRegions[b] \cup {h} ELSE inRegions[b]
  BY <1>3 DEF InRegionsAfter
<1>5. inRegions' \in [Addr -> SUBSET Addr]
  BY <1>1, <1>3 DEF InRegionsAfter, CodeTyped
<1>6. ASSUME NEW i \in 1..Len(trace) PROVE h \in inRegions'[trace[i]]
  <2>1. trace \in Seq(Addr)
    BY <1>2 DEF LoopOf
  <2>2. \A b : b \in TraceBlocks({trace}) <=> \E t \in {trace} : \E j \in 1..Len(t) : b = t[j]
    BY <2>1, TraceBlocksAre
  <2>3. trace[i] \in Addr
    BY <2>1
  <2>4. trace[i] \in TraceBlocks({trace})
    BY <2>2
  <2> HIDE DEF h, trace
  <2> QED BY <1>4, <2>3, <2>4
<1>7. \A x \in Addr : Kept(graph, inRegions', x, traces[x])
  <2>1. ASSUME NEW x \in Addr PROVE Kept(graph, inRegions', x, traces[x])
    <3>1. Kept(graph, inRegions, x, traces[x])
      BY <1>1 DEF CodeInv
    <3>2. \A b \in Addr : inRegions[b] \subseteq inRegions'[b]
      BY <1>4
    <3> QED BY <3>1, <3>2, KeptByMore
  <2> QED BY <2>1
<1>8. Kept(graph, inRegions', h, ts) /\ DOMAIN ts # {}
  BY <1>1, <1>2, <1>6, <1>7, AddRegionKept
<1> QED BY <1>4, <1>5, <1>7, <1>8

\* It is perhaps compiled.
LEMMA RecordInv ==
    ASSUME JitInv, Interpreting, Dispatching, Closes(rf, cBB), Record(cBB, rf.buf),
           graph' = graph, code' = code, brk' = brk
    PROVE  /\ cfg' \in [Addr -> Code] /\ hasRegion' \subseteq Addr
           /\ inRegions' \in [Addr -> SUBSET Addr] /\ fault' \in Faults
           /\ HasRegionExact' /\ CodeInv'
<1> DEFINE h == cBB
           trace == rf.buf
           ts == AddRegion(traces[h], trace)
<1>1. /\ graph \in Graph /\ Known(graph) /\ code \in Programs /\ h \in Addr
      /\ CodeTyped /\ HasRegionExact /\ CodeInv /\ GraphInv
  BY InterpreterState
<1>2. LoopOf(graph, h, trace) /\ h \notin hasRegion
  BY ClosedRecording
<1>3. Sound(code, graph, graph.blocks \ graph.ro)
  BY <1>1, StructureSound DEF GraphInv, Dispatching, Running, Open
<1>4. /\ inRegions' \in [Addr -> SUBSET Addr]
      /\ \A x \in Addr : Kept(graph, inRegions', x, traces[x])
      /\ Kept(graph, inRegions', h, ts) /\ DOMAIN ts # {}
  BY RecordFacts
<1>5. /\ cfg[h] = NoCode /\ cfg \in [Addr -> Code] /\ DOMAIN traces = Addr
       /\ hasRegion \subseteq Addr /\ fault = "none"
  BY <1>1, <1>2 DEF HasRegionExact, CodeTyped, CodeInv, Interpreting
<1>6. \A x \in Addr : cfg[x] # NoCode => RunsProgram(code, x, cfg[x]) /\ (brk \/ Shrunk(graph, cfg[x]))
  BY <1>1 DEF CodeInv
<1>7. CASE CanCompileRegion(code, graph, trace) /\ \E t \in DOMAIN ts : ts[t] >= EnoughRegions
  <2>1. BuildCFG(h, DOMAIN ts)
    BY <1>7 DEF Record
  <2>2. PICK order \in Orders :
          LET bs == RegionBlocks(code, graph, h, DOMAIN ts, order)
          IN  /\ fault' = BuildFault(code, graph, h, bs)
              /\ IF fault' = "none"
                 THEN /\ cfg' = [cfg EXCEPT ![h] = Compiled(graph, bs)]
                      /\ hasRegion' = hasRegion \cup {h}
                      /\ traces' = [traces EXCEPT ![h] = NoTraces]
                 ELSE UNCHANGED <<cfg, hasRegion, traces>>
    BY <2>1 DEF BuildCFG
  <2> DEFINE cd == Compiled(graph, RegionBlocks(code, graph, h, DOMAIN ts, order))
  <2>3. fault' \in Faults
    BY <2>2, FaultTyped
  <2>4. CASE fault' # "none"
    <3>1. UNCHANGED <<cfg, hasRegion, traces>>
      BY <2>2, <2>4
    <3> QED BY <1>1, <1>4, <2>3, <3>1 DEF CodeTyped, HasRegionExact, CodeInv
  <2>5. CASE fault' = "none"
    <3>1. /\ cfg' = [cfg EXCEPT ![h] = cd]
          /\ hasRegion' = hasRegion \cup {h}
          /\ traces' = [traces EXCEPT ![h] = NoTraces]
      BY <2>2, <2>5
    <3>2. cd \in Code /\ cd # NoCode /\ RunsProgram(code, h, cd) /\ Shrunk(graph, cd)
      <4>1. Loops(graph, h, DOMAIN ts)
        BY <1>4 DEF Kept, Loops
      <4> QED BY <1>1, <1>3, <4>1, CompiledRuns
    <3> HIDE DEF cd
    <3>3. cfg' \in [Addr -> Code] /\ hasRegion' \subseteq Addr
      BY <1>1, <1>5, <3>1, <3>2
    <3>4. HasRegionExact'
      BY <1>1, <1>5, <3>1, <3>2 DEF HasRegionExact
    <3>5. ASSUME NEW x \in Addr PROVE Kept(graph', inRegions', x, traces'[x])
      <4>1. Kept(graph, inRegions', h, NoTraces)
        BY DEF Kept, NoTraces
      <4> QED BY <1>4, <1>5, <3>1, <4>1
    <3>6. ASSUME NEW x \in Addr, cfg'[x] # NoCode
          PROVE  RunsProgram(code', x, cfg'[x]) /\ (brk' \/ Shrunk(graph', cfg'[x]))
      <4>1. CASE x = h
        BY <1>1, <1>5, <3>1, <3>2, <4>1
      <4>2. CASE x # h
        BY <1>1, <1>5, <1>6, <3>1, <3>6, <4>2
      <4> QED BY <4>1, <4>2
    <3>7. CodeInv'
      BY <1>5, <3>1, <3>5, <3>6 DEF CodeInv
    <3> QED BY <1>4, <2>3, <3>3, <3>4, <3>7
  <2> QED BY <2>4, <2>5
<1>8. CASE ~(CanCompileRegion(code, graph, trace) /\ \E t \in DOMAIN ts : ts[t] >= EnoughRegions)
  <2>1. /\ hasRegion' = hasRegion \ {h} /\ cfg' = cfg /\ fault' = fault
        /\ \/ traces' = [traces EXCEPT ![h] = ts]
           \/ traces' = [traces EXCEPT ![h] = NoTraces]
    BY <1>8 DEF Record
  <2>2. hasRegion' = hasRegion
    BY <1>2, <2>1
  <2>3. ASSUME NEW x \in Addr PROVE Kept(graph', inRegions', x, traces'[x])
    <3>1. Kept(graph, inRegions', h, NoTraces)
      BY DEF Kept, NoTraces
    <3> QED BY <1>4, <1>5, <2>1, <3>1
  <2>4. CodeInv'
    BY <1>5, <1>6, <2>1, <2>3 DEF CodeInv
  <2> QED BY <1>1, <1>4, <2>1, <2>2, <2>4 DEF CodeTyped, HasRegionExact
<1> QED BY <1>7, <1>8

LEMMA JitEnterInv ==
    ASSUME JitInv, JitEnter
    PROVE  JitInv'
<1>1. /\ Interpreting /\ Dispatching /\ cBB \in graph.ro /\ pc = cBB
      /\ IF Closes(rf, cBB)
         THEN /\ rf' = GetRegion(Update(rf, cBB))
              /\ Record(cBB, rf.buf)
         ELSE /\ rf' = Update(rf, cBB)
              /\ UNCHANGED codeVars
      /\ Enter
      /\ UNCHANGED <<guestVars, graph, cBB>>
  BY DEF JitEnter
<1>2. /\ graph' = graph /\ cBB' = cBB /\ code' = code /\ brk' = brk /\ pc' = pc
      /\ ~brk /\ ~graph.died /\ unit = Idle /\ fault = "none" /\ native = NoNative
  BY <1>1 DEF guestVars, Dispatching, Running, Interpreting
<1>3. /\ graph \in Graph /\ Known(graph) /\ code \in Programs /\ cBB \in Addr
      /\ rf \in FinderRecord /\ CodeTyped /\ HasRegionExact /\ CodeInv /\ GraphInv
  BY InterpreterState
<1>4. \/ UNCHANGED <<unit, engineVars>>
      \/ /\ fault' = "none" /\ RunsCompiled(cBB)
         /\ native' = [head |-> cBB, at |-> cBB, word |-> cBB]
         /\ ahead' = BlockSize(cfg'[cBB], cBB)
         /\ UNCHANGED unit
      \/ /\ fault' = "none" /\ ~RunsCompiled(cBB)
         /\ unit' = [blk |-> cBB, left |-> RunLength(graph, cBB)]
         /\ UNCHANGED engineVars
  BY <1>1 DEF Enter
<1>5. GraphInv'
  <2>1. CASE UNCHANGED unit
    <3>1. UNCHANGED vars
      BY <1>1, <2>1 DEF vars, guestVars
    <3> QED BY <1>3, <3>1, GraphStep
  <2>2. CASE unit' = [blk |-> cBB, left |-> RunLength(graph, cBB)]
    <3>1. EnterBlock
      BY <1>1, <2>2 DEF EnterBlock
    <3> QED BY <1>3, <3>1, GraphStep DEF Next
  <2> QED BY <1>4, <2>1, <2>2
<1>6. /\ cfg' \in [Addr -> Code] /\ hasRegion' \subseteq Addr
      /\ inRegions' \in [Addr -> SUBSET Addr] /\ fault' \in Faults
      /\ HasRegionExact' /\ CodeInv'
  <2>1. CASE Closes(rf, cBB)
    BY <1>1, <1>2, <2>1, RecordInv
  <2>2. CASE ~Closes(rf, cBB)
    <3>1. UNCHANGED codeVars
      BY <1>1, <2>2
    <3>2. UNCHANGED <<traces, cfg, hasRegion, inRegions, fault>>
      BY <3>1 DEF codeVars
    <3>3. Keeps(graph, graph', {})
      BY <1>2 DEF Keeps
    <3>4. CodeInv'
      BY <1>2, <1>3, <3>1, <3>3, CodeStays
    <3> QED BY <1>3, <3>2, <3>4 DEF CodeTyped, HasRegionExact
  <2> QED BY <2>1, <2>2
<1>7. /\ rf' \in FinderRecord
      /\ rf'.en => /\ rf.en /\ rf'.head = rf.head
                   /\ rf'.buf = Append(rf.buf, cBB)
                   /\ hasRegion' = hasRegion
                   /\ fault' = fault
  <2>1. CASE Closes(rf, cBB)
    BY <1>1, <1>3, <2>1, CloseFacts
  <2>2. CASE ~Closes(rf, cBB)
    <3>1. rf' = Update(rf, cBB) /\ hasRegion' = hasRegion /\ fault' = fault
      BY <1>1, <2>2 DEF codeVars
    <3> QED BY <1>3, <2>2, <3>1, UpdateFacts
  <2> QED BY <2>1, <2>2
<1>8. FinderInv'
  <2>1. CASE ~rf'.en
    BY <1>7, <2>1 DEF FinderInv, Recording
  <2>2. CASE rf'.en
    <3>1. unit'.blk = cBB /\ cBB # NoBlock
      <4>1. ~RunsCompiled(cBB) /\ fault' = "none"
        BY <1>2, <1>7, <2>2 DEF RunsCompiled
      <4> QED BY <1>1, <1>3, <4>1, AddrFacts DEF Enter
    <3>2. Recording(rf, graph, NoBlock, cBB, brk) /\ rf.head \notin hasRegion
      BY <1>2, <1>7, <2>2 DEF JitInv, FinderInv, Idle
    <3>3. rf.buf \in Seq(Addr)
      BY <1>3 DEF FinderRecord
    <3>4. /\ KnownPath(graph, rf.buf)
          /\ rf.buf # <<>> => /\ rf.buf[1] = rf.head
                              /\ cBB \in graph.succs[rf.buf[Len(rf.buf)]]
          /\ rf.buf = <<>> => cBB = rf.head
      BY <1>2, <1>7, <2>2, <3>2 DEF Recording
    <3> DEFINE s == Append(rf.buf, cBB)
    <3>5. /\ Len(s) = Len(rf.buf) + 1 /\ Len(rf.buf) \in Nat
          /\ s[Len(s)] = cBB /\ s # <<>>
          /\ \A i \in 1..Len(rf.buf) : s[i] = rf.buf[i]
      BY <1>3, <3>3
    <3> HIDE DEF s
    <3>6. KnownPath(graph, s)
      <4>1. ASSUME NEW i \in 1..Len(s) PROVE s[i] \in graph.ro
        BY <1>1, <3>4, <3>5 DEF KnownPath
      <4>2. ASSUME NEW i \in 1..(Len(s) - 1) PROVE s[i + 1] \in graph.succs[s[i]]
        <5>1. CASE i = Len(rf.buf)
          <6>1. rf.buf # <<>>
            BY <4>2, <3>3, <3>5, <5>1
          <6> QED BY <3>4, <3>5, <4>2, <5>1, <6>1
        <5>2. CASE i # Len(rf.buf)
          <6>1. i \in 1..(Len(rf.buf) - 1) /\ i + 1 \in 1..Len(rf.buf) /\ i \in 1..Len(rf.buf)
            BY <3>5, <4>2, <5>2
          <6> QED BY <3>4, <3>5, <6>1 DEF KnownPath
        <5> QED BY <5>1, <5>2
      <4> QED BY <4>1, <4>2 DEF KnownPath
    <3>7. s[1] = rf.head
      <4>1. CASE rf.buf = <<>>
        BY <3>4, <3>5, <4>1
      <4>2. CASE rf.buf # <<>>
        <5>1. 1 \in 1..Len(rf.buf)
          BY <3>3, <4>2
        <5> QED BY <3>4, <3>5, <4>2, <5>1
      <4> QED BY <4>1, <4>2
    <3>8. rf'.buf = s /\ rf'.head = rf.head /\ hasRegion' = hasRegion
      BY <1>7, <2>2 DEF s
    <3>9. Recording(rf', graph', unit'.blk, cBB', brk')
      BY <1>2, <3>1, <3>5, <3>6, <3>7, <3>8 DEF Recording
    <3> QED BY <1>7, <3>2, <3>8, <3>9 DEF FinderInv
  <2> QED BY <2>1, <2>2
<1>9. /\ NativeInv'
      /\ native' \in [head : 0..N, at : 0..N, word : 0..N] /\ ahead' \in Nat
  <2>1. CASE UNCHANGED engineVars
    BY <1>1, <2>1, EngineStays
  <2>2. CASE /\ fault' = "none" /\ RunsCompiled(cBB)
             /\ native' = [head |-> cBB, at |-> cBB, word |-> cBB]
             /\ ahead' = BlockSize(cfg'[cBB], cBB)
             /\ UNCHANGED unit
    <3>1. cBB \in hasRegion' /\ ~rf'.en
      BY <2>2 DEF RunsCompiled
    <3>2. cfg'[cBB] # NoCode /\ cfg'[cBB] \in Code
      BY <1>3, <1>6, <3>1 DEF HasRegionExact
    <3>3. RunsProgram(code', cBB, cfg'[cBB])
      BY <1>3, <1>6, <3>2 DEF CodeInv
    <3> DEFINE z == cfg'[cBB].last[cBB]
    <3>4. cBB \in cfg'[cBB].blocks /\ cBB <= z /\ z \in Nat /\ cBB \in Nat
      BY <1>3, <3>3, AddrFacts DEF RunsProgram
    <3>5. native'.head = cBB /\ native'.at = cBB /\ native'.word = cBB
      BY <2>2
    <3>6. Region' = cfg'[cBB]
      BY <3>5 DEF Region
    <3>7. ahead' = (z - cBB) + 1
      BY <2>2 DEF BlockSize
    <3> HIDE DEF z
    <3>8. ahead' \in Nat /\ cBB \in cBB..z
      BY <3>4, <3>7
    <3>9. native' # NoNative
      BY <1>3, <3>5, AddrFacts DEF NoNative
    <3>10. NativeInPlace'
      BY <1>2, <2>2, <3>1, <3>4, <3>5, <3>6, <3>8 DEF NativeInPlace, z
    <3>11. CounterExact'
      BY <3>5, <3>6, <3>7, <3>9 DEF CounterExact, z
    <3>12. native' \in [head : 0..N, at : 0..N, word : 0..N]
      BY <1>3, <2>2, AddrFacts
    <3> QED BY <1>2, <3>8, <3>10, <3>11, <3>12 DEF NativeInv
  <2> QED BY <1>4, <2>1, <2>2
<1>10. CodeTyped'
  BY <1>6, <1>9 DEF CodeTyped
<1> QED BY <1>5, <1>6, <1>8, <1>9, <1>10 DEF JitInv

-----------------------------------------------------------------------------
(***************************************************************************)
(* The theorems.                                                           *)
(***************************************************************************)
LEMMA JitInitInv ==
    ASSUME JitInit
    PROVE  JitInv
<1>1. Init /\ IndInv
  BY InitInv DEF JitInit
<1>2. graph.ro = {} /\ graph.ins = [a \in Addr |-> NoBlock] /\ brk = FALSE /\ unit = Idle
  BY <1>1 DEF Init, NewBlock, EmptyGraph
<1>3. GraphInv
  BY <1>1, <1>2, StructureSound DEF GraphInv, IndInv, Known
<1>4. /\ rf = IdleFinder /\ traces = [h \in Addr |-> NoTraces]
      /\ cfg = [h \in Addr |-> NoCode] /\ hasRegion = {}
      /\ inRegions = [b \in Addr |-> {}] /\ fault = "none"
      /\ native = NoNative /\ ahead = 0
  BY DEF JitInit
<1>5. CodeTyped /\ HasRegionExact
  BY <1>4, NoCodeTyped, AddrFacts DEF CodeTyped, HasRegionExact, Faults, NoNative, NoBlock
<1>6. FinderInv
  <2>1. <<>> \in Seq(Addr)
    OBVIOUS
  <2>2. rf \in FinderRecord /\ ~rf.en
    BY <1>4, <2>1, AddrFacts DEF IdleFinder, FinderRecord, NoHead
  <2> QED BY <2>2 DEF FinderInv, Recording
<1>7. CodeInv
  <2>1. ASSUME NEW h \in Addr PROVE Kept(graph, inRegions, h, traces[h])
    BY <1>4 DEF Kept, NoTraces
  <2> QED BY <1>4, <2>1 DEF CodeInv
<1>8. NativeInv
  BY <1>4 DEF NativeInv, NativeInPlace, CounterExact
<1> QED BY <1>3, <1>5, <1>6, <1>7, <1>8 DEF JitInv

LEMMA JitStaysInv ==
    ASSUME JitInv, UNCHANGED jitVars
    PROVE  JitInv'
<1>1. UNCHANGED <<traces, cfg, hasRegion, inRegions, fault>>
  BY DEF jitVars, codeVars
<1>2. UNCHANGED <<native, ahead>> /\ UNCHANGED vars /\ rf' = rf
  BY DEF jitVars, engineVars
<1>3. UNCHANGED <<code, pc, brk, host, graph, cBB, unit>>
  BY <1>2 DEF vars
<1>4. GraphInv' /\ code' = code
  BY <1>2, GraphStep DEF JitInv
<1>5. CodeTyped' /\ HasRegionExact'
  BY <1>1, <1>2 DEF JitInv, CodeTyped, HasRegionExact
<1>6. CodeInv'
  BY <1>1, <1>3 DEF JitInv, CodeInv
<1>7. FinderInv'
  BY <1>1, <1>2, <1>3 DEF JitInv, FinderInv
<1>8. NativeInv'
  BY <1>1, <1>2, <1>3 DEF JitInv, NativeInv, NativeInPlace, CounterExact, Region
<1> QED BY <1>4, <1>5, <1>6, <1>7, <1>8 DEF JitInv

LEMMA JitNextInv ==
    ASSUME NoLostCall, JitInv, [JitNext]_jitVars
    PROVE  JitInv'
BY JitStaysInv, JitBuildInv, JitRunInsnInv, JitLeaveInv, JitEnterInv, NativeInsnInv,
   NativeExitInv DEF JitNext

\* JitInv is an invariant of every program without a lost call.
THEOREM JitInvariance ==
    ASSUME NoLostCall
    PROVE  JitSpec => []JitInv
<1>1. JitInit => JitInv
  BY JitInitInv
<1>2. JitInv /\ [JitNext]_jitVars => JitInv'
  BY JitNextInv
<1> QED BY <1>1, <1>2, PTL DEF JitSpec

\* executeJIT relies on hasRegion being set exactly where there is code: it
\* looks at the flag and then dereferences cfgCplr.
THEOREM FlagsAreExact ==
    ASSUME NoLostCall
    PROVE  JitSpec => []HasRegionExact
<1>1. JitInv => HasRegionExact
  BY DEF JitInv
<1> QED BY <1>1, JitInvariance, PTL

\* Every variable of the translator keeps its type; of a loop that is kept, at
\* least one recording has been counted.
THEOREM JitTypeCorrect ==
    ASSUME NoLostCall
    PROVE  JitSpec => []JitTypeOK
<1>1. JitInv => JitTypeOK
  <2> SUFFICES ASSUME JitInv PROVE JitTypeOK
    OBVIOUS
  <2>1. \A s \in Seq(Addr) : ToSet(s) \subseteq Addr
    BY DEF ToSet
  <2>2. rf.en \in BOOLEAN /\ rf.head \in 0..N /\ ToSet(rf.buf) \subseteq Addr
    BY <2>1 DEF JitInv, FinderInv, FinderRecord
  <2>3. ASSUME NEW h \in Addr, NEW t \in DOMAIN traces[h]
        PROVE  ToSet(t) \subseteq Addr /\ traces[h][t] \in Nat \ {0}
    <3>1. Kept(graph, inRegions, h, traces[h])
      BY DEF JitInv, CodeInv
    <3> QED BY <2>1, <3>1 DEF Kept, LoopOf
  <2> QED BY <2>2, <2>3 DEF JitInv, JitTypeOK, GraphInv, CodeTyped
<1> QED BY <1>1, JitInvariance, PTL

\* executeJIT finds the pc at the entry of the block it is about to run, also
\* after compiled code has handed control back.
THEOREM JitPcStaysInSync ==
    ASSUME NoLostCall
    PROVE  JitSpec => []PcInSync
<1>1. JitInv => PcInSync
  BY DEF JitInv, GraphInv
<1> QED BY <1>1, JitInvariance, PTL

\* The finder buffers a path of closed blocks over known edges, and never
\* collects for a head that is compiled.
THEOREM BufferStaysAPath ==
    ASSUME NoLostCall
    PROVE  JitSpec => []BufferedPath
<1>1. JitInv => BufferedPath
  <2> SUFFICES ASSUME JitInv, rf.en PROVE BufferedPath
    BY DEF BufferedPath
  <2>1. rf.buf \in Seq(Addr)
    BY DEF JitInv, FinderInv, FinderRecord
  <2>2. rf.head \notin hasRegion /\ KnownPath(graph, rf.buf)
    BY DEF JitInv, FinderInv, Recording
  <2>3. Len(rf.buf) \in Nat
    BY <2>1
  <2> QED BY <2>2, <2>3 DEF BufferedPath, KnownPath
<1> QED BY <1>1, JitInvariance, PTL

LEMMA NextIndex ==
    ASSUME NEW n \in Nat, NEW i \in 1..n
    PROVE  /\ i = n => i % n = 0
           /\ i # n => i % n = i /\ i \in 1..(n - 1)
OBVIOUS

\* Recordings stay loops of closed blocks over known edges until they are
\* compiled, whatever findBlock splits in between.
THEOREM RecordingsStayLoops ==
    ASSUME NoLostCall
    PROVE  JitSpec => []RecordedLoops
<1>1. ASSUME NEW h, NEW t, LoopOf(graph, h, t) PROVE IsLoop(h, t)
  <2>1. t \in Seq(Addr) /\ t # <<>> /\ t[1] = h /\ KnownPath(graph, t)
        /\ h \in graph.succs[t[Len(t)]]
    BY <1>1 DEF LoopOf
  <2>2. Len(t) \in Nat /\ Len(t) > 0 /\ DOMAIN t = 1..Len(t)
    BY <2>1
  <2>3. ASSUME NEW i \in 1..Len(t)
        PROVE  t[i] \in graph.ro /\ t[(i % Len(t)) + 1] \in graph.succs[t[i]]
    <3>1. CASE i = Len(t)
      <4>1. i % Len(t) = 0
        BY <2>2, <3>1, NextIndex
      <4> QED BY <2>1, <2>2, <3>1, <4>1 DEF KnownPath
    <3>2. CASE i # Len(t)
      <4>1. i % Len(t) = i /\ i \in 1..(Len(t) - 1)
        BY <2>2, <3>2, NextIndex
      <4> QED BY <2>1, <4>1 DEF KnownPath
    <3> QED BY <3>1, <3>2
  <2> QED BY <2>1, <2>2, <2>3 DEF IsLoop
<1>2. JitInv => RecordedLoops
  BY <1>1 DEF JitInv, CodeInv, Kept, RecordedLoops
<1> QED BY <1>2, JitInvariance, PTL

\* Compiled code is not dropped while it runs, and control is inside the block
\* that the abort code would name.
THEOREM CodeStaysInPlace ==
    ASSUME NoLostCall
    PROVE  JitSpec => []NativeInPlace
<1>1. JitInv => NativeInPlace
  BY DEF JitInv, NativeInv
<1> QED BY <1>1, JitInvariance, PTL

\* The instruction counter is exact whenever the interpreter has the processor.
THEOREM CounterStaysExact ==
    ASSUME NoLostCall
    PROVE  JitSpec => []CounterExact
<1>1. JitInv => CounterExact
  BY DEF JitInv, NativeInv
<1> QED BY <1>1, JitInvariance, PTL

-----------------------------------------------------------------------------
(***************************************************************************)
(* The translator implements the machine of module GuestExec.              *)
(***************************************************************************)
LEMMA SameGuest ==
    /\ \A c, a, h : AsGuest!GoesTo(c, a, h) = GoesTo(c, a, h)
    /\ \A c, a, h : AsGuest!HostAfter(c, a, h) = HostAfter(c, a, h)
    /\ \A c, a, h, b : AsGuest!BrkAfter(c, a, h, b) = BrkAfter(c, a, h, b)
    /\ \A h : AsGuest!Served(h) = Served(h)
    /\ \A i : AsGuest!IsMonitor(i) = IsMonitor(i)
BY DEF AsGuest!GoesTo, GoesTo, AsGuest!NextPCs, NextPCs, AsGuest!HostAfter, HostAfter,
       AsGuest!BrkAfter, BrkAfter, AsGuest!Served, Served, AsGuest!IsMonitor, IsMonitor,
       AsGuest!Conditional, Conditional, AsGuest!Transfers, Transfers

LEMMA InterpretedStep ==
    ASSUME native = NoNative, native' = NoNative, ~brk, NEW n, Interpret(n)
    PROVE  AsGuest!Execute
<1>1. AsGuest!Polled
  BY SameGuest DEF AsGuest!Polled, Interpret
<1> QED BY <1>1 DEF AsGuest!Execute, Interpret

LEMMA NativeStep ==
    ASSUME NoLostCall, JitInv, NativeInsn \/ NativeExit
    PROVE  AsGuest!Execute
<1>1. native # NoNative /\ brk' = brk /\ code' = code /\ ~brk
      /\ ~IsMonitor(code[native.word])
  BY NativeWhere DEF NativeInsn, NativeExit, JitInv, NativeInv
<1> DEFINE here == IF native = NoNative THEN pc ELSE native.word
           there == IF native' = NoNative THEN pc' ELSE native'.word
<1>2. PICK n \in GoesTo(code, native.word, host) :
        there = n /\ host' \in HostAfter(code, native.word, host)
  <2>1. CASE NativeInsn
    <3>1. PICK n \in GoesTo(code, native.word, host) :
        /\ host' \in HostAfter(code, native.word, host)
        /\ \/ /\ ~AtEnd
              /\ native' = [native EXCEPT !.word = n]
           \/ /\ AtEnd
              /\ \E t \in UNION {InRegion(w) : w \in CompiledNext(native.word, n)} :
                    native' = [native EXCEPT !.at = t, !.word = t]
      BY <2>1 DEF NativeInsn
    <3>2. native \in [head : 0..N, at : 0..N, word : 0..N] /\ native.head # NoBlock
      BY <1>1, HeadHasCode, AddrFacts DEF JitInv, CodeTyped
    <3>3. native'.head = native.head /\ native'.word = n
      <4>1. CASE ~AtEnd
        BY <3>1, <3>2, <4>1
      <4>2. CASE AtEnd
        <5>1. PICK t \in UNION {InRegion(w) : w \in CompiledNext(native.word, n)} :
                native' = [native EXCEPT !.at = t, !.word = t]
          BY <3>1, <4>2
        <5>2. t = n
          BY <1>1, <4>2, NativeGoes
        <5> QED BY <3>2, <5>1, <5>2
      <4> QED BY <4>1, <4>2
    <3>4. native' # NoNative
      BY <3>2, <3>3 DEF NoNative
    <3> QED BY <3>1, <3>3, <3>4
  <2>2. CASE NativeExit
    <3>1. PICK n \in GoesTo(code, native.word, host) :
            /\ host' \in HostAfter(code, native.word, host)
            /\ pc' \in CompiledNext(native.word, n)
            /\ native' = NoNative
      BY <2>2 DEF NativeExit
    <3>2. CompiledNext(native.word, n) = {n}
      BY <1>1, NativeGoes
    <3> QED BY <3>1, <3>2
  <2> QED BY <1>1, <2>1, <2>2
<1>3. here = native.word
  BY <1>1
<1>4. AsGuest!Unpolled
  BY <1>1, <1>2, <1>3, SameGuest DEF AsGuest!Unpolled
<1> QED BY <1>1, <1>4 DEF AsGuest!Execute

\* Interpreted or compiled, from current code or from code whose blocks have
\* been cut since, the guest's instructions are executed one by one, each where
\* the one before it led; building, dispatching, recording, compiling and
\* leaving code are invisible to it.
THEOREM JitImplementsGuest ==
    ASSUME NoLostCall
    PROVE  JitSpec => ExecutesInOrder
<1>1. JitInit => AsGuest!Init
  BY DEF JitInit, Init, AsGuest!Init
<1>2. JitInv /\ [JitNext]_jitVars => [AsGuest!Execute]_(AsGuest!vars)
  <2> SUFFICES ASSUME JitInv, [JitNext]_jitVars
               PROVE  AsGuest!Execute \/ UNCHANGED AsGuest!vars
    OBVIOUS
  <2>1. CASE JitBuild
    <3>1. native = NoNative /\ native' = NoNative /\ ~brk /\ \E n : Interpret(n)
      BY <2>1 DEF JitBuild, Interpreting, engineVars, BuildInsn, Dispatching, Running
    <3> QED BY <3>1, InterpretedStep
  <2>2. CASE JitRunInsn
    <3>1. native = NoNative /\ native' = NoNative /\ ~brk /\ \E n : Interpret(n)
      BY <2>2 DEF JitRunInsn, Interpreting, engineVars, RunInsn, Running
    <3> QED BY <3>1, InterpretedStep
  <2>3. CASE JitLeave
    <3>1. native = NoNative /\ native' = NoNative /\ UNCHANGED guestVars
      BY <2>3 DEF JitLeave, Interpreting, engineVars, LeaveBlock
    <3> QED BY <3>1 DEF guestVars, AsGuest!vars
  <2>4. CASE JitEnter
    <3>1. native = NoNative /\ UNCHANGED guestVars /\ pc = cBB
      BY <2>4 DEF JitEnter, Interpreting
    <3>2. native' = native \/ native'.word = cBB
      BY <2>4 DEF JitEnter, Enter, engineVars
    <3> QED BY <3>1, <3>2 DEF guestVars, AsGuest!vars
  <2>5. CASE NativeInsn \/ NativeExit
    BY <2>5, NativeStep
  <2>6. CASE UNCHANGED jitVars
    BY <2>6 DEF jitVars, vars, engineVars, AsGuest!vars
  <2> QED BY <2>1, <2>2, <2>3, <2>4, <2>5, <2>6 DEF JitNext
<1> QED BY <1>1, <1>2, JitInvariance, PTL DEF JitSpec, ExecutesInOrder, AsGuest!Safe

-----------------------------------------------------------------------------
(***************************************************************************)
(* Without augmentation every block of compiled code was recorded, and so  *)
(* names the head of the code.  Then code is dropped when one of its       *)
(* blocks is cut, and what runs is what the blocks hold now.               *)
(***************************************************************************)
TracesOnly == CfgAug = "none"

Covered(G, inr, h, cd) ==
    \A b \in cd.blocks :
        /\ b \in G.ro
        /\ h \in inr[b]
        /\ cd.last[b] = G.last[b]

CoverInv == \A h \in Addr : cfg[h] # NoCode => Covered(graph, inRegions, h, cfg[h])

LEMMA CoveredStays ==
    ASSUME NEW G, NEW H, NEW S, Keeps(G, H, S), NEW inr, NEW jnr,
           G.ro \subseteq Addr, \A b \in Addr : inr[b] \subseteq jnr[b],
           NEW h, NEW cd, Covered(G, inr, h, cd), \A v \in S : h \notin inr[v]
    PROVE  Covered(H, jnr, h, cd)
BY DEF Covered, Keeps

\* A transfer drops the code it would make stale.
LEMMA AfterTransferCover ==
    ASSUME JitInv, CoverInv, NEW L, NEW b, NEW t, AfterTransfer(L, b, t),
           Keeps(graph, graph', Cut(L, b, t))
    PROVE  CoverInv'
<1> SUFFICES ASSUME NEW h \in Addr, cfg'[h] # NoCode
             PROVE  Covered(graph', inRegions', h, cfg'[h])
  BY DEF CoverInv
<1>1. /\ cfg' = [x \in Addr |-> IF x \in DroppedHeads(L, b, t) \cup (Cut(L, b, t) \cup ({b} \ L.ro))
                                THEN NoCode ELSE cfg[x]]
      /\ inRegions' = inRegions
  BY DEF AfterTransfer
<1>2. h \notin DroppedHeads(L, b, t) /\ cfg'[h] = cfg[h]
  BY <1>1
<1>3. \A v \in Cut(L, b, t) : h \notin inRegions[v]
  BY <1>2 DEF DroppedHeads
<1>4. Covered(graph, inRegions, h, cfg[h])
  BY <1>2 DEF CoverInv
<1>5. graph.ro \subseteq Addr
  BY DEF JitInv, GraphInv, TypeOK, Graph
<1> QED BY <1>1, <1>2, <1>3, <1>4, <1>5, CoveredStays

LEMMA CoverStays ==
    ASSUME JitInv, CoverInv, UNCHANGED codeVars, Keeps(graph, graph', {})
    PROVE  CoverInv'
<1>1. cfg' = cfg /\ inRegions' = inRegions
  BY DEF codeVars
<1>2. graph.ro \subseteq Addr
  BY DEF JitInv, GraphInv, TypeOK, Graph
<1> QED BY <1>1, <1>2, CoveredStays DEF CoverInv

\* What is compiled is covered: all of its blocks are blocks of recordings.
LEMMA CompiledCovered ==
    ASSUME TracesOnly, NEW c, NEW G \in Graph, NEW inr, NEW h, NEW ts, Kept(G, inr, h, ts), NEW order
    PROVE  Covered(G, inr, h, Compiled(G, RegionBlocks(c, G, h, DOMAIN ts, order)))
<1> DEFINE bs == RegionBlocks(c, G, h, DOMAIN ts, order)
           cd == Compiled(G, bs)
<1>1. bs = TraceBlocks(DOMAIN ts)
  BY DEF RegionBlocks, Discovered, TracesOnly
<1>2. \A t \in DOMAIN ts : t \in Seq(Addr) /\ LoopOf(G, h, t)
  BY DEF Kept, LoopOf
<1>3. \A b : b \in bs <=> \E t \in DOMAIN ts : \E i \in 1..Len(t) : b = t[i]
  BY <1>1, <1>2, TraceBlocksAre
<1> HIDE DEF bs
<1>4. ASSUME NEW b \in bs
      PROVE  b \in G.ro /\ h \in inr[b] /\ b \in Addr
  <2>1. PICK t \in DOMAIN ts : \E i \in 1..Len(t) : b = t[i]
    BY <1>3
  <2>2. PICK i \in 1..Len(t) : b = t[i]
    BY <2>1
  <2>3. b \in G.ro /\ h \in inr[b]
    BY <1>2, <2>2 DEF Kept, LoopOf, KnownPath
  <2>4. b \in Addr
    BY <1>2, <2>2
  <2> QED BY <2>3, <2>4
<1>5. cd.blocks = bs /\ \A b \in bs : cd.last[b] = G.last[b]
  BY <1>4 DEF Compiled
<1>6. Covered(G, inr, h, cd)
  BY <1>4, <1>5 DEF Covered
<1> QED BY <1>6 DEF bs

LEMMA RecordCover ==
    ASSUME TracesOnly, JitInv, CoverInv, Interpreting, Dispatching, Closes(rf, cBB),
           Record(cBB, rf.buf), graph' = graph, code' = code, brk' = brk
    PROVE  CoverInv'
<1> DEFINE h == cBB
           trace == rf.buf
           ts == AddRegion(traces[h], trace)
<1>1. /\ graph \in Graph /\ h \in Addr /\ graph.ro \subseteq Addr
      /\ cfg \in [Addr -> Code]
  BY InterpreterState DEF Graph, CodeTyped
<1>2. /\ \A b \in Addr : inRegions[b] \subseteq inRegions'[b]
      /\ Kept(graph, inRegions', h, ts)
  BY RecordFacts
<1>3. ASSUME NEW x \in Addr, cfg[x] # NoCode PROVE Covered(graph, inRegions', x, cfg[x])
  <2>1. Keeps(graph, graph, {})
    BY DEF Keeps
  <2>2. Covered(graph, inRegions, x, cfg[x])
    BY <1>3 DEF CoverInv
  <2>3. \A v \in {} : x \notin inRegions[v]
    OBVIOUS
  <2> HIDE DEF h, trace, ts
  <2> QED BY <1>1, <1>2, <2>1, <2>2, <2>3, CoveredStays
<1>4. CASE cfg' = cfg
  BY <1>3, <1>4 DEF CoverInv
<1>5. CASE cfg' # cfg
  <2>1. BuildCFG(h, DOMAIN ts)
    BY <1>5 DEF Record
  <2>2. PICK order \in Orders :
          cfg' = [cfg EXCEPT ![h] = Compiled(graph, RegionBlocks(code, graph, h, DOMAIN ts, order))]
    BY <1>5, <2>1 DEF BuildCFG
  <2> DEFINE cd == Compiled(graph, RegionBlocks(code, graph, h, DOMAIN ts, order))
  <2>3. Covered(graph, inRegions', h, cd)
    BY <1>1, <1>2, CompiledCovered
  <2> HIDE DEF cd, ts
  <2>4. cfg' = [cfg EXCEPT ![h] = cd]
    BY <2>2 DEF cd
  <2>5. ASSUME NEW x \in Addr, cfg'[x] # NoCode PROVE Covered(graph', inRegions', x, cfg'[x])
    <3>1. CASE x = h
      BY <1>1, <2>3, <2>4, <3>1
    <3>2. CASE x # h
      BY <1>1, <1>3, <2>4, <2>5, <3>2
    <3> QED BY <3>1, <3>2
  <2> QED BY <2>5 DEF CoverInv
<1> QED BY <1>4, <1>5

\* What a step does to the graph and to compiled code: it looks up a transfer's
\* target, or leaves compiled code as it is, or records a loop.
Transferred ==
    \E L, b, t : AfterTransfer(L, b, t) /\ Keeps(graph, graph', Cut(L, b, t))

CodeUntouched == UNCHANGED codeVars /\ Keeps(graph, graph', {})

Recorded ==
    /\ Interpreting /\ Dispatching /\ Closes(rf, cBB) /\ Record(cBB, rf.buf)
    /\ graph' = graph /\ brk' = brk

LEMMA StepOfCode ==
    ASSUME NoLostCall, JitInv, [JitNext]_jitVars
    PROVE  code' = code /\ (Transferred \/ CodeUntouched \/ Recorded)
<1>0. code' = code
  BY DEF JitNext, jitVars, vars, JitBuild, BuildInsn, JitRunInsn, RunInsn, Interpret,
       JitLeave, LeaveBlock, JitEnter, guestVars, NativeInsn, NativeExit
<1>1. CASE JitBuild
  <2> DEFINE L == AddIns(graph, cBB, pc)
  <2>1. /\ graph \in Graph /\ Known(graph) /\ pc \in Addr /\ ~brk
        /\ Dispatching /\ pc' \in Addr
    <3>1. Interpreting /\ BuildInsn
      BY <1>1 DEF JitBuild
    <3>2. GraphInv'
      BY <3>1, GraphStep DEF JitInv, Next
    <3> QED BY <3>1, <3>2, InterpreterState DEF BuildInsn, Dispatching, Running, GraphInv, TypeOK
  <2>2. PICK n \in NextPCs(code, pc) :
          /\ Interpret(n)
          /\ IF IsBranchOrJump(code[pc])
             THEN graph' = GetNextBlock(code, SetTermAddr(L, cBB, pc), cBB, n)
             ELSE graph' = L
    BY <1>1 DEF JitBuild, BuildInsn
  <2>3. pc' = n /\ n \in Addr
    BY <2>1, <2>2 DEF Interpret
  <2>4. cBB \in graph.blocks /\ cBB \notin graph.ro
    BY <1>1, <2>1 DEF JitInv, GraphInv, PcInSync, JitBuild, BuildInsn, Dispatching, Idle
  <2>5. /\ Keeps(graph, L, {})
        /\ Keeps(graph, GetNextBlock(code, SetTermAddr(L, cBB, pc), cBB, n), Cut(L, cBB, n))
    BY <2>1, <2>3, <2>4, BuildKeeps
  <2> HIDE DEF L
  <2>6. CASE IsBranchOrJump(code[pc])
    <3>1. AfterTransfer(L, cBB, n) /\ Keeps(graph, graph', Cut(L, cBB, n))
      BY <1>1, <2>2, <2>3, <2>5, <2>6 DEF JitBuild, L
    <3> QED BY <1>0, <3>1 DEF Transferred
  <2>7. CASE ~IsBranchOrJump(code[pc])
    <3>1. UNCHANGED codeVars /\ Keeps(graph, graph', {})
      BY <1>1, <2>2, <2>5, <2>7 DEF JitBuild
    <3> QED BY <1>0, <3>1 DEF CodeUntouched
  <2> QED BY <2>6, <2>7
<1>2. CASE JitRunInsn
  <2>1. PICK n \in NextPCs(code, pc) :
          /\ Interpret(n)
          /\ IF IsBranchOrJump(code[pc])
             THEN graph' = GetNextBlock(code, graph, cBB, n)
             ELSE graph' = graph
    BY <1>2 DEF JitRunInsn, RunInsn
  <2>2. graph \in Graph /\ Known(graph) /\ cBB \in Addr /\ n \in Addr /\ pc' = n
    <3>1. code \in Programs /\ pc \in Addr
      BY InterpreterState
    <3> QED BY <2>1, <3>1, InterpreterState, FlowTyped DEF Interpret
  <2>3. CASE IsBranchOrJump(code[pc])
    <3>1. AfterTransfer(graph, cBB, n) /\ Keeps(graph, graph', Cut(graph, cBB, n))
      BY <1>2, <2>1, <2>2, <2>3, GetNextBlockKeeps DEF JitRunInsn
    <3> QED BY <1>0, <3>1 DEF Transferred
  <2>4. CASE ~IsBranchOrJump(code[pc])
    <3>1. UNCHANGED codeVars /\ Keeps(graph, graph', {})
      BY <1>2, <2>1, <2>4 DEF JitRunInsn, Keeps
    <3> QED BY <1>0, <3>1 DEF CodeUntouched
  <2> QED BY <2>3, <2>4
<1>3. CASE JitLeave
  <2>1. /\ AfterTransfer(graph, unit.blk, pc) /\ unit.blk # NoBlock
        /\ graph' = FindOrCreate(code, graph, unit.blk, cBB, pc)
    BY <1>3 DEF JitLeave, LeaveBlock
  <2>2. Keeps(graph, graph', Cut(graph, unit.blk, pc))
    BY <2>1, InterpreterState, FindOrCreateKeeps
  <2> QED BY <1>0, <2>1, <2>2 DEF Transferred
<1>4. CASE JitEnter
  <2>1. graph' = graph /\ code' = code /\ brk' = brk /\ Interpreting /\ Dispatching
    BY <1>4 DEF JitEnter, guestVars
  <2>2. CASE Closes(rf, cBB)
    <3>1. Record(cBB, rf.buf)
      BY <1>4, <2>2 DEF JitEnter
    <3> QED BY <1>0, <2>1, <2>2, <3>1 DEF Recorded
  <2>3. CASE ~Closes(rf, cBB)
    <3>1. UNCHANGED codeVars /\ Keeps(graph, graph', {})
      BY <1>4, <2>1, <2>3 DEF JitEnter, Keeps
    <3> QED BY <1>0, <3>1 DEF CodeUntouched
  <2> QED BY <2>2, <2>3
<1>5. CASE NativeInsn
  <2>1. UNCHANGED codeVars /\ Keeps(graph, graph', {})
    BY <1>5 DEF NativeInsn, Keeps
  <2> QED BY <1>0, <2>1 DEF CodeUntouched
<1>6. CASE NativeExit
  <2>1. UNCHANGED codeVars /\ Keeps(graph, graph', {})
    BY <1>6, NativeExitGraph DEF NativeExit
  <2> QED BY <1>0, <2>1 DEF CodeUntouched
<1>7. CASE UNCHANGED jitVars
  <2>1. UNCHANGED codeVars /\ Keeps(graph, graph', {})
    BY <1>7 DEF jitVars, vars, Keeps
  <2> QED BY <1>0, <2>1 DEF CodeUntouched
<1> QED BY <1>0, <1>1, <1>2, <1>3, <1>4, <1>5, <1>6, <1>7 DEF JitNext

LEMMA CoverNext ==
    ASSUME NoLostCall, TracesOnly, JitInv, CoverInv, [JitNext]_jitVars
    PROVE  CoverInv'
<1>1. code' = code /\ (Transferred \/ CodeUntouched \/ Recorded)
  BY StepOfCode
<1>2. CASE Transferred
  BY <1>2, AfterTransferCover DEF Transferred
<1>3. CASE CodeUntouched
  BY <1>3, CoverStays DEF CodeUntouched
<1>4. CASE Recorded
  BY <1>1, <1>4, RecordCover DEF Recorded
<1> QED BY <1>1, <1>2, <1>3, <1>4

LEMMA CoverInvariance ==
    ASSUME NoLostCall, TracesOnly
    PROVE  JitSpec => []CoverInv
<1>1. JitInit => CoverInv
  BY DEF JitInit, CoverInv
<1>2. JitInv /\ CoverInv /\ [JitNext]_jitVars => CoverInv'
  BY CoverNext
<1> QED BY <1>1, <1>2, JitInvariance, PTL DEF JitSpec

\* Compiled code has the extents its blocks have now: dropCompiledCode reaches
\* every region a split block is part of.
THEOREM CodeStaysFresh ==
    ASSUME NoLostCall, TracesOnly
    PROVE  JitSpec => []CompiledFresh
<1>1. JitInv /\ CoverInv => CompiledFresh
  <2> SUFFICES ASSUME JitInv, CoverInv, NEW h \in Addr, NEW b \in cfg[h].blocks
               PROVE  cfg[h].last[b] = graph.last[b]
    BY DEF CompiledFresh
  <2>1. cfg[h] # NoCode
    BY DEF NoCode
  <2> QED BY <2>1 DEF CoverInv, Covered
<1> QED BY <1>1, JitInvariance, CoverInvariance, PTL

\* Every block of compiled code, and of a loop that is kept, is closed and names
\* its head in cfgInRegions.
THEOREM RegionsStayCovered ==
    ASSUME NoLostCall, TracesOnly
    PROVE  JitSpec => []RegionsCovered
<1>1. JitInv /\ CoverInv => RegionsCovered
  <2> SUFFICES ASSUME JitInv, CoverInv, NEW h \in Addr
               PROVE  /\ cfg[h] # NoCode => h \in cfg[h].blocks
                      /\ \A b \in cfg[h].blocks \cup TraceBlocks(DOMAIN traces[h]) :
                            b \in graph.ro /\ h \in inRegions[b]
    BY DEF RegionsCovered
  <2>1. cfg[h] # NoCode => h \in cfg[h].blocks
    BY DEF JitInv, CodeInv, RunsProgram
  <2>2. ASSUME NEW b \in cfg[h].blocks PROVE b \in graph.ro /\ h \in inRegions[b]
    <3>1. cfg[h] # NoCode
      BY <2>2 DEF NoCode
    <3> QED BY <2>2, <3>1 DEF CoverInv, Covered
  <2>3. ASSUME NEW b \in TraceBlocks(DOMAIN traces[h]) PROVE b \in graph.ro /\ h \in inRegions[b]
    <3>1. Kept(graph, inRegions, h, traces[h])
      BY DEF JitInv, CodeInv
    <3>2. \A t \in DOMAIN traces[h] : t \in Seq(Addr) /\ LoopOf(graph, h, t)
      BY <3>1 DEF Kept, LoopOf
    <3>3. PICK t \in DOMAIN traces[h] : \E i \in 1..Len(t) : b = t[i]
      BY <2>3, <3>2, TraceBlocksAre
    <3>4. PICK i \in 1..Len(t) : b = t[i]
      BY <3>3
    <3> QED BY <3>1, <3>2, <3>4 DEF Kept, LoopOf, KnownPath
  <2> QED BY <2>1, <2>2, <2>3
<1> QED BY <1>1, JitInvariance, CoverInvariance, PTL

\* addSuccessor never dies, neither in the interpreter nor where compiled code
\* is left.
THEOREM JitNeverDies ==
    ASSUME NoLostCall, TracesOnly
    PROVE  JitSpec => []NoDie
<1>1. JitInit => NoDie
  BY DEF JitInit, Init, NewBlock, EmptyGraph, NoDie
<1>2. JitInv /\ CoverInv /\ NoDie /\ [JitNext]_jitVars => NoDie'
  <2> SUFFICES ASSUME JitInv, CoverInv, NoDie, [JitNext]_jitVars PROVE NoDie'
    OBVIOUS
  <2>1. IndInv
    BY StructureSound DEF JitInv, GraphInv, IndInv, NoDie
  <2>2. CASE [Next]_vars
    <3>1. IndInv'
      BY <2>1, <2>2, NextInv
    <3> QED BY <3>1 DEF IndInv, Sound, NoDie
  <2>3. CASE UNCHANGED <<graph, brk>>
    BY <2>3 DEF NoDie
  <2>4. CASE NativeExit
    <3>1. native # NoNative
      BY <2>4 DEF NativeExit
    <3>2. native.head \in Addr /\ native.at \in Region.blocks
      BY <3>1, HeadHasCode
    <3>3. cfg[native.head] # NoCode
      BY <3>2 DEF Region, NoCode
    <3>4. Region.last[native.at] = graph.last[native.at]
      BY <3>2, <3>3 DEF CoverInv, Covered, Region
    <3> QED BY <2>4, <3>4, NativeExitGraph DEF NoDie
  <2>5. JitBuild \/ JitRunInsn \/ JitLeave => Next
    BY DEF JitBuild, JitRunInsn, JitLeave, Next
  <2>6. JitEnter \/ NativeInsn \/ UNCHANGED jitVars => UNCHANGED <<graph, brk>>
    BY DEF JitEnter, NativeInsn, jitVars, vars, guestVars
  <2> QED BY <2>2, <2>3, <2>4, <2>5, <2>6 DEF JitNext
<1> QED BY <1>1, <1>2, JitInvariance, CoverInvariance, PTL DEF JitSpec

-----------------------------------------------------------------------------
\* Compiled code, entered or left, does not touch a closed block either: only a
\* split cuts one, in every step of the whole translator.
THEOREM JitOnlySplitsCut ==
    ASSUME NoLostCall
    PROVE  JitSpec => OnlySplitsCutBlocks
<1>1. JitInv /\ [JitNext]_jitVars => Cuts(graph, graph')
  <2> SUFFICES ASSUME JitInv, [JitNext]_jitVars PROVE Cuts(graph, graph')
    OBVIOUS
  <2>1. CASE [Next]_vars
    BY <2>1, GraphStep DEF JitInv
  <2>2. CASE graph' = graph
    BY <2>2 DEF Cuts
  <2>3. CASE NativeExit
    <3>1. Keeps(graph, graph', {})
      BY <2>3, NativeExitGraph
    <3> QED BY <3>1 DEF Keeps, Cuts
  <2>4. JitBuild \/ JitRunInsn \/ JitLeave => Next
    BY DEF JitBuild, JitRunInsn, JitLeave, Next
  <2>5. JitEnter \/ NativeInsn \/ UNCHANGED jitVars => graph' = graph
    BY DEF JitEnter, NativeInsn, jitVars, vars
  <2> QED BY <2>1, <2>2, <2>3, <2>4, <2>5 DEF JitNext
<1> QED BY <1>1, JitInvariance, PTL DEF JitSpec, OnlySplitsCutBlocks

-----------------------------------------------------------------------------
(***************************************************************************)
(* Compiling never takes the process down: a loop that is accepted passes  *)
(* every check of buildCFG, bindInsns and insertPhis, with whatever blocks *)
(* cfgAug adds to it.                                                      *)
(***************************************************************************)
\* What may make the process die on an accepted loop: an instruction that the
\* translator does not know.  Of the recorded blocks canCompileRegion has seen
\* that they hold no csr; of those that a search adds nobody has.
UnknownKinds == IF CfgAug = "none" THEN {"fence"} ELSE {"fence", "csr"}

Unknown(c, bad) ==
    \/ bad = "none"
    \/ bad = "noinsn" /\ \E a \in Addr : c[a].kind \in UnknownKinds
    \/ bad = "x0" /\ \E a \in Addr : c[a].kind = "nop"

LEMMA LoopsCompile ==
    ASSUME NEW c \in Programs, NEW G \in Graph, Sound(c, G, G.blocks \ G.ro),
           NEW h, NEW T, Loops(G, h, T), NEW order,
           \A b \in TraceBlocks(T) : AllAccepted(c, G, b)
    PROVE  Unknown(c, BuildFault(c, G, h, RegionBlocks(c, G, h, T, order)))
<1> DEFINE W == RegionBlocks(c, G, h, T, order)
           words == UNION {Words(G, b) : b \in W}
           bad == BuildFault(c, G, h, W)
<1>1. Reaches(G, h, W)
  BY RegionReaches
<1>2. CfgAug = "none" => W = TraceBlocks(T)
  BY DEF RegionBlocks, Discovered
<1> HIDE DEF W
<1>3. bad = CASE \E a \in words : ~HasTranslation(c[a]) -> "noinsn"
              [] \E a \in words : c[a].kind = "nop" -> "x0"
              [] OTHER -> "none"
  BY <1>1, RegionCompiles
<1>4. W \subseteq G.ro
  BY <1>1 DEF Reaches
<1>5. words \subseteq Addr
  BY <1>4, ClosedBlock
<1>6. ASSUME NEW a \in words, ~HasTranslation(c[a])
      PROVE  c[a].kind \in UnknownKinds
  <2>1. PICK b \in W : a \in Words(G, b)
    OBVIOUS
  <2>2. c[a].kind # "ecall"
    BY <1>4, <2>1, ClosedBlock
  <2>3. CfgAug = "none" => CanCompileInstr(c[a])
    BY <1>2, <2>1 DEF AllAccepted
  <2> QED BY <1>6, <2>2, <2>3 DEF CanCompileInstr, HasTranslation, UnknownKinds
<1> HIDE DEF bad, words
<1>7. Unknown(c, bad)
  BY <1>3, <1>5, <1>6 DEF Unknown
<1> QED BY <1>7 DEF bad, W

-----------------------------------------------------------------------------
(***************************************************************************)
(* The instructions of a loop were looked at when it was recorded.  They   *)
(* are still the loop's when it is compiled: a block that is cut takes its *)
(* recordings along.                                                       *)
(***************************************************************************)
Accepted(c, G, ts) ==
    \A t \in DOMAIN ts : \A i \in 1..Len(t) : AllAccepted(c, G, t[i])

CompileInv ==
    /\ \A h \in Addr : Accepted(code, graph, traces[h])
    /\ Unknown(code, fault)

LEMMA AcceptedStays ==
    ASSUME NEW c, NEW G, NEW H, NEW S, Keeps(G, H, S), NEW inr, NEW h, NEW ts,
           Kept(G, inr, h, ts), \A b \in S : h \notin inr[b], Accepted(c, G, ts)
    PROVE  Accepted(c, H, ts)
<1> SUFFICES ASSUME NEW t \in DOMAIN ts, NEW i \in 1..Len(t)
             PROVE  AllAccepted(c, H, t[i])
  BY DEF Accepted
<1>1. AllAccepted(c, G, t[i])
  BY DEF Accepted
<1>2. t[i] \in G.ro /\ h \in inr[t[i]]
  BY DEF Kept, LoopOf, KnownPath
<1>3. H.last[t[i]] = G.last[t[i]]
  BY <1>2 DEF Keeps
<1> QED BY <1>1, <1>3 DEF AllAccepted, Words

LEMMA TransferredAccepted ==
    ASSUME JitInv, CompileInv, code' = code, Transferred
    PROVE  CompileInv'
<1>1. PICK L, b, t : AfterTransfer(L, b, t) /\ Keeps(graph, graph', Cut(L, b, t))
  BY DEF Transferred
<1>2. /\ traces' = [h \in Addr |-> IF h \in DroppedHeads(L, b, t) \cup (Cut(L, b, t) \cup ({b} \ L.ro))
                                   THEN NoTraces ELSE traces[h]]
      /\ fault' = fault
  BY <1>1 DEF AfterTransfer, TracesAfter
<1>3. ASSUME NEW h \in Addr PROVE Accepted(code', graph', traces'[h])
  <2>1. CASE traces'[h] = NoTraces
    BY <2>1 DEF NoTraces, Accepted
  <2>2. CASE traces'[h] # NoTraces
    <3>1. traces'[h] = traces[h] /\ h \notin DroppedHeads(L, b, t)
      BY <1>2, <2>2
    <3>2. \A v \in Cut(L, b, t) : h \notin inRegions[v]
      BY <3>1 DEF DroppedHeads
    <3>3. Kept(graph, inRegions, h, traces[h]) /\ Accepted(code, graph, traces[h])
      BY DEF JitInv, CodeInv, CompileInv
    <3> QED BY <1>1, <3>1, <3>2, <3>3, AcceptedStays
  <2> QED BY <2>1, <2>2
<1> QED BY <1>2, <1>3 DEF CompileInv

LEMMA UntouchedAccepted ==
    ASSUME JitInv, CompileInv, code' = code, CodeUntouched
    PROVE  CompileInv'
<1>1. traces' = traces /\ fault' = fault /\ Keeps(graph, graph', {})
  BY DEF CodeUntouched, codeVars
<1>2. ASSUME NEW h \in Addr PROVE Accepted(code', graph', traces'[h])
  <2>1. Kept(graph, inRegions, h, traces[h]) /\ Accepted(code, graph, traces[h])
    BY DEF JitInv, CodeInv, CompileInv
  <2>2. \A v \in {} : h \notin inRegions[v]
    OBVIOUS
  <2> QED BY <1>1, <2>1, <2>2, AcceptedStays
<1> QED BY <1>1, <1>2 DEF CompileInv

LEMMA RecordedAccepted ==
    ASSUME JitInv, CompileInv, code' = code, Recorded
    PROVE  CompileInv'
<1> DEFINE h == cBB
           trace == rf.buf
           ts == AddRegion(traces[h], trace)
<1>0. /\ Interpreting /\ Dispatching /\ Closes(rf, cBB) /\ Record(h, trace)
      /\ graph' = graph
  BY DEF Recorded
<1>1. /\ graph \in Graph /\ Known(graph) /\ code \in Programs /\ h \in Addr
      /\ CodeInv /\ GraphInv /\ DOMAIN traces = Addr
  BY InterpreterState DEF CodeInv
<1>2. Sound(code, graph, graph.blocks \ graph.ro)
  BY <1>0, <1>1, StructureSound DEF GraphInv, Dispatching, Running, Open
<1>3. Kept(graph, inRegions', h, ts) /\ DOMAIN ts # {}
  BY <1>0, RecordFacts
<1>4. DOMAIN ts = DOMAIN traces[h] \cup {trace}
  BY DEF AddRegion
<1> HIDE DEF h, trace, ts
<1>5. CanCompileRegion(code, graph, trace) => Accepted(code, graph, ts)
  <2> SUFFICES ASSUME CanCompileRegion(code, graph, trace),
                      NEW t \in DOMAIN ts, NEW i \in 1..Len(t)
               PROVE  AllAccepted(code, graph, t[i])
    BY DEF Accepted
  <2>1. CASE t = trace
    <3>1. t \in Seq(Addr)
      BY <1>3 DEF Kept, LoopOf
    <3>2. i \in DOMAIN trace
      BY <2>1, <3>1
    <3> QED BY <2>1, <3>2 DEF CanCompileRegion
  <2>2. CASE t \in DOMAIN traces[h]
    BY <1>1, <2>2 DEF CompileInv, Accepted
  <2> QED BY <1>4, <2>1, <2>2
<1>6. Accepted(code, graph, NoTraces)
  BY DEF Accepted, NoTraces
<1>7. CASE fault' = fault /\ traces' = traces
  BY <1>0, <1>7 DEF CompileInv
<1>8. CASE BuildCFG(h, DOMAIN ts) /\ CanCompileRegion(code, graph, trace)
  <2>1. PICK order \in Orders :
          /\ fault' = BuildFault(code, graph, h,
                                 RegionBlocks(code, graph, h, DOMAIN ts, order))
          /\ fault' # "none" => traces' = traces
          /\ fault' = "none" => traces' = [traces EXCEPT ![h] = NoTraces]
    BY <1>8 DEF BuildCFG
  <2>3. Loops(graph, h, DOMAIN ts)
    BY <1>3 DEF Kept, Loops
  <2>4. \A b \in TraceBlocks(DOMAIN ts) : AllAccepted(code, graph, b)
    <3>1. \A t \in DOMAIN ts : t \in Seq(Addr)
      BY <1>3 DEF Kept, LoopOf
    <3>2. \A b : b \in TraceBlocks(DOMAIN ts)
                   <=> \E t \in DOMAIN ts : \E i \in 1..Len(t) : b = t[i]
      BY <3>1, TraceBlocksAre
    <3> QED BY <1>5, <1>8, <3>2 DEF Accepted
  <2>5. Unknown(code, fault')
    BY <1>1, <1>2, <2>1, <2>3, <2>4, LoopsCompile
  <2>6. ASSUME NEW x \in Addr PROVE Accepted(code, graph, traces'[x])
    <3>1. traces'[x] \in {traces[x], NoTraces}
      BY <1>1, <2>1
    <3> QED BY <1>6, <3>1 DEF CompileInv
  <2> QED BY <1>0, <2>5, <2>6 DEF CompileInv
<1>9. CASE /\ fault' = fault
           /\ traces' = [traces EXCEPT ![h] = IF CanCompileRegion(code, graph, trace)
                                              THEN ts ELSE NoTraces]
  <2>1. ASSUME NEW x \in Addr PROVE Accepted(code, graph, traces'[x])
    <3>1. CASE x = h
      BY <1>1, <1>5, <1>6, <1>9, <3>1
    <3>2. CASE x # h
      BY <1>1, <1>9, <3>2 DEF CompileInv
    <3> QED BY <3>1, <3>2
  <2> QED BY <1>0, <1>9, <2>1 DEF CompileInv
<1> QED BY <1>0, <1>8, <1>9 DEF Record, ts

LEMMA CompileInvariance ==
    ASSUME NoLostCall
    PROVE  JitSpec => []CompileInv
<1>1. JitInit => CompileInv
  BY DEF JitInit, CompileInv, Accepted, NoTraces, Unknown
<1>2. JitInv /\ CompileInv /\ [JitNext]_jitVars => CompileInv'
  <2> SUFFICES ASSUME JitInv, CompileInv, [JitNext]_jitVars PROVE CompileInv'
    OBVIOUS
  <2>1. code' = code /\ (Transferred \/ CodeUntouched \/ Recorded)
    BY StepOfCode
  <2> QED BY <2>1, TransferredAccepted, UntouchedAccepted, RecordedAccepted
<1> QED BY <1>1, <1>2, JitInvariance, PTL DEF JitSpec

\* When compiling takes the process down, the program holds a word that getInsn
\* does not know or that writes x0; no other check of buildCFG, bindInsns and
\* insertPhis can fail on a loop that canCompileRegion has accepted.
THEOREM FaultsAreUnknownWords ==
    ASSUME NoLostCall
    PROVE  JitSpec => [](Unknown(code, fault))
<1>1. CompileInv => Unknown(code, fault)
  BY DEF CompileInv
<1> QED BY <1>1, CompileInvariance, PTL

AllTranslated ==
    \A c \in Programs : \A a \in Addr : c[a].kind \notin {"nop"} \cup UnknownKinds

\* In a program without such words every loop that is accepted is compiled.
THEOREM CompilingNeverFails ==
    ASSUME NoLostCall, AllTranslated
    PROVE  JitSpec => []NoFault
<1>1. JitInv /\ CompileInv => NoFault
  BY DEF JitInv, GraphInv, TypeOK, CompileInv, Unknown, AllTranslated, NoFault
<1> QED BY <1>1, JitInvariance, CompileInvariance, PTL
=============================================================================
