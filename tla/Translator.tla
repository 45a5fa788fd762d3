----------------------------- MODULE Translator -----------------------------
(***************************************************************************)
(* The whole translator: the interpreter and its block graph, the region   *)
(* finder, and the compiled regions that take the interpreter's place.     *)
(*                                                                         *)
(* A compiled region is a snapshot of the blocks it was built from.  It is *)
(* entered from executeJIT at its head, runs guest code without looking at *)
(* tohost, and returns to executeJIT at the first transfer whose target it *)
(* does not contain, naming the block it left from.                        *)
(***************************************************************************)
EXTENDS RegionCFG

CONSTANT EnoughRegions      \* recordings of one loop that make it compiled

ASSUME EnoughAssumption == EnoughRegions \in Nat

VARIABLES
    rf,         \* globals::regionFinder
    traces,     \* bbRegions and bbRegionCounts: of each head, how often each
                \* loop was recorded
    cfg,        \* cfgCplr, NoCode for a null pointer
    hasRegion,  \* the blocks with hasRegion set
    inRegions,  \* cfgInRegions of each block
    fault,      \* why buildCFG took the process down, "none" if it did not
    native,     \* the activation of regionCFG::run, if any
    ahead       \* what s->icnt, or the SSA value that stands for it in compiled
                \* code, counts beyond the instructions executed

codeVars == <<traces, cfg, hasRegion, inRegions, fault>>
engineVars == <<native, ahead>>
jitVars == <<vars, rf, codeVars, engineVars>>

NoTraces == <<>>
NoNative == [head |-> NoBlock, at |-> NoBlock, word |-> 0]

JitInit ==
    /\ Init
    /\ rf = IdleFinder
    /\ traces = [h \in Addr |-> NoTraces]
    /\ cfg = [h \in Addr |-> NoCode]
    /\ hasRegion = {}
    /\ inRegions = [b \in Addr |-> {}]
    /\ fault = "none"
    /\ native = NoNative
    /\ ahead = 0

\* The interpreter has the processor.
Interpreting == fault = "none" /\ native = NoNative

(***************************************************************************)
(* What a transfer from block b of graph G to t does to compiled code.     *)
(***************************************************************************)
\* getNextBlock closes b if it was open; findBlock splits the block t lies in,
\* if it must.  dropCompiledCode then drops the code of the heads in the split
\* block's cfgInRegions, and setReadOnly the code of the block itself.
Cut(G, b, t) == IF MustSplit(G, b, t) THEN {G.ins[t]} ELSE {}

\* Mutant: dropCompiledCode is not called.
DroppedHeads_None(G, b, t) == {}
DroppedHeads(G, b, t) == UNION {inRegions[v] : v \in Cut(G, b, t)}

\* hasRegion is cleared only where there was code to delete.
\* Mutant: dropCompiledCode forgets it.
FlagsAfter_Kept(heads, reset) == hasRegion \ reset
FlagsAfter(heads, reset) == hasRegion \ ({h \in heads : cfg[h] # NoCode} \cup reset)

\* Mutant: dropCompiledCode keeps the recordings.
TracesAfter_Kept(heads, reset) ==
    [h \in Addr |-> IF h \in reset THEN NoTraces ELSE traces[h]]
TracesAfter(heads, reset) ==
    [h \in Addr |-> IF h \in heads \cup reset THEN NoTraces ELSE traces[h]]

AfterTransfer(G, b, t) ==
    LET heads == DroppedHeads(G, b, t)
        reset == Cut(G, b, t) \cup ({b} \ G.ro)
    IN  /\ cfg' = [h \in Addr |-> IF h \in heads \cup reset THEN NoCode ELSE cfg[h]]
        /\ hasRegion' = FlagsAfter(heads, reset)
        /\ traces' = TracesAfter(heads, reset)
        /\ UNCHANGED <<inRegions, fault>>

\* Mutant: a split leaves the finder alone.
FinderAfter_GoesOn(G, b, t) == rf

\* A split also ends the collection of a region.
FinderAfter(G, b, t) ==
    IF MustSplit(G, b, t) THEN DisableRegionCollection(rf) ELSE rf

\* The end of executeJIT: block n, reached from l, may be a loop head.
OfferHead(f, n, l, compiledHeads) ==
    IF n \in compiledHeads THEN f ELSE UpdateRegionHeads(f, n, l)

(***************************************************************************)
(* The interpreter's steps.  execRiscv adds one to s->icnt for each        *)
(* instruction, so that ahead stays as it is.                              *)
(***************************************************************************)
\* executeJIT turns collection off before it refuses a block.
JitBuild ==
    /\ Interpreting
    /\ BuildInsn
    /\ IF IsBranchOrJump(code[pc])
       THEN AfterTransfer(AddIns(graph, cBB, pc), cBB, pc')
       ELSE UNCHANGED codeVars
    /\ rf' = DisableRegionCollection(rf)
    /\ UNCHANGED engineVars

JitRunInsn ==
    /\ Interpreting
    /\ RunInsn
    /\ IF IsBranchOrJump(code[pc])
       THEN /\ AfterTransfer(graph, cBB, pc')
            /\ rf' = FinderAfter(graph, cBB, pc')
       ELSE UNCHANGED <<codeVars, rf>>
    /\ UNCHANGED engineVars

\* run returns to executeJIT.  cBB is no longer the block that ran if it ended
\* in a transfer: getNextBlock has moved it on.
JitLeave ==
    /\ Interpreting
    /\ LeaveBlock
    /\ AfterTransfer(graph, unit.blk, pc)
    /\ rf' = OfferHead(FinderAfter(graph, unit.blk, pc), pc, cBB, hasRegion')
    /\ UNCHANGED engineVars

(***************************************************************************)
(* executeJIT on a closed block.                                           *)
(***************************************************************************)
\* One more recording of a loop.
\* Mutant: the first one is not counted.
AddRegion_FromZero(ts, trace) ==
    [t \in DOMAIN ts \cup {trace} |->
       IF t \notin DOMAIN ts THEN 0 ELSE IF t = trace THEN ts[t] + 1 ELSE ts[t]]

AddRegion(ts, trace) ==
    [t \in DOMAIN ts \cup {trace} |->
       IF t \notin DOMAIN ts THEN 1 ELSE IF t = trace THEN ts[t] + 1 ELSE ts[t]]

\* new regionCFG and buildCFG on the recordings ts.
BuildCFG(h, ts) ==
    \E order \in Orders :
        LET bs == RegionBlocks(code, graph, h, ts, order)
        IN  /\ fault' = BuildFault(code, graph, h, bs)
            /\ IF fault' = "none"
               THEN /\ cfg' = [cfg EXCEPT ![h] = Compiled(graph, bs)]
                    /\ hasRegion' = hasRegion \cup {h}
                    /\ traces' = [traces EXCEPT ![h] = NoTraces]
               ELSE UNCHANGED <<cfg, hasRegion, traces>>

\* Mutant: only the head learns of the region.
InRegionsAfter_Head(h, trace) == [inRegions EXCEPT ![h] = @ \cup {h}]

\* The blocks of a recording of head h enter it in cfgInRegions.
InRegionsAfter(h, trace) ==
    [b \in Addr |-> IF b \in TraceBlocks({trace}) THEN inRegions[b] \cup {h} ELSE inRegions[b]]

\* A loop of head h has been recorded: register it, compile when there are
\* enough recordings.
Record(h, trace) ==
    LET canCompile == CanCompileRegion(code, graph, trace)
        ts == AddRegion(traces[h], trace)
        enough == \E t \in DOMAIN ts : ts[t] >= EnoughRegions
    IN  /\ inRegions' = InRegionsAfter(h, trace)
        /\ IF canCompile /\ enough THEN BuildCFG(h, DOMAIN ts)
           ELSE /\ hasRegion' = hasRegion \ {h}
                /\ traces' = [traces EXCEPT ![h] = IF canCompile THEN ts ELSE NoTraces]
                /\ UNCHANGED <<cfg, fault>>

\* Mutant: compiled code runs during a recording too.
RunsCompiled_Always(b) == b \in hasRegion'
RunsCompiled(b) == b \in hasRegion' /\ ~rf'.en

\* The instructions of block b in compiled code cd.
\* Mutant: the one that ends the block is not counted.
BlockSize_OneShort(cd, b) == cd.last[b] - b
BlockSize(cd, b) == (cd.last[b] - b) + 1

\* Run the compiled code of cBB, or enter basicBlock::run.  Compiled code counts
\* all instructions of a block when it comes to the block.
Enter ==
    IF fault' # "none" THEN UNCHANGED <<unit, engineVars>>
    ELSE IF RunsCompiled(cBB)
    THEN /\ native' = [head |-> cBB, at |-> cBB, word |-> cBB]
         /\ ahead' = BlockSize(cfg'[cBB], cBB)
         /\ UNCHANGED unit
    ELSE /\ unit' = [blk |-> cBB, left |-> RunLength(graph, cBB)]
         /\ UNCHANGED engineVars

JitEnter ==
    /\ Interpreting /\ Dispatching
    /\ cBB \in graph.ro /\ pc = cBB
    /\ IF Closes(rf, cBB)
       THEN /\ rf' = GetRegion(Update(rf, cBB))
            /\ Record(cBB, rf.buf)
       ELSE /\ rf' = Update(rf, cBB)
            /\ UNCHANGED codeVars
    /\ Enter
    /\ UNCHANGED <<guestVars, graph, cBB>>

(***************************************************************************)
(* Compiled code.  The guest's pc is flushed when the code is left, so pc  *)
(* keeps the head's address and native.word is where the guest is.         *)
(***************************************************************************)
Region == cfg[native.head]

AtEnd == native.word = Region.last[native.at]

\* Where compiled code may be after the instruction at a, when the guest would be
\* at n.  insn_jalr writes the link register before it reads the register to jump
\* through, and flushes the value it read; it adds no immediate to that, so that
\* code with one may be led anywhere.
\* Mutant: a jump leaves the address after itself.
CompiledNext_PastJump(a, n) == IF code[a].kind = "j" THEN {a + 1} ELSE {n}
CompiledNext(a, n) ==
    CASE code[a].kind = "farcall" -> {a + 1}
      [] code[a].kind = "offcall" -> Addr
      [] OTHER -> {n}

\* The blocks of the region the code may go to from here: a jump-and-link goes
\* to the first of its successors in a set ordered by pointers, whatever it is,
\* other transfers to the successor at n.
InRegion(n) ==
    LET S == Region.succs[native.at]
    IN  IF code[native.word].kind = "jal" THEN S ELSE S \cap {n}

NativeInsn ==
    /\ native # NoNative
    /\ \E n \in GoesTo(code, native.word, host) :
        /\ host' \in HostAfter(code, native.word, host)
        /\ \/ /\ ~AtEnd
              /\ native' = [native EXCEPT !.word = n]
              /\ ahead' = ahead - 1
           \/ /\ AtEnd
              /\ \E t \in UNION {InRegion(w) : w \in CompiledNext(native.word, n)} :
                    /\ native' = [native EXCEPT !.at = t, !.word = t]
                    /\ ahead' = (ahead - 1) + BlockSize(Region, t)
    /\ UNCHANGED <<code, pc, brk, graph, cBB, unit, rf, codeVars>>

\* The abort block of native.at, and the rest of regionCFG::run and executeJIT.
NativeExit ==
    /\ native # NoNative /\ AtEnd
    /\ \E n \in UNION {CompiledNext(native.word, m) : m \in GoesTo(code, native.word, host)} :
        /\ InRegion(n) = {}
        /\ host' \in HostAfter(code, native.word, host)
        /\ pc' = n
        /\ graph' = IF n \in graph.blocks THEN graph
                    ELSE AddSuccessor(code, NewBlock(graph, n), native.at, n)
        /\ cBB' = n
        /\ rf' = OfferHead(rf, n, native.at, hasRegion)
    /\ native' = NoNative
    /\ ahead' = ahead - 1
    /\ UNCHANGED <<code, brk, unit, codeVars>>

JitNext ==
    JitBuild \/ JitRunInsn \/ JitLeave \/ JitEnter \/ NativeInsn \/ NativeExit

JitSpec == JitInit /\ [][JitNext]_jitVars

\* One thread, which never waits.
JitFairSpec == JitSpec /\ WF_jitVars(JitNext)

-----------------------------------------------------------------------------
(***************************************************************************)
(* Properties.                                                             *)
(***************************************************************************)
Code == [blocks : SUBSET Addr, last : [Addr -> 0..N], succs : [Addr -> SUBSET Addr]]

Faults == {"none", "noloop", "insane", "noinsn", "impossible", "island", "x0", "nojump",
           "nocall"}

\* Types of the translator's own variables; traces count recordings of loops.
JitTypeOK ==
    /\ TypeOK
    /\ rf.en \in BOOLEAN /\ rf.head \in 0..N /\ ToSet(rf.buf) \subseteq Addr
    /\ \A h \in Addr : \A t \in DOMAIN traces[h] :
          ToSet(t) \subseteq Addr /\ traces[h][t] \in Nat \ {0}
    /\ cfg \in [Addr -> Code]
    /\ hasRegion \subseteq Addr
    /\ inRegions \in [Addr -> SUBSET Addr]
    /\ fault \in Faults
    /\ native \in [head : 0..N, at : 0..N, word : 0..N]
    /\ ahead \in Nat

\* hasRegion is set exactly where cfgCplr is: executeJIT tests the first, then
\* the second, and if only the first held it would make a second block for an
\* address that has one.
HasRegionExact == hasRegion = {h \in Addr : cfg[h] # NoCode}

IsLoop(h, t) ==
    /\ t[1] = h
    /\ \A i \in DOMAIN t :
          /\ t[i] \in graph.ro
          /\ t[(i % Len(t)) + 1] \in graph.succs[t[i]]

\* What is kept to be compiled is still a loop of closed blocks over known
\* edges when it is compiled, whatever was split since it was recorded.
RecordedLoops == \A h \in Addr : \A t \in DOMAIN traces[h] : IsLoop(h, t)

\* Compiled code has the extents the blocks have now: dropCompiledCode finds
\* every region a split block is part of.
CompiledFresh ==
    \A h \in Addr : \A b \in cfg[h].blocks : cfg[h].last[b] = graph.last[b]

\* Without augmentation every block of compiled code, and of a loop that is kept
\* to be compiled, is closed and names the head in its cfgInRegions; the head is
\* one of them.  So when setReadOnly closes a cut block again and lets its
\* cfgCplr go without deleting it, dropCompiledCode has deleted it before.
RegionsCovered ==
    \A h \in Addr :
        /\ cfg[h] # NoCode => h \in cfg[h].blocks
        /\ \A b \in cfg[h].blocks \cup TraceBlocks(DOMAIN traces[h]) :
              b \in graph.ro /\ h \in inRegions[b]

\* s->icnt, which rdcycle reads, is exact whenever the interpreter has the
\* processor; compiled code is ahead by what is left of the block it is in, and
\* wherever it is left has stored neither more nor less than it has executed.
CounterExact ==
    ahead = IF native = NoNative THEN 0 ELSE (Region.last[native.at] - native.word) + 1

\* While compiled code runs it is not dropped under it, no region is being
\* collected, the dispatcher's state is that of the region's head, and control
\* is inside the block the abort code would name.
NativeInPlace ==
    native # NoNative =>
        /\ native.head \in hasRegion /\ ~rf.en
        /\ unit = Idle /\ cBB = native.head
        /\ native.at \in Region.blocks
        /\ native.word \in native.at..Region.last[native.at]

\* The head being collected is not compiled, and the blocks buffered are a path
\* of closed blocks over known edges from it to the block about to run.
BufferedPath ==
    rf.en =>
        /\ rf.head \notin hasRegion
        /\ \A i \in 1..Len(rf.buf) :
              /\ rf.buf[i] \in graph.ro
              /\ i < Len(rf.buf) => rf.buf[i + 1] \in graph.succs[rf.buf[i]]

\* A loop that is accepted for compilation is compiled: none of the checks of
\* buildCFG, bindInsns and insertPhis takes the process down.
NoFault == fault = "none"

\* A forward transfer is not counted: a block that is reached from an earlier
\* one leaves the head table alone (updateRegionHeads: "forward branch...").
ForwardNotCounted ==
    [][ unit # Idle /\ unit' = Idle /\ unit.blk < cBB' =>
           rf'.heads = rf.heads /\ rf'.counts = rf.counts ]_jitVars

\* Seen from the guest the translator is the machine of module GuestExec.
AsGuest == INSTANCE GuestExec WITH
              pc <- IF native = NoNative THEN pc ELSE native.word,
              stopped <- brk

\* Interpreted or compiled, from a current or a stale region, every instruction
\* is executed where the one before it led, and nothing happens in between.
ExecutesInOrder == AsGuest!Safe

\* The same, and the guest goes on until it stops: dispatching, compiling and
\* looking up blocks always come to an end.
ExecutesGuest == AsGuest!Spec

\* The guest is at a loop that waits for its request to be answered.
GuestPC == IF native = NoNative THEN pc ELSE native.word
AtWait == code[GuestPC].kind = "wait" /\ host # "idle"

\* A guest that waits for its answer leaves compiled code time and again: the
\* interpreter answers before it executes the wait, so that the way back to the
\* wait is never learnt and never becomes an edge inside a region.
SpinLeaves == []<>AtWait => []<>(native = NoNative)

\* It is answered (handle_syscall's "ack"), or stopped.
HostAnswers == []<>AtWait => []<>(host = "idle" \/ brk)
=============================================================================
