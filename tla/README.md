# A TLA+ model of rv32-bt

rv32-bt runs 32-bit RISC-V programs by dynamic binary translation.  It
interprets the guest, discovers its basic blocks while doing so, watches for hot
loops, records them, compiles the recorded blocks with LLVM into one function per
loop head (a *region*), and from then on runs that function instead of the
interpreter whenever the head is reached.  This directory holds TLA+ modules
that model this machinery, TLC configurations that check them on small
instances, and proofs, checked by TLAPS, of the results that matter most.

`PROJECT.json` ties every definition to the lines it models, lists the runs, the
properties, what can go wrong in the code ("hazards") and the disagreements found
("findings").

## 1. The system

One thread runs `main`'s loop (main.cc:238-243):

    while(s->brk==0)
      if(not(globals::cBB->executeJIT(s)))
        interpretAndBuildCFG(s);

There are no other threads, signals or messages.  What makes the program hard is
that several structures describe the same guest code (blocks, the recording in
progress, recordings kept, compiled code), that any guest jump may change the
first of them, and that every combination of "changed while in use" is reachable
by some legal guest.

| component | source | state | operations |
|---|---|---|---|
| interpreter | interpret.cc | pc, registers, memory, brk, the tohost word | `execRiscv`, `handle_syscall` |
| basic block graph | basicBlock.cc | `bbMap`, `insMap`; per block `vecIns`, `termAddr`, `readOnly`, `succs`, `preds` | `addIns`, `setTermAddr`, `setReadOnly`, `findBlock`, `split`, `addSuccessor`, `run` |
| region finder | region.cc | head table, counters, recording buffer, collection flag | `updateRegionHeads`, `update`, `getRegion`, `disableRegionCollection` |
| dispatcher | basicBlock.cc `executeJIT`, main.cc | per head: recordings and their counts, `hasRegion`, `cfgCplr`; per block: `cfgInRegions` | `executeJIT`, `addRegion`, `dropCompiledCode` |
| region building | regionCFG.cc `buildCFG`, `aug_dfs` | the set of blocks compiled together | augmentation, the checks of `buildCFG` |
| dominance, phi placement | regionCFG.cc `analyzeGraph`, cfgBasicBlock.cc | dominators, frontiers, loops, phi nodes, register tables | `computeDominance`, `LengauerTarjanDominators`, `inducePhis`, `traverseAndRename` |
| instruction semantics | interpret.cc, riscvInstruction.cc | registers, memory | each instruction, implemented once per engine |
| compiled code | riscvInstruction.cc, regionCFG.cc `run` | where in which region control is, `icnt` not yet executed | transfer inside the region, exit through an abort block |
| host calls | interpret.cc `execRiscv`, `handle_syscall` | tohost | exit, acknowledged calls, waiting for the answer |
| files, reports | loadelf, saveState, debugSymbols, perfmap, simPoints, m1cycles, disassemble | - | I/O and reporting |

How they interact.  The interpreter calls into the block graph at every transfer
(`getNextBlock`); the graph may split a block, which drops compiled code through
`cfgInRegions` and cancels the recording in progress; the dispatcher polls the
finder before it runs a block and offers it the next block afterwards; a finished
recording goes to `addRegion` and, when there are enough, to `buildCFG`; compiled
code returns the block it left from and the address it goes to, for which the
dispatcher adds a block and an edge.

Hard behaviour, and the property that each component owes:

* *Block graph.*  Blocks are found in the order the guest happens to jump; a jump
  into the middle of a block cuts it, possibly while it is being built or run.
  Owed: `insMap` never lies, edges are possible and mirrored, a closed block is
  one straight stretch, `run` stays in step with the pc, `addSuccessor` does not
  die, discovery ends.
* *Region finder.*  A recording lasts over many dispatches; another head may get
  hot, the buffer may fill.  Owed: what is handed over is a loop, the buffer is
  not overrun, collection ends.
* *Dispatcher and compiled code.*  Compiled code is a snapshot.  Owed: it does not
  outlive a change of its blocks, every block of it knows its head, the guest
  cannot tell the engines apart, and its instructions are counted once.
* *Host calls.*  Only the interpreter looks at tohost.  Owed: a guest that waits
  for its answer gets it (it may not: `unserved`).
* *Region building.*  Aborts on a dozen conditions.  Owed: no recorded loop meets
  one.
* *Dominance and phis.*  Pure algorithms over arbitrary flow graphs.  Owed: exact
  dominators, at every point the latest value of every register, and in memory
  wherever the code is left.
* *Instruction semantics.*  Owed: both engines agree.

## 2. The modules

| module | models | builds on |
|---|---|---|
| `Guest` | the guest program, tohost and its poll | |
| `GuestExec` | what the guest is promised (abstract specification) | `Guest` |
| `BlockGraph` | interpreter, block graph, main loop | `Guest` |
| `RegionOps` | class `region` as operators on a record | |
| `RegionFinder` | class `region` in any dispatch loop | `RegionOps` |
| `RegionCFG` | augmentation, `canCompileRegion`, the checks of `buildCFG` | `BlockGraph`, `RegionOps` |
| `Translator` | all of it together, with compiled code | `RegionCFG`; refines `GuestExec` |
| `Dominance` | `analyzeGraph` from numbering to phi nodes, and the code that results | |
| `InsnSemantics` | every instruction in both engines | |
| `BlockGraphProofs`, `RegionFinderProofs` | proofs about the two modules | the module |
| `SearchProofs` | proofs about `RegionCFG`: searches, regions | `BlockGraphProofs`, `Induction` |
| `TranslatorProofs` | proofs about `Translator` | `SearchProofs` |
| `InsnProofs` | proofs about `InsnSemantics` | `Induction` |
| `DominanceProofs` | proofs about `Dominance`: both dominator algorithms | `Induction` |
| `PhiProofs` | proofs about `Dominance`: dominance tests, loops, phi nodes, reads and stores, types | `DominanceProofs` |
| `Induction` | induction on numbers, functions defined by iteration | |
| `MC*` | the instances for TLC | |

State and actions against the code:

* A guest program is a function from word addresses 1..N to instructions; an
  instruction is its kind and the addresses it may send control to.  Branch
  outcomes and register contents are choices, with one exception: a `wait`, which
  stands for `while(tohost);`, is taken exactly while a request is there.  A block
  is named by its entry.
* `BlockGraph`: `BuildInsn` is `interpretAndBuildCFG` after `executeJIT` refused;
  `EnterBlock`, `RunInsn`, `LeaveBlock` are the beginning, one iteration and the
  end of `basicBlock::run`, together with what `executeJIT` does around it.  The
  calls each of them makes (`addIns`, `setTermAddr`, `getNextBlock` with
  `findBlock`, `split`, `addSuccessor`, `setReadOnly`) are operators on the record
  `graph`, composed in the code's order; `die()` is the field `died`.
* `RegionFinder`: `Refuse`, `Interpret` and `RunCompiled` are the three ways a call
  of `executeJIT` can go.  Which block comes next, whether a split happens and
  whether a block has compiled code are left to the environment, so that what
  holds here holds in `Translator`.
* `Translator`: `JitBuild`, `JitRunInsn`, `JitLeave` extend the actions of
  `BlockGraph` by what they do to finder and compiled code; `JitEnter` is the part
  of `executeJIT` up to the point where a block or a region is entered, recording
  and compilation included; `NativeInsn` and `NativeExit` are compiled code.
  While compiled code runs the variable `pc` keeps the head's address, as `s->pc`
  does; the guest's own pc is `native.word`.  `ahead` is the instruction counter
  of compiled code (`incrIcnt`) less the number of instructions executed.
* `RegionCFG`: `Search` is `aug_dfs`, one level of the recursion after the other
  (`Visit` is a call, `TryAll` its loop over the successors), down to the limit
  `MaxLen` on the length of a path; its order over successors (by execution
  count in the code) is any of a set of orders.  `BuildFault` names the first check
  of `buildCFG`, `bindInsns`, `insertPhis` or `generateIR` that fails.  `Insane`
  iterates over the growing set as `cfgAug` insane does, in the order of the
  blocks' addresses in the host's memory, which is any order.
* `Dominance`: one variable per data structure of `analyzeGraph`, `stage` for its
  place in that function, one action per call or loop iteration.  In the loop of
  `LengauerTarjanDominators` that includes each call of `Eval`, with the path it
  compresses: `Semidominator` takes one of the block's predecessors and `Settle`
  one block of its parent's bucket, in any order, since the code's order is that
  of addresses; `todo` is what is left of them.  Each register
  is independent of the others, so one is followed, defined in any set of blocks,
  or in none and only read.  Afterwards the generated code runs: `fresh` is the
  set of SSA names, memory (`s->gpr[]`) among them, that hold the register's
  latest value.  `Run` goes to the next block, `Abort` leaves through the block
  that `generateAbortBasicBlock` made.
* `InsnSemantics`: `Interpret` and `RunCompiled` execute one instruction from one
  state.  Each engine has its own tables, keyed by the code fields of the encoding.
  A word stands for its unsigned value and has any power of two of bits (32 in the
  program); `And`, `Or` and `Xor` work bit by bit, and shift amounts are masked as
  the code masks them.

## 3. What is checked

Runs that pass:

| run | asks | bounds |
|---|---|---|
| `block_graph` | is the graph sound, in step and settled, whatever the program?  does `aug_dfs` find what there is, and is every region that could be recorded and augmented accepted? | every program of four words, of which the first three may be branches and the first a store to tohost; every program of four one-word blocks, with jump-and-link and indirect jumps; exit requests; two orders of successors |
| `region_finder` | are only loops handed over, and does collection end? | five blocks, nested loops, a loop too long for the buffer, aliasing heads, threshold 3 |
| `translator` | do interpreter and compiled code together execute the guest and count its instructions, without augmentation, and does a guest that waits for the host leave compiled code for the dispatcher again and again? | the programs of `MCTranslator`, of seven words; host calls |
| `augmented` | and in order with the default augmentation and two recordings per compilation? | five of them |
| `dominance` | are dominators, both dominance tests, loops, phi nodes and the stores at exits right, and does the analysis end? | all regions of up to three blocks, all shapes of four blocks with two successors each |
| `insn_semantics` | do the engines agree on every instruction, except a `jalr` with a link register (`far_call`)? | words of four bits, every value |

Why the bounds are enough to be interesting.  Four words allow two overlapping
closed blocks, a split of the block being built, of the block being run and of
one elsewhere, a block with a self loop, three blocks split out of one, and four
blocks connected in every way (a path of four is the shortest on which a failed
attempt of `aug_dfs` can hide a later one).  The
programs of `MCTranslator` were chosen one per situation: a split of a recorded
loop, loops sharing a head, a jump into an augmented block, a call and return
through an indirect jump, an indirect call with three targets, a refused
instruction, a loop of one block, and a wait for the host inside a loop, at its
head and around it.  In `dominance` the smallest irreducible
region has three blocks and the smallest one in which Lengauer-Tarjan must both
compress a path and defer a block has four; regions from `ManyBlocks` on use that
algorithm (512 in the code, 5 in the run, so that each algorithm has its share).
In `insn_semantics` the width is scaled to four bits of which a byte has one: each
width of access, each sign and each shift amount occurs, and every pair of operand
values.

Bounds are all in the constants: `N`, `Slots`, `NumEntries`, `HotThresh`,
`EnoughRegions`, `MaxLen`, `ManyBlocks`, `W`, `ImmBits`, `LastReg`.  `MaxLen` is
the code's 1024 in `translator` and `augmented`.  In `block_graph` it is 3: with
four blocks a path has no more edges than that, so the limit is as tight as
`SearchDecides` allows (it asks for one block more than the limit at most) and an
attempt really reaches it.  No guard limits a
counter: counts of recordings are bounded by compilation, table counters by the
threshold.

Deadlock is not checked where the program may stop: after ecall, an exit request,
a failed assertion, or at the end of an analysis.  It is checked in
`region_finder`.

Fairness.  There is one thread and no operation waits, so weak fairness of the
next-state relation is all that is assumed (`FairSpec`, `JitFairSpec`); in
`Dominance` it is assumed of the analysis only, the generated code may stop.  The
liveness properties (`Settles`, `CollectionEnds`, `ExecutesGuest`, `SpinLeaves`,
`AnalysisEnds`) need no more; in particular no fairness between branches of the
guest is assumed.

The host.  A request is answered by the interpreter before it executes its next
instruction (`Served`), and by nobody while compiled code runs.  `SpinLeaves`
says what still holds: a guest that comes to its wait again and again leaves
compiled code again and again, since the way back to the wait is only taken with
a request pending, which the interpreter never sees there, so that it never
becomes an edge of the graph nor of a region.  `HostAnswers`, that it gets its
answer, fails all the same (`unserved`): when the block that waits is the head of
a region, the exit from the region goes to the head, the dispatcher enters the
region again at once, and the interpreter never has its turn.

Refinement.  `GuestExec` is a machine that executes one instruction after another
until it is stopped.  `Translator` implements it under the mapping
`pc <- native.word` while compiled code runs: all of building, splitting,
recording, compiling and dispatching are stuttering steps, and every instruction,
in whichever engine, goes where the one before it led.  `ExecutesGuest` is the
full specification with its liveness, `ExecutesInOrder` its safety part, for the
augmented configuration in which stale code may exist.

Runs that show a disagreement (each with its quotation in `PROJECT.json`):

| run | what happens |
|---|---|
| `exit_request` | a guest that asks for its exit in the middle of a block that overlaps another makes `addSuccessor` die |
| `stale_region` | blocks added by augmentation are not entered in `cfgInRegions`; their split leaves stale code that makes `addSuccessor` die |
| `forward_heads` | the early return for forward branches never fires for blocks that end in a transfer |
| `nop_loop` | a hot loop containing a computation into x0 fails the assertion in `insertPhis` |
| `far_call` | a compiled `jalr` that links jumps to its own return address when its link register is its base, and loses its immediate when it has one |
| `unserved` | a guest that waits for its host call at the head of a compiled loop is never answered |

The properties of the graph are stated for a guest that has not been stopped
(`brk \/ ...`): on the way out after a stop `LeaveBlock` still adds an edge to
wherever the guest stopped, which is harmless unless it is one edge too many
(`exit_request`).

## 4. What is proved

TLAPS checks these for all values of the constants that satisfy the assumptions
named in the modules.

* `BlockGraphProofs` (any `N`, any well-formed set of programs, any host
  behaviour): `TypeCorrect`, `PcStaysInSync`, `InsMapStaysSound`, `EdgesStayTrue`,
  `ExtentsStay`, `NeverDies`, `OnlySplitsCut`.
  The inductive invariant `IndInv` is the types, `PcInSync` and, while the guest
  runs, `Sound`: the five named parts of the graph's soundness.  None of the parts
  is inductive alone: that `addSuccessor` does not die needs that a closed block's
  known successors are possible ones, which a split keeps only because `insMap` is
  right, which `addIns` keeps only because the open block ends at the pc.  The
  graph properties take the set of open blocks as a parameter, because
  `getNextBlock` closes its block last: in between, the block already has
  successors and is not yet read-only.  There is one lemma per operation of the
  graph (`SplitSound`, `AddSuccessorSound`, ...) and one per action.
  `OnlySplitsCut` is about every step, also those of a guest that has stopped,
  where `Sound` need not hold any more; it rests on the weaker `Known`: closed
  blocks and the blocks that `insMap` names exist.
* `RegionFinderProofs` (any graph of blocks, any table, buffer and threshold, 0
  and 1 included): `FinderTyped`, `RecordingIsPath`, `RecordingFits`,
  `RegionsAreLoops`, `HeadTableSound`.  The invariant `FinderOK` is stated of a finder and a current
  block, since `executeJIT` updates the one before the other.
* `SearchProofs` (any `N`, programs, orders and `MaxLen`): `SearchIsExact`,
  `RegionsStayWellBuilt`.  Both follow from `BlockGraphProofs`' `IndInv`; the work
  is in what the recursion does.  `LevelsExist` gives it as one function per number
  of blocks that a path may still get, and the lemmas go up those levels.  A path
  that is found is not spoken of as a sequence: its blocks are a set from whose
  first block every set closed under the edges takes in all of them
  (`PathTo`), forward and, from the target, backward.  A failed search has left a
  set of seen blocks that is closed, except through the blocks seen before it, and
  without the target (`Exhausted`): that is why what an attempt marks as seen may
  stay marked, as long as the limit did not end it early.  `Joins` says of what a mode of augmentation adds that it lies
  between the recorded blocks, and `Reaches` collects what the checks of
  `buildCFG` then need.
* `TranslatorProofs` (any program without the calls that `far_call` is about, any
  table, buffer, thresholds and, unless said otherwise, augmentation):
  `JitInvariance` and from it `JitTypeCorrect`, `JitPcStaysInSync`, `FlagsAreExact`, `BufferStaysAPath`,
  `RecordingsStayLoops`, `CodeStaysInPlace`, `CounterStaysExact`,
  `JitOnlySplitsCut` and `JitImplementsGuest`, the safety part of the refinement
  of `GuestExec`, action by action; without augmentation also `CodeStaysFresh`,
  `RegionsStayCovered` and `JitNeverDies`.
  The inductive invariant `JitInv` has these parts.  `GraphInv` is the block
  graph's invariant but for `addSuccessor` having died, which leaving stale code
  can bring about (`stale_region`).  `CodeInv` says of compiled code that it
  consists of straight stretches of the *program*, joined by edges the guest may
  take (`RunsProgram`), and that its blocks have at most been cut since
  (`Shrunk`): that is what survives the splits that make code stale, and enough
  for the refinement, although not for `CompiledFresh`.  It also says of every
  recording kept that it is a loop whose blocks know its head, so that a split
  which would break the loop drops it.  `FinderInv` has the recording in progress
  lead to the block about to run or end with the one running; the cut of a buffered
  block cancels it.  `NativeInv`, `CodeTyped` and `HasRegionExact` complete it.
  `CoverInv` is the addition without augmentation: each block of compiled code
  knows its head and has its present extent.
* Also in `TranslatorProofs` (the same programs): `FaultsAreUnknownWords`, that
  when compiling takes the process down, the program holds a word `getInsn` does
  not know or one that writes x0, and `CompilingNeverFails`, that in a program
  without such words every accepted loop is compiled.  In addition to `JitInv` it takes
  that the instructions of a recording have been accepted and are still those of
  its blocks.  A `csr` is no longer among the unknown words without augmentation:
  `canCompileRegion` refuses it in recorded blocks, and nobody looks at the blocks
  a search adds.
* `DominanceProofs` (any set of graphs all of whose blocks are reached
  from the entry, any depth-first numbering, any `ManyBlocks`): `ComputesDominance`,
  `NeverStruckOut`, `SemidominatorsFound`, `ImmediateFound`.  Dominance is defined without paths: `a`
  dominates `b` when a set of blocks that holds the entry and is closed under the
  edges that avoid `a` leaves `b` out.  That a solution is contained in dominance
  is then shown with one such set, the blocks whose entry lacks `a`, and no
  induction over paths is needed.  The invariant says in addition that every block
  is numbered when the depth-first search returns, and that a pass which has
  changed nothing so far has left the equations of the blocks it visited solved.
  A block's dominators are numbered before it, so that the striking-out loop
  meets only dominators whose own sets are already down to one.

  For the algorithm of Lengauer and Tarjan, `SearchSound` is an invariant of the
  depth-first search: a block on the stack is an ancestor of all that are numbered
  after it, and one that has left it of its successors among them.  It makes of
  the numbers and `parent` a depth-first tree (`DfsTree`), in which "ancestor" is
  read off the numbers: `x` is above `y` when every block numbered after `x` and up
  to `y` has its parent at `x` or after.  The semidominator `Sd` is the least number
  from which a block is reached through blocks numbered after it; these are a least
  closed set, so that this too needs no paths.  The algorithm's theory is then three
  lemmas: no dominator of a block lies between its semidominator and the block
  (`DominatorsUpToSd`), the semidominator is the immediate dominator if no block
  between has an earlier one (`SemidominatorIsImm`), and otherwise the block between
  with the earliest one has the same immediate dominator (`EarliestHasImm`); that
  it can be computed from the predecessors is a fourth (`SdFromPreds`).  The
  loop's invariant has a part for the forest (`Forest`: the ancestor of a linked
  block is above it, and its label has the earliest semidominator of the blocks
  from there down, which every compression keeps), one for the semidominators
  already known, one for the buckets (a block waits in that of its semidominator
  until the child of it on the way to the block is linked), and one saying that a
  linked block waits or is settled.  `LookingUp`, `Settling` and `Deferring` are
  these parts at the three places in the code, with a lemma for each step:
  `LoweredStep`, `LinkedStep`, `SettledStep`, `EmptiedNext`, `EmptiedLast`,
  `DeferStep`.  No order of predecessors or of a bucket is assumed.
* `PhiProofs` (the same regions): `FastTestExact`, `LoopsAreNatural`,
  `LatestIsRead`, `LatestIsStored`, `AnalysisTyped`, all from the immediate
  dominators being right, whichever algorithm found them.
  Functions defined along the dominator tree exist because an immediate dominator
  is numbered before its block;
  the numbers of what lies below a block are an interval, since the sizes of its
  siblings' subtrees come before its own; the blocks of a loop are dominated by its
  head because the loop grows backward and stops there; a block where two values
  can meet is in the frontier of each block between a predecessor and the block's
  immediate dominator, the work list is closed under frontiers, and so on an edge
  into a block without a phi node the name at its source is the one at the end of
  the block's immediate dominator (`NamesAgree`).
* `InsnProofs` (words of 4, 8, 16 or 32 bits, any memory, any values, any
  instructions whose fields fit their encoding): `TypesKept`, `EnginesAgree`,
  `ShiftsDefined`.  The two engines differ where
  the code does: the upper half of a signed product is divided off in the one and
  comes out of a multiplication in twice the width in the other, a store takes
  bytes off a register or off a truncated value, compiled code divides by 1 rather
  than by 0, only the interpreter looks at whether the destination is x0, and only
  it keeps the operation apart from the pc it goes to.  The lemmas are about
  words: what wrapping, signed reading, division and bits do to them.
* `Induction`: `SetInduction`, `LeastNumber`, `IterationExists`, and that a chain of
  subsets of a finite set comes to a stop.  The library's theorems of induction
  take a predicate as an operator, which no prover here can instantiate; these take
  a set, and rest on the library's theorem on minimal elements of a well-founded
  order.

Assumptions beyond those on the constants, and what happens without them:

| assumption | of | without it |
|---|---|---|
| `NoLostCall`: no `jalr` links to the register it jumps through, nor links and adds an immediate | `TranslatorProofs` | `far_call`: compiled code goes elsewhere, with either of them alone |
| no `LinkedJump`: no `jalr` with a link register | `EnginesAgree` | the same |
| `TracesOnly`: no augmentation | `CodeStaysFresh`, `RegionsStayCovered`, `JitNeverDies` | `stale_region` |
| `AllTranslated`: no word that writes x0, nor one unknown to `getInsn` | `CompilingNeverFails` | `nop_loop` |
| no jump-and-link, at most `MaxLen` + 1 blocks | inside `SearchDecides` | a search turns back at a `jal` whose target it neither wants nor has seen; a longer path is cut off |

Only model-checked, not proved: liveness and everything that needs ENABLED
(`Settles`, `CollectionEnds`, `SpinLeaves`, `AnalysisEnds`, the liveness part of
`ExecutesGuest`).

## 5. What is not modelled, and why

* LLVM itself, its verifier and its code generator: third-party.  What
  `generateIR` emits is taken to mean what LLVM's language says.
* ELF loading, snapshots (`saveState`), symbols, `perfmap`, simulation points,
  performance counters, disassembly: input and output that no decision of the
  translator depends on.  Host calls other than exit: I/O.
* Counters used for reports (`inscnt`, `edgeCnts`, `insInBBCnt`) and the log of
  simulation points.  Where `inscnt` decides an order (`sortByIcnt`), any order is
  allowed.  What the modelled counter, `icnt`, is used for besides `rdcycle`:
  `--max_icnt` (only without block discovery) and `--dumpicnt` (only where
  compiled code is left).
* `--splitCFGBBs`, off by default: `splitBBs` looks for a transfer in the last but
  one word of a block, where a RISC-V block has none (MIPS had a delay slot), and
  so splits nothing; `repairBrokenEdges` strikes targets of indirect calls.
* The dispatch loop of `--cfg 0`.
* Guests that write code they have already run: a program is constant.
* Two recordings are taken as different loops exactly when their blocks differ;
  the code compares a CRC of the addresses, and a collision is ignored.
* Memory management: deletion of blocks and code, at exit or when dropped.
* Where a compiled `jalr` that links and has an immediate goes.  `insn_jalr` adds
  none, and what the base register holds is not followed: in `Translator` such a
  call (`offcall`) may lead compiled code to any word of the program.
* Floating-point and condition tables in `regionCFG`: no RV32 instruction uses
  them.  The nesting of natural loops: it only selects a block for output.
  (`isNestedLoop`'s comment, regionCFG.hh:303-304, has the two loops the other way
  round than the code at line 305; nothing else depends on which.)
* `rem` and `remu` by zero, and the signed division that overflows, are left
  undefined by C++ in the interpreter; `Agrees` says nothing of them.  `div` and
  `divu` by zero abort in the interpreter, while compiled code divides by 1.

## 6. Plan

Done, in this order: `Guest`, `BlockGraph` and its proofs; `RegionOps`,
`RegionFinder` and its proofs; `RegionCFG`; `Translator` with `GuestExec`;
`Dominance` and the proof of the iteration; `InsnSemantics`; `Induction`, the
dominator tree and `PhiProofs`; `TranslatorProofs`; `SearchProofs`; that
compiling does not fail; `InsnProofs`; that Lengauer-Tarjan finds the immediate
dominators.

Every safety property that a passing run checks is a theorem now.  What is left to
the runs is liveness.  Next: `generateIR`'s control flow, block by block, which
`Dominance` stands in for by `Run` and `Abort`; the dispatch loop of `--cfg 0`.
