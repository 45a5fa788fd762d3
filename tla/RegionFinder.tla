---------------------------- MODULE RegionFinder ----------------------------
(***************************************************************************)
(* The region finder in the dispatch loop that drives it.  The loop is     *)
(* kept as general as basicBlock::executeJIT and interpretAndBuildCFG      *)
(* allow: which block comes next, whether a run was interpreted or         *)
(* compiled and whether a block was split are choices of the environment.  *)
(***************************************************************************)
EXTENDS RegionOps

CONSTANTS
    Blocks,     \* entry addresses of the basic blocks
    Edges       \* the edges the guest can take between them

ASSUME BlocksAssumption == Blocks \subseteq Nat \ {0} /\ Blocks # {}
ASSUME EdgesAssumption == Edges \subseteq Blocks \X Blocks

VARIABLES
    rf,         \* globals::regionFinder
    cur,        \* globals::cBB
    region      \* bbRegion, as getRegion last filled it

vars == <<rf, cur, region>>

Init ==
    /\ rf = IdleFinder
    /\ cur \in Blocks
    /\ region = <<>>

\* executeJIT refuses an open block; interpretAndBuildCFG executes one
\* instruction of it, at the end of the block moving on to the next.
Refuse ==
    /\ rf' = DisableRegionCollection(rf)
    /\ cur' \in {n \in Blocks : n = cur \/ <<cur, n>> \in Edges}
    /\ UNCHANGED region

\* update and, when it returns true, getRegion, at the top of executeJIT.
Polled == IF Closes(rf, cur) THEN GetRegion(Update(rf, cur)) ELSE Update(rf, cur)

Handed == IF Closes(rf, cur) THEN rf.buf ELSE region

\* The block reached is offered as a head unless it has a region already.
Offer(f, n, l) ==
    \E hasRegion \in BOOLEAN : rf' = IF hasRegion THEN f ELSE UpdateRegionHeads(f, n, l)

\* executeJIT interprets cur and goes on to n.  When cur ends in a transfer,
\* getNextBlock has already made n the current block, and n itself is the
\* block it is compared with; only when cur falls through is it cur.
Interpret ==
    \E n \in Blocks : \E l \in {cur, n} : \E split \in BOOLEAN :
        /\ <<cur, n>> \in Edges
        /\ Offer(IF split THEN DisableRegionCollection(Polled) ELSE Polled, n, l)
        /\ cur' = n
        /\ region' = Handed

\* executeJIT runs the code compiled for cur, which leaves some block l for n;
\* it never does so while a region is collected.
RunCompiled ==
    /\ ~Polled.en
    /\ \E n, l \in Blocks :
        /\ <<l, n>> \in Edges
        /\ Offer(Polled, n, l)
        /\ cur' = n
    /\ region' = Handed

Next == Refuse \/ Interpret \/ RunCompiled

Spec == Init /\ [][Next]_vars

\* The guest never stops taking transfers (it stops by leaving the loop).
FairSpec == Spec /\ WF_vars(Next)

-----------------------------------------------------------------------------
Finder ==
    [ en : BOOLEAN, head : Blocks \cup {NoHead}, buf : Seq(Blocks),
      heads : [Slot -> Blocks \cup {NoHead}], counts : [Slot -> Nat] ]

\* Types of the finder and of the loop's two variables.
TypeOK ==
    /\ rf \in Finder
    /\ cur \in Blocks
    /\ region \in Seq(Blocks)

IsPath(s) == \A i \in 1..(Len(s) - 1) : <<s[i], s[i + 1]>> \in Edges

\* While a region is collected it has a head, which getRegion and
\* disableRegionCollection dereference; the buffer is a path of executed
\* blocks that starts at the head, has not come back to it, and leads to the
\* block about to be executed.  Before the first entry that block is the head.
Collecting ==
    rf.en =>
        /\ rf.head # NoHead
        /\ rf.buf = <<>> => cur = rf.head
        /\ rf.buf # <<>> =>
              /\ rf.buf[1] = rf.head
              /\ \A i \in 2..Len(rf.buf) : rf.buf[i] # rf.head
              /\ IsPath(rf.buf)
              /\ <<rf.buf[Len(rf.buf)], cur>> \in Edges

\* blockCache is never written past its last usable entry.
BufferInBounds == Len(rf.buf) <= NumEntries - 1

\* What getRegion hands to the compiler is a loop: it starts at its head, is a
\* path of blocks executed one after the other, passes the head only once and
\* closes (buildCFG dies when a region starts anywhere but at its head).
RegionIsLoop ==
    region # <<>> =>
        /\ IsPath(region)
        /\ \A i \in 2..Len(region) : region[i] # region[1]
        /\ <<region[Len(region)], region[1]>> \in Edges

\* A head is in the slot computeIndex gives it, has been seen, and is not hot
\* yet: a counter that reaches the threshold leaves the table at once, so that
\* ">=" fires at the threshold and never above it.  The block that is being
\* collected is not in the table, where a hit would restart the recording over
\* the buffer in use.
HeadTable ==
    /\ \A i \in Slot : rf.heads[i] # NoHead =>
          /\ ComputeIndex(rf.heads[i]) = i
          /\ rf.counts[i] = 1 \/ rf.counts[i] \in 1..(HotThresh - 1)
    /\ rf.en => rf.heads[ComputeIndex(rf.head)] = NoHead

\* A recording always ends: the head comes back, a split or an open block
\* cancels it, or the buffer fills.
CollectionEnds == rf.en ~> ~rf.en
=============================================================================
