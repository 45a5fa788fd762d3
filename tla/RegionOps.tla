----------------------------- MODULE RegionOps -----------------------------
(***************************************************************************)
(* Class region: the hot-loop detector.  A small direct-mapped table       *)
(* counts how often a block is reached as a possible loop head; a head     *)
(* that gets hot turns collection on, and the blocks executed from then    *)
(* on are buffered until the head comes round again.                       *)
(*                                                                         *)
(* The state of the one region object is a record:                         *)
(*   en      enHistCollection                                              *)
(*   head    currRegionHead                                                *)
(*   buf     blockCache[0 .. histBufPos-1]                                 *)
(*   heads   regionHeads          counts  regionCounts                     *)
(* Blocks are named by their entry, as in module BlockGraph, and one table *)
(* slot by the low bits of the entry's word address.                       *)
(***************************************************************************)
EXTENDS Naturals, Sequences

CONSTANTS
    Slots,       \* nRegionHeads
    NumEntries,  \* the buffer's size, 2^lgNumEntries
    HotThresh    \* visits that make a head hot

ASSUME SlotsAssumption == Slots \in Nat \ {0}
ASSUME NumEntriesAssumption == NumEntries \in Nat \ {0}
ASSUME HotThreshAssumption == HotThresh \in Nat

NoHead == 0
Slot == 0..(Slots - 1)

ComputeIndex(b) == b % Slots

IdleFinder ==
    [ en     |-> FALSE,
      head   |-> NoHead,
      buf    |-> <<>>,
      heads  |-> [i \in Slot |-> NoHead],
      counts |-> [i \in Slot |-> 0] ]

\* A transfer from block l to b that is not counted.
NotCounted(rf, b, l) == b > l \/ rf.en

\* A head that is hot leaves the table, and the blocks that follow are buffered.
\* Mutants: it stays in the table; the buffer is not emptied.
SlotAfter_StaysHot(b, hot) == b
SlotAfter(b, hot) == IF hot THEN NoHead ELSE b

BufferAfter_Old(rf, hot) == rf.buf
BufferAfter(rf, hot) == IF hot THEN <<>> ELSE rf.buf

\* Block b has just been reached from block l.  Only a b at or before l is a
\* candidate; a candidate that misses in the table takes the slot over.
UpdateRegionHeads(rf, b, l) ==
    LET i == ComputeIndex(b)
        k == IF rf.heads[i] = b THEN rf.counts[i] + 1 ELSE 1
        hot == rf.heads[i] = b /\ k >= HotThresh
    IN  IF NotCounted(rf, b, l) THEN rf
        ELSE [ en     |-> hot,
               head   |-> IF hot THEN b ELSE rf.head,
               buf    |-> BufferAfter(rf, hot),
               heads  |-> [rf.heads EXCEPT ![i] = SlotAfter(b, hot)],
               counts |-> [rf.counts EXCEPT ![i] = k] ]

\* Forget head h's slot and the recording.
Reset(rf, h) ==
    [ en     |-> FALSE,
      head   |-> NoHead,
      buf    |-> <<>>,
      heads  |-> [rf.heads EXCEPT ![ComputeIndex(h)] = NoHead],
      counts |-> [rf.counts EXCEPT ![ComputeIndex(h)] = 0] ]

\* Mutant: collection goes on.
DisableRegionCollection_Not(rf) == rf

DisableRegionCollection(rf) ==
    IF ~rf.en THEN rf
    ELSE IF rf.head # NoHead THEN Reset(rf, rf.head)
    ELSE [rf EXCEPT !.en = FALSE, !.buf = <<>>]

\* update(b) returns true: the head is back.
Closes(rf, b) == rf.en /\ b = rf.head /\ rf.buf # <<>>

\* The buffer's last entry is never used; a recording that needs it is
\* abandoned, its head and contents left behind.
\* Mutants: the last entry is used; the recording is not abandoned; the head
\* table's entry is buffered instead of the block.
Full_OneMore(rf) == Len(rf.buf) = NumEntries
Full(rf) == Len(rf.buf) = NumEntries - 1

Abandon_Not(rf) == rf
Abandon(rf) == [rf EXCEPT !.en = FALSE]

Buffered_Head(rf, b) == [rf EXCEPT !.buf = Append(rf.buf, rf.heads[ComputeIndex(b)])]
Buffered(rf, b) == [rf EXCEPT !.buf = Append(rf.buf, b)]

Update(rf, b) ==
    IF ~rf.en THEN rf
    ELSE IF Closes(rf, b) THEN [rf EXCEPT !.en = FALSE]
    ELSE IF Full(rf) THEN Abandon(rf)
    ELSE Buffered(rf, b)

\* getRegion, which executeJIT calls when update returned true: the region is
\* rf.buf; the finder starts afresh.
GetRegion(rf) == Reset(rf, rf.head)
=============================================================================
