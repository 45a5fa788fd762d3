\* Buffers of up to three blocks, heads hot at their third visit.
CONSTANTS
    Slots = 3
    NumEntries = 4
    HotThresh = 3
    Blocks <- FiveBlocks
    Edges <- LoopEdges
SPECIFICATION FairSpec
INVARIANTS
    TypeOK
    Collecting
    BufferInBounds
    RegionIsLoop
    HeadTable
PROPERTIES
    CollectionEnds
