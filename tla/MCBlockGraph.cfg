\* Every program of four words, and every program of four one-word blocks; the
\* guest stops by ecall or by an exit request.  Regions are augmented with the
\* paths between any two of their blocks.
CONSTANTS
    N = 4
    Programs <- Both
    HostRequests = {"exit"}
    Slots = 3
    NumEntries = 5
    HotThresh = 2
    MaxLen = 3
    CfgAug = "aggressive"
    Orders <- TwoOrders
SPECIFICATION FairSpec
INVARIANTS
    TypeOK
    InsMapSound
    EdgesTrue
    Extents
    PcInSync
    NoDie
    SearchDecides
    RegionsWellBuilt
PROPERTIES
    OnlySplitsCutBlocks
    Settles
CHECK_DEADLOCK FALSE
