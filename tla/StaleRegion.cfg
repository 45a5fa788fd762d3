\* A block that was added to a region by augmentation is split.
CONSTANTS
    N = 7
    Programs <- JustSideEntry
    HostRequests = {}
    Slots = 3
    NumEntries = 5
    HotThresh = 2
    MaxLen = 1024
    CfgAug = "head"
    Orders <- TwoOrders
    EnoughRegions = 1
SPECIFICATION JitSpec
INVARIANT NoDie
CHECK_DEADLOCK FALSE
