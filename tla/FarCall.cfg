\* A loop with a call through its own link register or with an immediate.
CONSTANTS
    N = 7
    Programs <- LostCalls
    HostRequests = {}
    Slots = 3
    NumEntries = 5
    HotThresh = 2
    MaxLen = 1024
    CfgAug = "head"
    Orders <- TwoOrders
    EnoughRegions = 1
SPECIFICATION JitFairSpec
PROPERTY ExecutesInOrder
CHECK_DEADLOCK FALSE
