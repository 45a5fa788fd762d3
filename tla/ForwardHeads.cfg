\* A loop with forward branches.
CONSTANTS
    N = 7
    Programs <- JustForward
    HostRequests = {}
    Slots = 3
    NumEntries = 5
    HotThresh = 2
    MaxLen = 1024
    CfgAug = "head"
    Orders <- TwoOrders
    EnoughRegions = 1
SPECIFICATION JitFairSpec
PROPERTY ForwardNotCounted
CHECK_DEADLOCK FALSE
