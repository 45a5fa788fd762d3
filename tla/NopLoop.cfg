\* A loop with an instruction that writes x0.
CONSTANTS
    N = 7
    Programs <- JustNopLoop
    HostRequests = {}
    Slots = 3
    NumEntries = 5
    HotThresh = 2
    MaxLen = 1024
    CfgAug = "head"
    Orders <- TwoOrders
    EnoughRegions = 1
SPECIFICATION JitSpec
INVARIANT NoFault
CHECK_DEADLOCK FALSE
