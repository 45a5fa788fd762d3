\* The guest asks for its exit by a store to tohost.
CONSTANTS
    N = 5
    Programs <- OverlapProgram
    HostRequests = {"exit"}
    Slots = 3
    NumEntries = 5
    HotThresh = 2
    MaxLen = 1024
    CfgAug = "none"
    Orders <- TwoOrders
SPECIFICATION Spec
INVARIANT NoDieAtExit
CHECK_DEADLOCK FALSE
