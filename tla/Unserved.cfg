\* A loop whose head waits for the answer to a request.
CONSTANTS
    N = 7
    Programs <- JustWaitAtHead
    HostRequests = {"call"}
    Slots = 3
    NumEntries = 5
    HotThresh = 2
    MaxLen = 1024
    CfgAug = "none"
    Orders <- TwoOrders
    EnoughRegions = 1
SPECIFICATION JitFairSpec
PROPERTY HostAnswers
CHECK_DEADLOCK FALSE
