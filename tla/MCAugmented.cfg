\* The default: regions augmented with the paths from the head; a loop is
\* compiled after two recordings.
CONSTANTS
    N = 7
    Programs <- TwoRecordings
    HostRequests = {"call", "exit"}
    Slots = 3
    NumEntries = 4
    HotThresh = 2
    MaxLen = 1024
    CfgAug = "head"
    Orders <- TwoOrders
    EnoughRegions = 2
SPECIFICATION JitSpec
INVARIANTS
    RecordedLoops
    NoFault
PROPERTIES
    ExecutesInOrder
CHECK_DEADLOCK FALSE
