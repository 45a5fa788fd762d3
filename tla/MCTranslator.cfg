\* Regions of traced blocks only, compiled after one recording.
CONSTANTS
    N = 7
    Programs <- Programs7
    HostRequests = {"call", "exit"}
    Slots = 3
    NumEntries = 5
    HotThresh = 2
    MaxLen = 1024
    CfgAug = "none"
    Orders <- TwoOrders
    EnoughRegions = 1
SPECIFICATION JitFairSpec
INVARIANTS
    JitTypeOK
    PcInSync
    HasRegionExact
    RegionsCovered
    BufferedPath
    CompiledFresh
    NativeInPlace
    CounterExact
PROPERTIES
    ExecutesGuest
    SpinLeaves
CHECK_DEADLOCK FALSE
