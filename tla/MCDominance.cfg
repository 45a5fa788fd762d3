\* Iteration for regions of up to three blocks, Lengauer-Tarjan above.
CONSTANTS
    Graphs <- AllGraphs
    ManyBlocks = 5
SPECIFICATION FairSpec
INVARIANTS
    TypeOK
    DominatorsExact
    ImmediateExact
    FastDominanceExact
    LoopsNatural
    ReadsLatest
    StoredLatest
PROPERTIES
    AnalysisEnds
CHECK_DEADLOCK FALSE
