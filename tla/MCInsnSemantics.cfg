CONSTANTS
    W = 4
    ImmBits = 3
    LastReg = 2
    Insns <- AllInsns
    Values <- Word
    Memory <- AllWords
SPECIFICATION Spec
INVARIANTS
    TypeOK
    Agrees
CHECK_DEADLOCK FALSE
