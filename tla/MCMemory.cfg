CONSTANTS
    TOTAL_BLOCKS = 10
    BLOCK_SIZE_KB = 4
    NULL = NULL
    OsProcs <- MCOsProcs
    OsBase <- MCOsBase
    OS_RESERVED = 3
    Procs = {p1, p2, p3}
    RequestsKb = {0, 3, 4, 8, 9, 30}
SPECIFICATION Spec
INVARIANT ListIsSound
PROPERTY ImplementsMap
SYMMETRY Symmetry
