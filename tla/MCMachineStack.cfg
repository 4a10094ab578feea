CONSTANTS
    NULL = NULL
    p1 = p1
    p2 = p2
    p3 = p3
    p4 = p4
    Procs <- TwoProcs
    Table <- TwoRows
    Workloads <- TurnWorkloads
    Configs <- TurnConfigs
    TOTAL_BLOCKS = 13
    TICK = 2
    OS_BLOCKS = 2
    IO_DEVICE_COUNT = 2
    IO_KEYBOARD = 0
    Shares <- UnevenShares
    BSS_PERCENT_OF_DATA = 33
SPECIFICATION ContextSpec
INVARIANTS
    StackPointerInStack
