CONSTANTS
    NULL = NULL
    p1 = p1
    p2 = p2
    p3 = p3
    p4 = p4
    Procs <- TwoProcs
    Table <- TwoRows
    Workloads <- CommandWorkloads
    Configs <- InitialConfigs
    Asked <- Requested
    TOTAL_BLOCKS = 4
    TICK = 2
    IO_DEVICE_COUNT = 2
    IO_KEYBOARD = 0
    TEST_COUNT = 2
    MIN_RANDOM_IO_REQUESTS = 2
    MAX_CHANGES = 2
    IDLE_LIMIT = 4
SPECIFICATION SessionFairSpec
INVARIANTS
    QuietIsShown
PROPERTIES
    StopIsFinal DispatchedWithQuantum ClosedInputEnds EndsWhenAllEnded
