CONSTANTS
    p1 = p1
    p2 = p2
    p3 = p3
    p4 = p4
    NULL = NULL
    Procs <- ThreeProcs
    Table <- ThreeRows
    Workloads <- CpuAndSwapWorkloads
    Configs <- CpuConfigs
    Targets <- PeriodicTargets
    MAX_INTERRUPT_HISTORY = 3
    TOTAL_BLOCKS = 4
    TICK = 2
    IO_DEVICE_COUNT = 2
    IO_KEYBOARD = 0
SPECIFICATION TimelineSpec
INVARIANTS
    GanttAgreesWithTimes InterruptsTellTheStory
    BestProcessRuns QuantumRespected BurstServed DeviceServesInOrder
