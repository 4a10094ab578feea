CONSTANTS
    NULL = NULL
    CONTEXTS <- TwoContexts
    SCHEDULERS <- ThreeSchedulers
    MEMORY_STRATEGIES <- OnePlacement
    Invocations <- SomeInvocations
    Outputs <- SomeOutputs
    Empty <- EmptySnapshot
    TEST_PROCESSES = 2
    WORST = 3
SPECIFICATION FairSpec
INVARIANTS ReportIsComplete RanksAreFair
PROPERTIES ToolEnds
