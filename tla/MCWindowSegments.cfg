CONSTANTS
    NULL = NULL
    rr = rr
    fcfs = fcfs
    Algorithms <- OneAlgorithm
    ROUND_ROBIN = rr
    Memories = {0}
    Costs <- UsualCost
    Quanta <- UsualQuantum
    Speeds <- UsualSpeed
    Names <- OneName
    Splits <- TwoSplits
    RandomCounts = {1}
    MAX_PROCESSES = 1
    MAX_TIME = 1
    MAX_CLICKS = 5
SPECIFICATION Spec
INVARIANTS
    SegmentsAsEntered
