CONSTANTS
    NULL = NULL
    rr = rr
    fcfs = fcfs
    Algorithms <- BothAlgorithms
    ROUND_ROBIN = rr
    Memories = {0, 1}
    Costs <- TwoCosts
    Quanta <- TwoQuanta
    Speeds <- TwoSpeeds
    Names <- TwoNames
    Splits <- TwoSplits
    RandomCounts = {1}
    MAX_PROCESSES = 2
    MAX_TIME = 1
    MAX_CLICKS = 5
SPECIFICATION FairSpec
INVARIANTS
    SettingsInForce ViewsAgree
PROPERTIES
    ChartComesBack
