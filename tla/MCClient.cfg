CONSTANTS
    NONE = NONE
    a = a
    b = b
    Algorithms <- TwoAlgorithms
    RANDOM_COUNT = 2
    MEMORY_HISTORY_LIMIT = 3
    TypedLines <- Anything
    JOINS_IN_TIME = FALSE
    MAX_CLICKS = 4
SPECIFICATION FairSpec
INVARIANTS
    PidsUnique NothingCrosses HistoryIsOfOneRun FinalIsComplete
PROPERTIES EndIsNoticed ListCatchesUp
