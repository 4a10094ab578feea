CONSTANTS
    NONE = NONE
    a = a
    b = b
    Algorithms <- TwoAlgorithms
    RANDOM_COUNT = 2
    MEMORY_HISTORY_LIMIT = 3
    TypedLines = {}
    JOINS_IN_TIME = TRUE
    MAX_CLICKS = 5
SPECIFICATION Spec
INVARIANTS
    NeverRunsEmpty
