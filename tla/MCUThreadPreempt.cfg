CONSTANTS
    MAX_THREADS = 3
    NTICKET = 5
    MaxTid = 3
    MaxDepth = 4
    Joins = FALSE
SPECIFICATION Spec
INVARIANTS RunsOnOwnStack
