CONSTANTS
    Procs = {p1, p2, p3}
    InitProc = p1
    Blocks = {2, 3, 4}
    Vals = {v0}
    NoBuf = NoBuf
    NoBlock = NoBlock
    MAXOPBLOCKS = 1
    LOGSIZE = 2
    LogSize = 2
    OpBlocks = 2
SPECIFICATION LiveSpec
INVARIANTS SleepersHaveReason OverrunBounded
PROPERTIES NobodyLeftBehind
CHECK_DEADLOCK FALSE
