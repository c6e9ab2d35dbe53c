CONSTANTS
    Procs = {p1, p2}
    InitProc = p1
    Blocks = {9, 10}
    Vals = {v0, v1}
    NoBuf = NoBuf
    NoBlock = NoBlock
    MAXOPBLOCKS = 4
    LOGSIZE = 9
    LogSize = 9
    OpBlocks = 2
SYMMETRY Symmetry
SPECIFICATION Spec
INVARIANTS CommitRunsAlone
PROPERTIES CrashAtomic
