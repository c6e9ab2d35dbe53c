CONSTANTS
    Procs = {p1, p2}
    Names = {f1, f2}
    ninodes = 2
    NINODE = 2
    Blocks = {b1, b2}
    MaxAddrs = 1
    AfterStale = 1
    Nobody = Nobody
SPECIFICATION Spec
INVARIANTS NamedIsAllocated
