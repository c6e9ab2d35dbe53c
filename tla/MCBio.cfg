CONSTANTS
    Procs = {p1, p2}
    Blocks = {k1, k2, k3}
    Bufs = {b1, b2}
    Vals = {v0, v1}
    Faulty = {k3}
    NoBlock = NoBlock
    Nobody = Nobody
    NoRequest = NoRequest
    MaxPinned = 1
SPECIFICATION LiveSpec
INVARIANTS OneBufferPerBlock ReadsLatest SleepersWillBeWoken
PROPERTIES RequestsServed
