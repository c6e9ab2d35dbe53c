CONSTANTS
    NPROC = 3
    CPUs = {c1, c2}
    KillPids = {0, 2}
    Nobody = Nobody
SPECIFICATION LiveSpec
INVARIANTS OneCpuEach WaiterNotForgotten OnlyTargetKilled
PROPERTIES KilledExits OrphansReaped
