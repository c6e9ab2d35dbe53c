CONSTANTS
    NPROC = 2
    CPUs = {c1, c2}
    Memory = {7, 9, 12, 20}
    PGSIZE = 2
    NPTENTRIES = 2
    UserTables = 3
    KernTables = 1
    RetFuncSize = 1
    Programs <- MCPrograms
    ArgSizes = {1, 2}
    Grows <- MCGrows
SYMMETRY CPUSymmetry
SPECIFICATION Spec
INVARIANTS
    PagesConserved
    SizeMapped
    LoadedTableLives
CHECK_DEADLOCK FALSE
