CONSTANTS
    MAX_THREADS = 3
    NTICKET = 5
    MaxTid = 2
    MaxDepth = 4
    Joins = TRUE
SPECIFICATION Spec
CONSTRAINT UntilBreach
INVARIANTS OwnStackUntilBreach SwitchResumesThread TicketHasOwner
