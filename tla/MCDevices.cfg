CONSTANTS
    Writers = {w1, w2}
    Readers = {r1}
    NOFILE = 2
    PIPESIZE = 2
    Wrap = 4
    Counts = {1, 3}
    MaxSent = 3
    Users = {u1, u2}
    INPUT_BUF = 3
    IndexWrap = 6
    Serial = {"x", "CR", "^D", "^U", "DEL"}
    Keys = {"ctl", "shift", "d", "h", "p", "u", "enter"}
    ExtKeys = {"ctl", "enter"}
    ReadSizes = {1, 2}
    Sleepers = {s1}
    TickWrap = 8
    Naps <- MCNaps
SPECIFICATION DevicesSpec
INVARIANTS SleepsWithCause ReadersSleepForInput NoStuckModifier NapsLongEnough
PROPERTIES ImplementsStream ReleasedByCloseOrKill ImplementsTty NapsEnd
CHECK_DEADLOCK FALSE
