CONSTANTS
    NUMSIG = 2
    SIGALRM = 1
    Handlers = {"default", "user"}
    MaxTicks = 1
    MaxStack = 3
SPECIFICATION LiveSpec
INVARIANTS NoSignalLost StackBalanced
PROPERTIES SignalsHandled
CONSTRAINT UntilTorn
