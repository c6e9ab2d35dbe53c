CONSTANTS
    Words = {"a", "f"}
    MAXARGS = 3
    NFILE = 7
    NOFILE = 5
    NPIPE = 2
    PIPESIZE = 1
    Procs <- MCProcs
    Lines <- MCLines
    QuietLines <- MCQuietLines
    CALLS = 1
    Tokens = {"a", "<", "|", "&", ";", "(", ")"}
    TOKENS = 5
SPECIFICATION LiveSpec
INVARIANTS
    FileRefsCounted
    ExecSeesItsEnds
    ParserMatchesGrammar
PROPERTIES
    PromptReturns
