SPECIFICATION FairSpec
CONSTANTS
    Procs = {p1, p2}
    Ids = {x, y}
    None = None
    MaxEntries = 6
    MaxOps = 3
    MaxDeclines = 1
    MaxLoadRetries = 1
    PromptPublish = TRUE
INVARIANTS
    ValueClosedOnce
    NoChannelPanic
    OneInstance
    ClosingHasOneCloser
    NoLeakAfterClose
PROPERTIES
    OperationsReturn
