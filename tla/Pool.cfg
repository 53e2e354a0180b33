SPECIFICATION Spec
CONSTANTS
    Getters = {"g"}
    Pickers = {"p"}
    Adders = {"a"}
    Flushers = {"f"}
    MaxConns = 2
    MaxPairs = 2
    MaxEvents = 3
    Retries = 1
INVARIANTS
    ReportedOnce
PROPERTIES
    ResultsAreCurrent
    ClosedIsReported
