SPECIFICATION Spec
CONSTANTS
    c1 = c1
    c2 = c2
    CallIds = {c1, c2}
    NoCall = NoCall
    MaxToolRounds = 2
    FailFast = TRUE
    MaxRuns = 2
    MaxFaults = 2
    MaxCompactions = 1
SYMMETRY Interchangeable
INVARIANTS
    ContextsStayValid
    NeverReplayed
PROPERTIES
    RunsLeaveNothingPending
    ImplementsLedger
CHECK_DEADLOCK FALSE
