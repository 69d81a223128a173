SPECIFICATION FairSpec
CONSTANTS
    a = a
    b = b
    Sessions = {a, b}
    Selected = a
    NoSession = NoSession
    Global = Global
    MaxReplay = 1
    MaxQueue = 1
    MaxHydrations = 2
    MaxCursor = 2
    MaxFaults = 1
INVARIANTS
    PositionHonest
    NothingForeign
PROPERTIES
    CatchesUp
CHECK_DEADLOCK FALSE
