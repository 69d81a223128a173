SPECIFICATION FairWritersSpec
CONSTANTS
    t1 = t1
    t2 = t2
    t3 = t3
    g1 = g1
    g2 = g2
    g3 = g3
    d1 = d1
    d2 = d2
    d3 = d3
    r1 = r1
    r2 = r2
    NoGate = NoGate
    NoDelivery = NoDelivery
    Tasks <- MCTasks
    Paths <- MCPaths
    Gates <- MCGates
    Deliveries = {d1, d2, d3}
    Roots = {r1, r2}
    RootOf <- MCRootOf
CHECK_DEADLOCK FALSE
INVARIANTS
    OneWriter
    ReportsAreTrue
PROPERTIES
    AcceptedWorkKeepsGate
    FifoAdmission
    EveryCallEnds
    RootsAreRespected
    SendEnds
