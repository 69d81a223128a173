SPECIFICATION Spec
CONSTANTS
    t1 = t1
    t2 = t2
    t3 = t3
    k1 = k1
    k2 = k2
    Root = Root
    NoTask = NoTask
    Tasks = {t1, t2, t3}
    Calls = {k1, k2}
    MaxDepth = 3
    MaxSlots = 2
    MaxExecutions = 3
SYMMETRY Symmetric
INVARIANTS
    QuotasHold
    RootAgreesWithTree
    SubtreesAreClear
