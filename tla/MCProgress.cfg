SPECIFICATION Spec
CONSTANTS
    NoId = NoId
    c1 = c1
    c2 = c2
    m1 = m1
    m2 = m2
    t1 = t1
    t2 = t2
    x1 = x1
    x2 = x2
    worker = worker
PROPERTIES
    ListenerServes
    ReceiptSettles
    ExpiredIsPurged
    DueIsServed
    RequestsSettle
    CallsAreFreed
CHECK_DEADLOCK FALSE
