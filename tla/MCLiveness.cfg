SPECIFICATION Spec
CONSTANTS
    NoId = NoId
    t1 = t1
    t2 = t2
    Root = Root
    c1 = c1
    c2 = c2
    m1 = m1
    m3 = m3
    m4 = m4
    a = a
    b = b
    chat = chat
    NoChat = NoChat
PROPERTIES
    StopEnds
    RunsEnd
    WebServes
    WatchedIsHandled
CHECK_DEADLOCK FALSE
