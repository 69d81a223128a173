SPECIFICATION Spec
CONSTANTS
    a = a
    b = b
    chat = chat
    m1 = m1
    m2 = m2
    m3 = m3
    m4 = m4
    NoRow = NoRow
    NoChat = NoChat
    Rows = {m1, m2, m3, m4}
    Roots = {a, b}
    Chats = {chat}
    RootOf <- MCRootOf
    ChatOf <- MCChatOf
    KindOf <- MCKindOf
    SubmitModes = {"steer", "interrupt"}
    MaxRuns = 1
    MaxEvents = 2
INVARIANTS
    AcceptedIsAccounted
CHECK_DEADLOCK FALSE
