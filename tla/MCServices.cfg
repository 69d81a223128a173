SPECIFICATION ServicesSpec
CONSTANTS
    NoId = NoId
    x1 = x1
    x2 = x2
    m1 = m1
    m2 = m2
    m3 = m3
    t1 = t1
    t2 = t2
    NoMessage = NoMessage
    Free = Free
    Worker = Worker
    NoBinding = NoBinding
    Messages = {m1, m2}
    Channels = {x1}
    Receivers = {t1}
    InboxLimit = 2
    MaxListens = 1
    ChannelOf <- MCChannelOf
    Chats = {x1, x2}
    Chains = {m1, m2}
    Timers = {t1, t2}
    MaxPending = 2
    MaxActivations = 1
    MaxParallel = 1
    MaxFaults = 1
    Tasks = {x1, x2}
    TaskMessages = {m1, m2, m3}
    ContextOf <- MCContextOf
    MaxActive = 2
    MaxAsks = 1
    Starts = {m2}
    MaxChatRuns = 2
    MaxChildActivations = 2
    Room = 1
    Roots = {1, 2}
    Channeled = {m2}
    Batch = 1
    Retention = 1
    MaxTime = 1
    MaxRequests = 2
    MaxWakes = 1
    Servers = {x1, x2}
    MaxEdits = 1
    MaxGenerations = 5
    MaxClients = 3
    MaxCalls = 2
INVARIANTS
    ConnectionsAreKept
    ReceiptIsTrue
    RemovalIsExact
    ChainsAreBounded
    RequestsAreHonest
    OperationsAreAuthorized
PROPERTIES
    OnceAndForAll
    CallsEndHonestly
    KeepsPromise
CHECK_DEADLOCK FALSE
