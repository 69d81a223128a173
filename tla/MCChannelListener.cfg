SPECIFICATION ListenerSpec
CONSTANTS
    c1 = c1
    c2 = c2
    m1 = m1
    m2 = m2
    r1 = r1
    r2 = r2
    NoMessage = NoMessage
    Free = Free
    Worker = Worker
    Messages = {m1, m2}
    Channels = {c1, c2}
    Receivers = {r1, r2}
    InboxLimit = 1
    MaxListens = 2
    ChannelOf <- MCChannelOf
    Jobs = {1}
    Named = {1}
    Requests = {m1, m2}
    OneFile = FALSE
    MaxTasks = 1
    MaxAsks = 1
    MaxFaults = 0
    MaxRestarts = 1
SYMMETRY Symmetric
INVARIANTS
    RowsAreAccounted
    AckedIsDurable
PROPERTIES
    JobsAreNotLost
CHECK_DEADLOCK FALSE
