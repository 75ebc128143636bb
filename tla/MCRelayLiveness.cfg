CONSTANTS
    c1 = c1
    c2 = c2
    c3 = c3
    k1 = k1
    k2 = k2
    NoClient = NoClient
    NoKey = NoKey
    DelayedSender = DelayedSender
    Conns = {c1, c2}
    Keys = {k1, k2}
    LoginKeys <- TwoUsers
    Recipients <- AnyWay
    MaxMessages = 4
    Faults = {}
SPECIFICATION FairRelay
ACTION_CONSTRAINT EachOther
INVARIANTS
    OnceAndInOrder
    NoMissedSignal
PROPERTIES
    QueuedIsWritten
    StoredIsWritten
    SendersGoOn
CHECK_DEADLOCK FALSE
