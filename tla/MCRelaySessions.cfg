CONSTANTS
    c1 = c1
    c2 = c2
    c3 = c3
    k1 = k1
    k2 = k2
    NoClient = NoClient
    NoKey = NoKey
    DelayedSender = DelayedSender
    Conns = {c1, c2, c3}
    Keys = {k1, k2}
    LoginKeys <- TwoUsers
    Recipients <- OneWay
    MaxMessages = 2
    Faults = {"shared_key", "write_error"}
SPECIFICATION RelaySpec
SYMMETRY SessionSymmetry
INVARIANTS
    OnceAndInOrder
    NoMissedSignal
    Accounted
    NothingStranded
    OwnQueueWhileOnline
PROPERTY ImplementsMailbox
CHECK_DEADLOCK FALSE
