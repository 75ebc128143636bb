CONSTANTS
    c1 = c1
    c2 = c2
    c3 = c3
    k1 = k1
    k2 = k2
    NoClient = NoClient
    NoKey = NoKey
    DelayedSender = DelayedSender
    Conns = {c1, c2, c3}
    Keys = {k1, k2}
    LoginKeys <- TwoUsers
    Recipients <- OneWay
    MaxMessages = 1
    Faults = {}
SPECIFICATION RelaySpec
INVARIANT StoredUntilDelivered
CHECK_DEADLOCK FALSE
