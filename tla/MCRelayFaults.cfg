CONSTANTS
    c1 = c1
    c2 = c2
    c3 = c3
    k1 = k1
    k2 = k2
    NoClient = NoClient
    NoKey = NoKey
    DelayedSender = DelayedSender
    Conns = {c1, c2, c3}
    Keys = {k1, k2}
    LoginKeys <- EitherUser
    Recipients <- OneWay
    MaxMessages = 1
    Faults = {"aborted_login", "shared_key", "write_error", "unknown_recipient", "lookup_refused", "statement_error"}
SPECIFICATION RelaySpec
SYMMETRY SessionSymmetry
INVARIANTS
    RelayTypeOK
    DeliveredToAddressee
    Accounted
    NothingStranded
CHECK_DEADLOCK FALSE
