CONSTANTS
    NoClient = NoClient
    NoKey = NoKey
    Conns = {c1, c2, c3, c4}
    Keys = {k1, k2}
SPECIFICATION Spec
SYMMETRY Symmetry
INVARIANTS
    TypeOK
    StaleHandleRejected
    FreeListExact
    AddresseeOnly
    OnlineClientsReachable
CHECK_DEADLOCK FALSE
