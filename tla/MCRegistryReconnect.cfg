CONSTANTS
    NoClient = NoClient
    NoKey = NoKey
    Conns = {c1, c2}
    Keys = {k1}
SPECIFICATION Spec
INVARIANT LoginReceives
CHECK_DEADLOCK FALSE
