CONSTANTS
    Requests = {r1, r2, r3, r4}
    Lookups = {l1}
SPECIFICATION Spec
INVARIANT NoConcurrentAccess
CHECK_DEADLOCK FALSE
