CONSTANTS
    Requests = {r1, r2, r3, r4}
    Lookups = {l1}
SPECIFICATION Spec
INVARIANTS
    TypeOK
    WaitersQueued
    LoopWokenForWork
PROPERTIES
    EveryCallerResumes
    ImplementsSerialExecutor
CHECK_DEADLOCK FALSE
