CONSTANTS
    Base = 2
    KeySize = 1
    Prefix = 1
    MinMessageSize = 1
    MaxMessageSize = 2
    MaxBytes = 17
SPECIFICATION Spec
INVARIANTS
    TypeOK
    RelayedAsSent
    EndsOnlyAtMalformed
    RecipientsSeeWhatWasSent
CHECK_DEADLOCK FALSE
