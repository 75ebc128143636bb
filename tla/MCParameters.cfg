CONSTANTS
    Declared <- ServerOptions
    Kind <- ServerKinds
    MinSize <- ServerMin
    MaxSize <- ServerMax
    Texts = {"empty", "three", "four", "address", "longest", "too_long"}
    Size <- TextSizes
    Addresses = {"address"}
    Names = {1, 2, 3, 4, 5, 6, 7}
    Bare = Bare
    Capacity = 3
    MaxArguments = 3
SPECIFICATION FairSpec
INVARIANTS
    TypeOK
    SearchExact
    ViewsIntact
    ExitsOnlyOnInvalid
PROPERTY Terminates
CHECK_DEADLOCK FALSE
