CONSTANTS
    Environments <- SomeEnvironments
    IntBits = 13
    Loops = {poller, recycler}
    Streams = {s1}
    Requests = {r1}
SPECIFICATION LiveSpec
INVARIANTS
    TypeOK
    ServesWired
    BillingPositive
    ErrorsFit
PROPERTIES
    EndsCleanly
    ShutdownCompletes
CHECK_DEADLOCK FALSE
