SPECIFICATION LiveSpec
CONSTANTS
    Tenants = {n1}
    NoTenant = none
    Registered = {n1}
    ClusterName <- CreatedApart
    Tasks = {t1}
    TaskTenant <- Spread
    Cycle = 2
    IdleThreshold = 1
    Advance = 1
PROPERTIES IdleActiveReclaimed PendingEventuallyScheduled
INVARIANTS TypeOK DestroysOnlyUnseen
    ReadStaysCurrent
