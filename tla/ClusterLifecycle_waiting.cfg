SPECIFICATION Spec
CONSTANTS
    Tenants = {n1}
    NoTenant = none
    Registered = {n1}
    ClusterName <- CreatedApart
    Tasks = {t1, t2}
    TaskTenant <- Spread
    Cycle = 1
    IdleThreshold = 1
    Advance = 0
INVARIANTS WaitingHasCluster
