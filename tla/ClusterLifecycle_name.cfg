SPECIFICATION Spec
CONSTANTS
    Tenants = {n1, n2}
    NoTenant = none
    Registered = {n1, n2}
    ClusterName <- CreatedTogether
    Tasks = {t1, t2}
    TaskTenant <- Spread
    Cycle = 1
    IdleThreshold = 1
    Advance = 0
PROPERTIES ProvisionsForTenant
