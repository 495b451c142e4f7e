CONSTANTS
    Tasks = {t1}
    Tenants = {n1, n2}
    Bundles <- SomeBundles
    MaxAgents = {0, 1}
    Messages = {"", "out of memory", "exit status 1"}
    MaxCrashes = 1
SPECIFICATION Spec
INVARIANTS
    TypeOK
    TaskHasItsWork
    OutcomeExplained
    HookTruthful
    ReadsAgree
CHECK_DEADLOCK FALSE
