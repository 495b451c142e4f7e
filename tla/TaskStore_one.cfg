CONSTANTS
    Tasks = {1}
    Shards = {1, 2}
    TaskOf <- BothOfOne
    Agents = {a1}
    NoAgent = NoAgent
    TaskTenant <- SameTenant
    AgentTenant <- AgentsTogether
    HookTasks = {1}
    Workers = {w1, w2}
    MaxRetries = 2
SPECIFICATION LiveSpec
INVARIANTS
    TypeOK
    SettledTaskConsistent
    NoMissedCompletion
    UnleasedUntilPromoted
    LeaseRecorded
    HookMatchesOutcome
    CancelNoticeIsSafe
    NoLockCycle
PROPERTIES
    NothingIsUndone
    CallsShrink
    ActsAtomically
    EveryCallReturns
