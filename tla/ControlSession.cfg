CONSTANTS
    Shards = {s1}
    NoShard = NoShard
    Executions = {e1, e2}
    MaxInFlight = 2
    MaxFaults = 1
SPECIFICATION LiveSpec
INVARIANTS
    TypeOK
    RunsWhatItReports
    StopsOnlyCancelled
    BusyIsWatched
PROPERTIES
    SuccessHasOutput
    AgentFreed
    LeaseResolved
CHECK_DEADLOCK FALSE
