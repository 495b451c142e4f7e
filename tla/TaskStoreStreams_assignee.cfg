CONSTANTS
    Tasks = {1}
    Shards = {1, 2}
    TaskOf <- BothOfOne
    Agents = {a1, a2}
    NoAgent = NoAgent
    TaskTenant <- SameTenant
    AgentTenant <- AgentsTogether
    HookTasks = {1}
    Workers = {w1, w2}
    MaxRetries = 2
SPECIFICATION StreamSpec
SYMMETRY Interchangeable
INVARIANT ReportFromAssignee
