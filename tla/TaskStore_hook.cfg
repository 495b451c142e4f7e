CONSTANTS
    Tasks = {1}
    Shards = {1}
    TaskOf <- OneOfOne
    Agents = {a1}
    NoAgent = NoAgent
    TaskTenant <- SameTenant
    AgentTenant <- AgentsTogether
    HookTasks = {1}
    Workers = {w1, w2}
    MaxRetries = 2
SPECIFICATION LiveSpec
PROPERTY HookEventuallySent
