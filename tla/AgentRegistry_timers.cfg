CONSTANTS
    Shards = {s1}
    NoShard = NoShard
    Streams = {i1}
    NoStream = NoStream
    Callbacks = {c1}
SPECIFICATION LiveSpec
INVARIANTS
    TypeOK
    AgentIsWatched
PROPERTY HeartbeatRepairs
