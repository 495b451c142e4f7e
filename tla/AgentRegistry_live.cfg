CONSTANTS
    Shards = {}
    NoShard = NoShard
    Streams = {i1, i2}
    NoStream = NoStream
    Callbacks = {c1}
SPECIFICATION LiveSpec
INVARIANT EntryIsServed
PROPERTY Readmitted
