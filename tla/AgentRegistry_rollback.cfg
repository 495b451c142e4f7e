CONSTANTS
    Shards = {s1}
    NoShard = NoShard
    Streams = {i1}
    NoStream = NoStream
    Callbacks = {c1, c2}
SPECIFICATION Spec
SYMMETRY Interchangeable
INVARIANT TimeoutFindsShard
