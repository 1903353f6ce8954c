\* A client that falls behind while its history is replayed.
SPECIFICATION Spec
CONSTANTS
    c1 = c1
    Client = {c1}
    SendCapacity = 1
    BroadcastCapacity = 1
    MaxStrokes = 2
    MaxPosts = 2
    MaxErrors = 1
CHECK_DEADLOCK FALSE
INVARIANTS
    SlowClientHarmless
