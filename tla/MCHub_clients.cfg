\* One client, since clients share nothing but the broadcast; it may be slow, leave
\* or be told of errors, and misses up to three broadcasts.
SPECIFICATION Spec
CONSTANTS
    c1 = c1
    Client = {c1}
    SendCapacity = 2
    BroadcastCapacity = 1
    MaxStrokes = 2
    MaxPosts = 3
    MaxErrors = 1
CHECK_DEADLOCK FALSE
INVARIANTS
    HubNeverPanics
    NothingMissing
PROPERTIES
    LeaverIsRemoved
