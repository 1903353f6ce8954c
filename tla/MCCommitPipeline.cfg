\* A channel that fills up while the leader changes; no symmetry, for liveness.
SPECIFICATION Spec
CONSTANTS
    r1 = r1
    r2 = r2
    Nil = Nil
    Server = {r1, r2}
    Capacity = 2
    MaxIndex = 3
    MaxLeaders = 2
    MaxFailures = 1
CHECK_DEADLOCK FALSE
INVARIANTS
    ChannelIsWindow
    AnnouncedInOrder
PROPERTIES
    AppliedUnlessStuck
    StableLeaderAnnounces
