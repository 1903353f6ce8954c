\* A channel that fills up.
SPECIFICATION Spec
CONSTANTS
    r1 = r1
    r2 = r2
    Nil = Nil
    Server = {r1, r2}
    Capacity = 1
    MaxIndex = 2
    MaxLeaders = 1
    MaxFailures = 0
CHECK_DEADLOCK FALSE
PROPERTIES
    CommittedIsApplied
