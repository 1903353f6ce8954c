\* Three elections: an entry of an old term, a newer one on another replica.
SPECIFICATION Spec
CONSTANTS
    r1 = r1
    r2 = r2
    r3 = r3
    a = a
    Nil = Nil
    Server = {r1, r2, r3}
    Standing = {r1, r2}
    Stroke = {a}
    MaxElections = 3
    MaxLogLen = 1
    MaxCalls = 1
SYMMETRY Symmetry
CHECK_DEADLOCK FALSE
INVARIANTS
    ElectionSafety
    LeaderIDCorrect
    ElectableHasCommitted
    NoPanic
