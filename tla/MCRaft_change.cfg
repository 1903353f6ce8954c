\* A change of leader, with logs that conflict.
SPECIFICATION Spec
CONSTANTS
    r1 = r1
    r2 = r2
    r3 = r3
    a = a
    b = b
    Nil = Nil
    Server = {r1, r2, r3}
    Standing = {r1, r2, r3}
    Stroke = {a, b}
    MaxElections = 2
    MaxLogLen = 2
    MaxCalls = 1
SYMMETRY Symmetry
CHECK_DEADLOCK FALSE
INVARIANTS
    TypeOK
    LogMatching
    CommittedAgree
PROPERTIES
    ImplementsCommittedLog
