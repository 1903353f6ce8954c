\* One replica restarts; the others are up all the time.
SPECIFICATION RestartSpec
CONSTANTS
    r1 = r1
    r2 = r2
    r3 = r3
    a = a
    b = b
    Nil = Nil
    Server = {r1, r2, r3}
    Standing = {r1, r2}
    Stroke = {a, b}
    MaxElections = 2
    MaxLogLen = 1
    MaxCalls = 1
    MaxRestarts = 1
SYMMETRY Symmetry
CHECK_DEADLOCK FALSE
INVARIANTS
    CommittedAgree
