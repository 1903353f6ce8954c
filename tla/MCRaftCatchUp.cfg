\* The leader and one of its two peers are up; two requests and two answers in
\* flight, in any order.
SPECIFICATION CatchUpSpec
CONSTANTS
    r1 = r1
    r2 = r2
    r3 = r3
    a = a
    Nil = Nil
    Server = {r1, r2, r3}
    Standing = {}
    Stroke = {a}
    MaxElections = 3
    MaxLogLen = 3
    MaxCalls = 2
    Chosen = r1
    Up = {r2}
    MaxOldLen = 2
CHECK_DEADLOCK FALSE
INVARIANTS
    MatchIndexTrue
    CommitWithinRequest
PROPERTIES
    CommittedPrefixStable
    AcceptedIsCommitted
    CatchesUp
