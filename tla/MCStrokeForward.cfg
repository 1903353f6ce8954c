\* One stroke, forwarded while the leader changes and the tracker polls.
SPECIFICATION Spec
CONSTANTS
    N = 3
    x1 = x1
    Pump = {x1}
    Ticker = Ticker
    MaxElections = 2
    MaxFaults = 2
INVARIANTS
    ToldTheTruth
    RetryFindsLeader
PROPERTIES
    EveryStrokeAnswered
    TracksLeader
