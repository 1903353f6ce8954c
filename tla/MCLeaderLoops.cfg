\* Two leaderships, so that the loops of the first may be left in the second.
SPECIFICATION Spec
CONSTANTS
    p1 = p1
    p2 = p2
    Peer = {p1, p2}
    MaxTerms = 2
    MaxStrokes = 2
CHECK_DEADLOCK FALSE
INVARIANTS
    NewEntryNoticed
PROPERTIES
    EntriesReachPeers
    BeatsEnd
