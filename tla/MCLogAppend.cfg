\* Every log and every list of entries of up to MaxLen; the loop ends.
SPECIFICATION Spec
CONSTANTS
    Entry <- SomeEntries
    MaxLen = 3
CHECK_DEADLOCK FALSE
INVARIANTS
    ComputesClosedForm
    IndexKept
