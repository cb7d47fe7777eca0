SPECIFICATION FairSpec
CONSTANTS
    None = None
    Count = 4
    Skbs = {s1, s2, s3, s4}
    Budget = 2
    Kinds = {"good", "error", "multi"}
    Failures = {"alloc", "map"}
    MaxFlaps = 1
    Drained = TRUE
INVARIANTS
    HwFillsBuffers
    RrdHasRoom
    CleanedWasFilled
    CleanFreesAll
PROPERTIES
    RxFifo
CHECK_DEADLOCK FALSE
