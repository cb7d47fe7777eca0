SPECIFICATION FairSpec
CONSTANTS
    None = None
    Count = 3
    Skbs = {s1, s2, s3}
    Budget = 2
    Kinds = {"good"}
    Failures = {}
    MaxFlaps = 0
    Drained = FALSE
INVARIANTS
    CleanedWasFilled
CHECK_DEADLOCK FALSE
