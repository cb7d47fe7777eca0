SPECIFICATION MCSpec
CONSTANTS
    s1 = s1
    s2 = s2
    s3 = s3
    s4 = s4
    None = None
    Count = 3
    Skbs = {s1, s2}
    Shape <- MCShape
    Cpus = {c1}
    Failures = {"up", "speed"}
    MaxIntWork = 1
    MaxFlaps = 0
    ShortXmit = TRUE
INVARIANTS
    MCResetIsClean
PROPERTIES
    MCResetIsPurge
    MCQueueRestarts
    MCCloseReturns
    MCQueuedIsReleased
    MCRxGoesOn
CHECK_DEADLOCK FALSE
