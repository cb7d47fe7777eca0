SPECIFICATION AtlFairSpec
CONSTANTS
    s1 = s1
    s2 = s2
    s3 = s3
    None = None
    Count = 3
    Skbs = {s1}
    Shape <- MCShape
    Cpus = {c1}
    Failures = {"up"}
    MaxIntWork = 1
    MaxFlaps = 0
    ShortXmit = TRUE
PROPERTIES
    CloseReturns

CHECK_DEADLOCK FALSE
