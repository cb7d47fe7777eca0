SPECIFICATION Spec
CONSTANTS
    s1 = s1
    s2 = s2
    s3 = s3
    s4 = s4
    None = None
    Count = 4
    Skbs = {s1, s2}
    Shape <- MCShape
    Cpus = {c1}
    Failures = {"dma"}
    MaxIntWork = 2
INVARIANTS
    RollbackRestores
CHECK_DEADLOCK FALSE
