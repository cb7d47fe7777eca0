SPECIFICATION Spec
CONSTANTS
    NetOps = {}
    BusOps = {}
    Failures = {}
    Recovery = FALSE
    Flood = FALSE
    MaxIntWork = 1
    MaxFlaps = 1
    MaxOps = 3
    MaxFrames = 0
INVARIANTS
    RingsOutliveWork
CHECK_DEADLOCK FALSE
