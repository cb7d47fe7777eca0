SPECIFICATION Spec
CONSTANTS
    s1 = s1
    s2 = s2
    s3 = s3
    s4 = s4
    None = None
    Count = 5
    Skbs = {s1, s4}
    Shape <- MCShape
    Cpus = {c1, c2}
    Failures = {"cow", "dma"}
    MaxIntWork = 2
INVARIANTS
    TypeOK
    RingOrder
    ContentIInv
    SkbOwnership
    HwSeesMapped
PROPERTIES
    NoTouchUnderHw
    TxFifo
CHECK_DEADLOCK FALSE
