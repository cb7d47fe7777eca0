SPECIFICATION FairSpec
CONSTANTS
    PoolReaders = {"r1"}
    PoolInputSize = 32
    PoolBlockingSize = 16
    PoolBitFrac = 2
    PoolByteBits = 2
    PoolReadWakeup = 4
    PoolWriteWakeup = 6
    PoolCredits = {6}
    PoolReseedBytes = 4
    PoolEvents = 4
    CrngReaders = {"r1", "r2"}
    CrngSources = {"s1"}
    CrngDrivers = {"d1"}
    CrngNodes = {"n0"}
    CrngThresh = 2
    CrngCalls = 5
    HidUsers = {"input", "hidraw"}
    HidOpens = 5
    DrvKinds = {"translated", "readonly", "plain", "ncd", "extra", "omnikey", "set2only"}
    DrvParams = {2, 3}
    DrvAttributes = {"extra", "set", "scroll", "softrepeat", "softraw"}
    DrvValues = {0, 1, 2, 3}
    DrvFailures = {"probe", "getset", "leds", "alloc", "register"}
    DrvUser = 3
    HookVersions = {1, 2, 3}
    HookCpus = {"c1", "c2"}
    HookPrograms = {"p1"}
    HookCalls = 5
    HwNics = {"l1c", "l2c_b"}
    HwMtus = {1500, 2000}
    HwSettings = {"auto", "100f"}
    HwPartners = {{"10f", "10h", "100f", "1000f"}}
    HwFailures = {"twsi", "up"}
    HwOps = 5
    ChrTasks = {"t1", "t2"}
    ChrTexts <- MCTexts
    ChrSize = 3
    ChrFailures = {"major", "buffer", "region", "proc"}
    ChrCalls = 5
    CutCount = 5
    CutFrames = {"f1", "f2", "f3", "f4"}
    CutPieces <- MCPieces
    CutGso = {"f2", "f4"}
    CutGso6 = {"f2"}
    CutOdd = {"f3"}
    CutFlaps = 1
INVARIANTS
    HardwareAsAsked
    DecodedAsHeld
    KeyboardCoherent
    NeverOverestimates
    CrngServes
    SmallDriversServe
PROPERTIES
    SleepersWake
    WorkEnds
CHECK_DEADLOCK FALSE
