SPECIFICATION FairSpec
CONSTANTS
    NetOps = {"mtu", "features"}
    BusOps = {"pm", "aer", "probe"}
    Failures = {"up", "slot", "speed", "enable", "regions", "netdev", "ioremap", "sw_init"}
    Recovery = FALSE
    Flood = TRUE
    MaxIntWork = 2
    MaxFlaps = 1
    MaxOps = 3
    MaxFrames = 2
INVARIANTS
    IrqSemBalanced
    NapiIsALock
    RingsOutliveUsers
    SettledIsUp
    ProbeAllOrNothing
PROPERTIES
    ErrorRecovers
    CarrierFollows
    OperationsEnd
CHECK_DEADLOCK FALSE
