SPECIFICATION FairSpec
CONSTANTS
    Writers = {w1}
    Openers = {o1, o2}
    Depth = 2
    Exit = Exit
INVARIANTS
    TypeOK
    HookReachesOpen
    IInv
    FreedIsUnhooked
PROPERTIES
    RemoveRestores
    HookedGetsThrough
CHECK_DEADLOCK FALSE
