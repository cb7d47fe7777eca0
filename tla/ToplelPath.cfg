SPECIFICATION Spec
CONSTANTS
    Writers = {w1}
    Openers = {o1}
    Depth = 2
    Exit = Exit
INVARIANTS
    HookfileInDataDir
CHECK_DEADLOCK FALSE
