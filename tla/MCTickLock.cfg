SPECIFICATION LockFairSpec
CONSTANTS
    Instances = {p1, p2}
    Calls = {c1, c2}
    None = None
    MaxBreaks = 1
INVARIANTS
    TicksAreSerialised
    KeyHasAnOwner
PROPERTIES
    ImplementsMutex
    LockComesFree
    EveryCallAnswered
