SPECIFICATION Spec
CONSTANTS
    PerOrderMax = 2
    DailyBuyCap = 3
    MaxPositions = 1
    PerSymbolWeight = 10
    Unknown = Unknown
    Symbols = {s1, s2}
    Notionals = {1, 2, 3}
    LastDay = 1
    MaxFailures = 1
SYMMETRY SymbolSymmetry
INVARIANTS
    DailyCapHolds
    HaltedTickTradesNothing
    BookIsAccountedFor
