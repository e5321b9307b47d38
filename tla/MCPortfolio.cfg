SPECIFICATION Spec
CONSTANTS
    PerOrderMax = 9600
    DailyBuyCap = 15000
    MaxPositions = 1
    PerSymbolWeight = 60
    Unknown = Unknown
    Symbols = {s1, s2}
    Seed = 14400
    Whole = 20
    Slippage = 1
    Commission = 1
    SellTax = 1
    StopLoss = 6
    TimeStopDays = 0
    CostMultiple = 20
    MoveMultiple = 20
    CalmVol = 4
    StressVol = 12
    ElevatedMultiplier = 10
    StressMultiplier = 0
    Prices = {8, 12}
    Vols = {8}
    Confidences = {20}
    DailyLossLimit = 5
    MaxDrawdownLimit = 15
    RearmDrawdown = 5
    LastDay = 2
    MaxTicks = 3
    MaxFailures = 1
SYMMETRY SymbolSymmetry
CHECK_DEADLOCK FALSE
INVARIANTS
    TypeOK
    BooksBalance
    OldPositionsAreClosed
    OrdersFitTheLimits
PROPERTIES
    DueExitsLeaveTheBook
