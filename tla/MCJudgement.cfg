SPECIFICATION Spec
CONSTANTS
    s1 = s1
    s2 = s2
    Symbols <- MCSymbols
    Unknown = Unknown
    Findings <- MCFindings
    ExcludedTypes = {"ETN", "SPAC"}
    MinHistory = 2
    MinClose = 1
    MinVolume = 1
    Overbought = 70
    JudgeTop = 1
    ResearchTop = 1
    MaxContinuations = 1
    Cap = 2
    Ttl = 3
    HeldTtl = 2
    CandleTtl = 2
    HoursPerDay = 2
    LastHour = 3
    MaxTicks = 3
    MaxFailures = 1
SYMMETRY SymbolSymmetry
CHECK_DEADLOCK FALSE
INVARIANTS
    TypeOK
    CallsStayNearTheCap
    HoldingsAreJudged
    SearchesAreSpaced
