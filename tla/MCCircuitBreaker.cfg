SPECIFICATION Spec
CONSTANTS
    DailyLossLimit = 5
    MaxDrawdownLimit = 15
    RearmDrawdown = 8
    Unknown = Unknown
    Equities <- MCEquities
    Rates <- MCRates
    MaxDay = 1
    MaxCurve = 4
    MaxRestarts = 1
INVARIANTS
    HaltFollowsEquityCurve
    DailyHaltIsForItsDay
    DeepDrawdownIsHalted
PROPERTIES
    OpensOnlyOnEvidence
