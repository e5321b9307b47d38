SPECIFICATION Spec
CONSTANTS
    PerOrderMax = 2
    DailyBuyCap = 2
    MaxPositions = 1
    PerSymbolWeight = 10
    Unknown = Unknown
    Ids = {i1, i2}
    Orders <- MCOrders
    Contexts <- MCContexts
INVARIANTS
    OnlyGrantedLiveSends
    SentAtMostOnce
    LedgerCoversBroker
PROPERTIES
    SwitchesBindStaleCallers
    ImplementsGate
