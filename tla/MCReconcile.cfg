SPECIFICATION ReconcileSpec
CONSTANTS
    Symbols = {s1}
    None = None
    Held = {0}
    MaxOrders = 2
    MaxTrades = 1
    MaxFailures = 1
INVARIANTS
    AbsorbedMismatchIsKept
PROPERTIES
    MismatchExactlyOnSurprise
