SPECIFICATION FairSpec
CONSTANTS
    Ticker = tick
    Callers = {a1, a2}
    Dumps = {open, halted}
    FreshDump = open
    NoRow = NoRow
    MaxFailures = 1
INVARIANTS
    SealedKillIsDurable
PROPERTIES
    SettledStateIsSaved
