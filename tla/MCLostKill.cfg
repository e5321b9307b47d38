SPECIFICATION Spec
CONSTANTS
    Ticker = tick
    Callers = {a1}
    Dumps = {open, halted}
    FreshDump = open
    NoRow = NoRow
    MaxFailures = 0
PROPERTIES
    SavedKillStaysSaved
