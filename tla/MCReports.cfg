SPECIFICATION FairSpec
CONSTANTS
    Loop = loop
    Posts = {post}
    Holidays <- MCHolidays
    LastDay = 4
    ListLimit = 1
    MaxTicks = 2
    MaxForced = 2
    MaxFailures = 1
INVARIANTS
    TypeOK
    EveryTickIsReported
PROPERTIES
    EveryDayIsReported
