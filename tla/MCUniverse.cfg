SPECIFICATION UniverseFairSpec
CONSTANTS
    s1 = s1
    s2 = s2
    s3 = s3
    s4 = s4
    Seeds <- MCSeeds
    Watchlists <- MCWatchlists
    Screens <- MCScreens
    Holdings <- MCHoldings
    Limit = 3
    ExplorePercent = 50
    PoolSize = 2
    FreshDays = 1
    Values = {1, 2}
    TickCycle = 12
    MaxAbandoned = 1
    MaxDays = 2
INVARIANTS
    UniverseTypeOK
    SlotsAreFilled
PROPERTIES
    ExplorationIsGuaranteed
    CoverageWithoutWatchlist
