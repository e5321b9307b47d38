SPECIFICATION ClientSpec
CONSTANTS
    Clients = {c1, c2}
    MaxRetries = 1
    NoToken = NoToken
    MaxAged = 2
    MaxDrops = 2
INVARIANTS
    FetchesAreShared
    RefusedOnlyIfDroppedAgain
PROPERTIES
    EveryRequestEnds
