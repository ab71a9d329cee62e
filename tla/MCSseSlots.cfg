SPECIFICATION FairSpec
CONSTANTS
    Requests = {r1, r2}
    MaxConnections = 1
    TTL = 2
    None = None
    MaxFailures = 2
INVARIANTS
    TypeOK
    AtMost
PROPERTIES
    CountedUnless
    LeakedOnlyBy
    ExpiryHeals
