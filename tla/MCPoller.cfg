SPECIFICATION FairSpec
CONSTANTS
    alerts = alerts
    exceptions = exceptions
    Order <- ExceptionsOnly
    EveryOther = {exceptions}
    Hashes = {exceptions}
    Period = 1
    TTL = 10
    Threshold = 6
    MaxCycle = 1
    MaxPolls = 3
    None = None
INVARIANTS
    TypeOK
    OkMeansServed
    AnnouncedIsCached
    NoFalseAlarm
PROPERTIES
    Recovers
