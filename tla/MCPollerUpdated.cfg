SPECIFICATION Spec
CONSTANTS
    alerts = alerts
    exceptions = exceptions
    Order <- AlertsOnly
    EveryOther = {exceptions}
    Hashes = {exceptions}
    Period = 1
    TTL = 10
    Threshold = 6
    MaxCycle = 1
    MaxPolls = 5
    None = None
INVARIANTS
    OkMeansUpdated
