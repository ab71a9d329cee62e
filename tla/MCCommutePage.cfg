SPECIFICATION FairSpec
CONSTANTS
    MaxVersion = 2
    Buffer = 1
    Trips = {out, home}
    None = None
    MaxTrouble = 2
    MaxNavigations = 2
INVARIANTS
    TypeOK
    OwnDepartures
PROPERTIES
    NoStepBack
    Settles
