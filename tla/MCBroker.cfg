SPECIFICATION FairSpec
CONSTANTS
    Conns = {c1, c2}
    Subjects = {alerts, union}
    Cap = 1
    MaxEvents = 2
    None = None
INVARIANTS
    TypeOK
    NoPanic
    NoLeak
PROPERTIES
    BroadcastCompletes
    LeaverReleased
    RefinesFanout
