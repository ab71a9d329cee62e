SPECIFICATION FairSpec
CONSTANTS
    Parts = {stopIndex, tripIndex}
    Handlers = {r1, r2}
    Loader = Loader
    StartupAttempts = 2
    RefreshAttempts = 2
    MaxVersion = 2
    None = None
INVARIANTS
    TypeOK
    OneTimetable
    NeverEmpty
    NeverBack
PROPERTIES
    CatchesUp
    Answered
