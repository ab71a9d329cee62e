SPECIFICATION Spec
CONSTANTS
    DayLength <- Seven
    LookAhead = 3
    MaxResults = 2
    None = None
    Feeds <- Timetables
    Requests <- Asked
    Busy = {"a1", "a4"}
    MaxRefreshes = 2
    MaxRequests = 2
CHECK_DEADLOCK FALSE
INVARIANTS
    TypeOK
    Sound
    OnceEach
    Represented
    Findable
    BoardAgrees
