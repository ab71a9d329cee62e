SPECIFICATION Spec
CONSTANTS
    DayLength <- Seven
    Trains <- SomeTrains
    TripFeeds <- SomeFeeds
    Glances <- SomeGlances
    Boards <- SomeBoards
    NextLines <- SomeLines
    MaxRewrites = 1
    None = None
INVARIANTS
    CanceledShown
