\* A bot whose strategy takes longer than five seconds.
SPECIFICATION FairSpec
CONSTANTS
    Human <- OneHuman
    HandSize = 2
    MayTimeOut = TRUE
    MaxStarts = 1
    MaxMoves = 2
    MaxToggles = 1
    MaxLeaves = 0
    MaxAsked = 4
PROPERTY
    WaitsOnlyForHumans
CHECK_DEADLOCK FALSE
