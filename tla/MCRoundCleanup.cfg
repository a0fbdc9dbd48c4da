\* A second start request while the winning move is under way.
SPECIFICATION FairSpec
CONSTANTS
    Human <- OneHuman
    HandSize = 1
    MayTimeOut = FALSE
    MaxStarts = 2
    MaxMoves = 1
    MaxToggles = 1
    MaxLeaves = 0
    MaxAsked = 4
PROPERTY
    RemovesOnlyCompleted
CHECK_DEADLOCK FALSE
