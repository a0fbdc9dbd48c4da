\* A human who moves as soon as the game has started.
SPECIFICATION FairSpec
CONSTANTS
    Human <- TwoHumans
    HandSize = 2
    MayTimeOut = FALSE
    MaxStarts = 1
    MaxMoves = 1
    MaxToggles = 2
    MaxLeaves = 0
    MaxAsked = 4
INVARIANT
    AnnouncedTurnIsCurrent
CHECK_DEADLOCK FALSE
