\* A ready mark, a start request and two commands more: another start, moves of the
\* human, its leaving or the removal of a bot.
SPECIFICATION FairSpec
CONSTANTS
    Human <- OneHuman
    HandSize = 2
    MayTimeOut = FALSE
    MaxStarts = 2
    MaxMoves = 2
    MaxToggles = 1
    MaxLeaves = 1
    MaxAsked = 4
INVARIANTS
    TypeOK
    BotTurnIsCarried
PROPERTY
    WaitsOnlyForHumans
CHECK_DEADLOCK FALSE
