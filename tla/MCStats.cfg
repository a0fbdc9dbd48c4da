\* Two rooms, two games, one of them submitted twice; the store keeps one game.
SPECIFICATION Spec
CONSTANTS
    Room = {r1, r2}
    BotPlayer = {"bot"}
    Outcome <- TwoOutcomes
    Limit = 1
    ShortForm = 1
    LongForm = 2
    MaxGames = 2
    MaxRepeats = 1
INVARIANTS
    CountsOnlyRecorded
    TotalsAreARecount
    GamesAreNumbered
    AggregatesCountEveryResult
SYMMETRY Symmetry
CHECK_DEADLOCK FALSE
