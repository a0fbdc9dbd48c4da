\* Whether a game against a bot may be listed among those of humans.
SPECIFICATION Spec
CONSTANTS
    Room = {r1, r2}
    BotPlayer = {"bot"}
    Outcome <- TwoOutcomes
    Limit = 1
    ShortForm = 1
    LongForm = 2
    MaxGames = 2
    MaxRepeats = 1
INVARIANT HumanOnlyMeansNoBots
SYMMETRY Symmetry
CHECK_DEADLOCK FALSE
