\* Four results of three games, in every order of completion, and a store of two.
SPECIFICATION Spec
CONSTANTS
    BotPlayer = {"bot"}
    Outcome <- TwoOutcomes
    Reader = {"a", "bot"}
    MaxGames = 3
    Limit = 2
    ShortForm = 1
    LongForm = 2
    MaxResults = 4
INVARIANTS
    WindowIsNewest
    RecordedOnce
    RepositoriesAgree
    PagesListEveryGame
CHECK_DEADLOCK FALSE
