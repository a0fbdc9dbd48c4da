\* Every game with eight cards, one with twelve, and bots with the whole deck.
SPECIFICATION MCSpec
CONSTANTS
    Deals <- MCDeals
    Moves <- MCMoves
INVARIANTS
    TypeOK
    CardsConserved
    LastPlayerByIndex
    LastPlaysShowTheRound
    OneWinner
    NobodyIsStuck
    BotsDecideWell
PROPERTIES
    TurnOrderSpec
    GameEnds
CHECK_DEADLOCK FALSE
