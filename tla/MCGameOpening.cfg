\* The opening rule, which the code lets the first player pass by.
SPECIFICATION MCSpec
CONSTANTS
    Deals <- MCDeals
    Moves <- MCMoves
INVARIANT FirstHandHasThreeOfDiamonds
CHECK_DEADLOCK FALSE
