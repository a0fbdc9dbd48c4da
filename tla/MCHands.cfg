\* The hand rules against the rules of the README.
SPECIFICATION HandsSpec
CONSTANTS
    Pools <- MCPools
    Partners <- MCPartners
INVARIANTS
    ClassifiesByTheRules
    BeatsByTheRules
CHECK_DEADLOCK FALSE
