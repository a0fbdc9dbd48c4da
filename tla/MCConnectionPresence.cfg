SPECIFICATION Spec
CONSTANTS
    Human = {a, b}
    Bot = {}
    NoHost = none
    MaxConnections = 2
INVARIANT PresenceIsCurrent
SYMMETRY Symmetry
CHECK_DEADLOCK FALSE
