SPECIFICATION Spec
CONSTANTS
    Human = {a, b}
    Bot = {}
    NoHost = none
    MaxConnections = 3
INVARIANT TypeOK
PROPERTY OpenStaysRegistered
SYMMETRY Symmetry
CHECK_DEADLOCK FALSE
