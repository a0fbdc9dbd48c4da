SPECIFICATION FairSpec
CONSTANTS
    Human = {a, b}
    Bot = {}
    NoHost = none
    MaxConnections = 2
PROPERTY ReplacedIsClosed
CHECK_DEADLOCK FALSE
