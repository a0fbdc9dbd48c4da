SPECIFICATION Spec
CONSTANTS
    Human = {a, b}
    Bot = {bot1, bot2, bot3}
    NoHost = none
    Task = {t1, t2}
    MaxBots = 2
SYMMETRY Symmetry
INVARIANT TypeOK
INVARIANT UnseatedBotIsInHand
INVARIANT ChannelFollowsRoom
CHECK_DEADLOCK FALSE
