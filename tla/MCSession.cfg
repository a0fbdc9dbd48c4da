\* Long enough for a session to expire and to be extended once.
SPECIFICATION FairSpec
CONSTANTS
    Session = {s1, s2}
    Request = {t1, t2}
    Lifetime = 1
    Leeway = 0
    MaxTime = 2
    MaxRestarts = 1
INVARIANTS
    TypeOK
    RemovedStaysRemoved
    LiveSessionsAreNamed
    NamesGoWithSessions
PROPERTIES
    ValidUntilExpiry
    ExpiredAreRemoved
CHECK_DEADLOCK FALSE
