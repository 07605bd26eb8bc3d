\* Thread.start may raise.
SPECIFICATION FairSpec
CONSTANTS
    c1 = c1
    c2 = c2
    t1 = t1
    t2 = t2
    p1 = p1
    p2 = p2
    None = None
    Profiles = {p1}
    Callers = {c1}
    Threads = {t1}
    StaleAfter <- StaleAfter1
    Limits = {0}
    MaxLimit = 2
    Sizes = {2}
    MaxTime = 2
    MaxSkew = 0
    StartMayFail = TRUE
PROPERTIES PollingEnds
