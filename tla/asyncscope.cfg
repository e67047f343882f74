SPECIFICATION FairSpec
CONSTANTS
    States = {s1, s2}
    Threads = {t1, t2}
    Scope = Scope
    Local <- LocalHead
    Null = Null
    MaxNested = 1
CHECK_DEADLOCK FALSE
PROPERTY CompletesOnEmpty
