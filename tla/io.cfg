SPECIFICATION FairSpec
CONSTANTS
    Ops = {o1, o2}
    Waits = {w}
    Fd <- OneDescriptor
    Size = 2
    Wrap = 4
    MaxFailures = 1
CHECK_DEADLOCK FALSE
INVARIANTS
    LastReference
    NothingLost
    OutcomeHonest
    RingAccounts
    UndefinedOnlyWhenRunAgain
    LostOnlyWhenEarly
PROPERTIES
    ReturnsDrained
    StopIsHeard
