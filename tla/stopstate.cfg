SPECIFICATION FairSpec
CONSTANTS
    Threads = {t1, t2, t3}
    Callbacks = {c1, c2}
    MaxLives = 2
CHECK_DEADLOCK FALSE
INVARIANTS
    BusyExclusion
    NoCallAfterDestruction
    CallCount
PROPERTIES
    KeepsPromise
    OperationsReturn
