SPECIFICATION FairSpec
CONSTANTS
    Threads = {t1, t2, t3}
    MaxRounds = 4
CHECK_DEADLOCK FALSE
INVARIANTS
    InnerDestroyedDone
    BoundedNesting
    QuietAfterCompletion
PROPERTY
    RepeatsUntilDone
