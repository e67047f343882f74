SPECIFICATION FairSpec
CONSTANTS
    Runners = {t1, t2}
    Ops = {o1, o2}
    MaxStarts = 2
    MaxFinish = 2
CHECK_DEADLOCK FALSE
INVARIANTS
    ExecutedOnce
    DrainedOnReturn
PROPERTIES
    FinishDrains
    FinishEndsRun
