SPECIFICATION FairSpec
CONSTANT Calls = {w1, w2}
CHECK_DEADLOCK FALSE
INVARIANTS
    ReturnsCompletion
    FrameOutlivesWrites
PROPERTY
    SyncWaitReturns
