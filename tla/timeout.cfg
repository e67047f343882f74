SPECIFICATION FairTimeoutSpec
CHECK_DEADLOCK FALSE
INVARIANTS
    CompletedByTheSecond
    OnlyTimerStopIsLate
PROPERTY TimesOut
