SPECIFICATION FairSpec
CONSTANTS
    Threads = {t1, t2}
    Callbacks = {c1, c2, c3}
    End = End
    Marker = Marker
    Null = Null
INVARIANTS
    MarkerExclusion
    ListIntact
    RunOnce
    NoMissedCallback
PROPERTIES
    ClosedForGood
    MarkerReleased
    KeepsPromise
