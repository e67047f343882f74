SPECIFICATION FairSpec
CONSTANTS
    Threads = {t1, t2}
    Callbacks = {c1, c2}
    End = End
    Marker = Marker
    Null = Null
PROPERTY CallbacksGetCalled
