SPECIFICATION Spec
CONSTANTS
    t1 = t1
    t2 = t2
    h1 = h1
    h2 = h2
    f1 = f1
    f2 = f2
    Threads = {t1, t2}
    NoThread = NoThread
    CallerHandles = {h1, h2}
    OwnHandles <- MCOwnHandles
    LibraryHandles = {f1, f2}
    NoHandle = NoHandle
    MaxCalls = 3
INVARIANT
    FreesOnlyWhatItCreated
