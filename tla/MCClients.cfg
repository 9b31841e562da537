SPECIFICATION FairSpec
CONSTANTS
    WordSize = 256
    MaxDigits = 4
    Options <- MCOptions
    ToolFaults = TRUE
    NoEntry = NoEntry
    Files = {f1, f2}
    Paths <- MCPaths
    MaxDirectories = 2
    Threads = {t1, t2}
    NoThread = NoThread
    Owners = {t1, t2}
    NoHandle = NoHandle
    MaxHandles = 2
    FileFaults = TRUE
INVARIANTS
    TypeOK
    MountedIsUnlocked
    ExitLeavesOnlyVolumes
    PasswordIsCleared
    EntriesAreAccountedFor
    PathsResolve
    ListingIsComplete
    OffsetIsTyped
    HandlesAreOwned
    ReadsAfterItsSeek
PROPERTIES
    PythonNeedsGil
    ToolsReturn
    PyCallsReturn
CHECK_DEADLOCK FALSE
