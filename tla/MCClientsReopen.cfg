SPECIFICATION Spec
CONSTANTS
    WordSize = 256
    MaxDigits = 4
    Options <- MCOptions
    ToolFaults = FALSE
    NoEntry = NoEntry
    Files = {f1}
    Paths = {}
    MaxDirectories = 0
    Threads = {t1}
    NoThread = NoThread
    Owners = {t1}
    NoHandle = NoHandle
    MaxHandles = 2
    FileFaults = FALSE
INVARIANT OpenVolumeHasItsHandle
CHECK_DEADLOCK FALSE
