SPECIFICATION FairSpec
CONSTANTS
    Formats <- MCFormats
    Sectors = {0, 1, 17}
    SectorCells = 4
    NumberOfKeySlots = 2
    LibraryFaults = TRUE
    IoFaults = TRUE
    WordSize = 16
    LongSize = 4096
    NoKey = NoKey
INVARIANTS
    TypeOK
    OutputIsFilled
    DerivesKey
    OffsetsInBuffers
    MergeUndoesSplit
    CiphersBelongToContext
    ContextDirectionsAgree
    HeaderIsWhole
    OnlyVolumeKeyOpens
    RightPasswordIsEnough
    KnownFormatIsRead
PROPERTIES
    OpenReturns
