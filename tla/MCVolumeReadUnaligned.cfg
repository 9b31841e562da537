SPECIFICATION Spec
CONSTANTS
    v1 = v1
    v2 = v2
    Volumes = {v1}
    NoVolume = NoVolume
    Size <- MCSize
    BytesPerSector = 2
    CacheSize = 2
    Garbage = Garbage
    Unset = Unset
    MaxOffset = 7
    MaxBufferSize = 5
PROPERTIES
    EveryCopiedByteIsRight
