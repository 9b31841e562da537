SPECIFICATION Spec
CONSTANTS
    v1 = v1
    v2 = v2
    v3 = v3
    k1 = k1
    k2 = k2
    kOther = kOther
    pw1 = pw1
    pw2 = pw2
    Volumes = {v1}
    NoVolume = NoVolume
    Keys = {k1, k2, kOther}
    KeySize <- MCKeySize
    MasterKeyOf <- MCMasterKeyOf
    Garbage = Garbage
    Zeroed = Zeroed
    Passwords = {pw1, pw2}
    NoPassword = NoPassword
    Unconvertible = Unconvertible
    NumberOfKeySlots = 3
    KeySlots <- MCKeySlots
    DamagedVolumes = {}
    NoContext = NoContext
    IoFaults = FALSE
    LibraryFaults = FALSE
PROPERTY
    UnlockWithFittingPassword
