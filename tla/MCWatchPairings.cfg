CONSTANTS
    Installation = {i1, i2}
    CodeHash = {h1, h2}
    TTL = 3
    MaxClaimAttempts = 2
    MaxTime = 6
SPECIFICATION Spec
INVARIANTS
    TypeOK
    SingleUse
    OnlyLatestIsGranted
    OneActivePerInstallation
    ActiveIsClaimable
    MemoryIsDurable
SYMMETRY Symmetry
