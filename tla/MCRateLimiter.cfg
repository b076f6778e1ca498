CONSTANTS
    k1 = k1
    k2 = k2
    Key = {k1, k2}
    NoKey = NoKey
    Caller = {c1, c2}
    Limit <- Limits
    Window = 3
    MaxLag = 1
    MaxTime = 6
SPECIFICATION Spec
INVARIANTS
    TypeOK
    AtMostTwiceTheLimit
PROPERTIES
    DeniedOnlyOverLimit
SYMMETRY Symmetry
