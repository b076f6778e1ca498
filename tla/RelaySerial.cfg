\* One request at a time, with failing writes and crashes at every step.
CONSTANTS
    Handler = {r1}
    Kinds <- AllKinds
    Installation = {i1, i2}
    Watch = {w1}
    PushToken = {t1, t2}
    Key = {k1}
    MaxEvents = 2
    MaxDrawn = 5
    None = None
SPECIFICATION Spec
SYMMETRY Symmetry
INVARIANTS
    TypeOK
    NothingIsStranded
    DeletedRecordsAreGone
    DeletedTokensAreRevoked
    RestartChangesNothing
PROPERTIES
    RevokedStaysRevoked
CHECK_DEADLOCK FALSE
