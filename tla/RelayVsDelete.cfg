\* Requests that were authenticated before a deletion and end after it.
CONSTANTS
    Handler = {r1, r2}
    Kinds <- OverlapsDelete
    Installation = {i1}
    Watch = {w1}
    PushToken = {t1}
    Key = {k1}
    MaxEvents = 2
    MaxDrawn = 4
    None = None
SPECIFICATION Spec
SYMMETRY Symmetry
INVARIANT DeletionIsFinal
CHECK_DEADLOCK FALSE
