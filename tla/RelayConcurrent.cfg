\* Two requests at a time, none of them a deletion.
CONSTANTS
    Handler = {r1, r2}
    Kinds <- KeepKinds
    Installation = {i1}
    Watch = {w1}
    PushToken = {t1, t2}
    Key = {k1, k2}
    MaxEvents = 2
    MaxDrawn = 5
    None = None
SPECIFICATION Spec
SYMMETRY Symmetry
INVARIANTS
    OnePushPerKey
PROPERTIES
    LateAnswerKeepsNewToken
    ProducerTokenIsStable
CHECK_DEADLOCK FALSE
