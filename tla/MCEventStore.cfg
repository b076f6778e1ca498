CONSTANTS
    Channel = {c1, c2}
    Key = {k1}
    NoKey = NoKey
    MaxEvents = 2
    Seed <- MCSeed
    MaxID = 4
SPECIFICATION Spec
INVARIANTS
    TypeOK
    IdsBelowNext
    UniqueKeys
    MemoryIsDurable
    SeenIsCommitted
    CursorNeverSkips
    AckedIsRetained
PROPERTY ImplementsEventLog
SYMMETRY Symmetry
