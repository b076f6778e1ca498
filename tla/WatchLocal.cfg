\* A watch and the relay on its local network, polled in a loop, and another
\* relay that discovery may find first.
CONSTANTS
    Relay = {local, other}
    Home = local
    Https = {}
    Configured = None
    Slot = {p1, p2}
    MaxID = 2
    MaxSession = 2
    None = None
SPECIFICATION Spec
SYMMETRY Symmetry
CONSTRAINTS
    OneRelayOnceInUse
    OldTimerAlone
    DiscoveryInFirstSession
    LateBeforePairing
INVARIANTS
    TypeOK
    AlertedOnce
    NothingIsHidden
    RelayIsFound
PROPERTIES
    SessionIsKept
    ShownToTheEnd
    PollsOnlyWhileActive
