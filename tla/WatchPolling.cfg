\* The watch and its relay, with a fair scheduler and a relay that answers at last.
CONSTANTS
    Relay = {local}
    Home = local
    Https = {}
    Configured = None
    Slot = {p1, p2}
    MaxID = 1
    MaxSession = 2
    None = None
SPECIFICATION FairSpec
CONSTRAINTS
    NoOldTimer
    ReportsInFirstSession
    LateBeforePairing
PROPERTY WatchCatchesUp
