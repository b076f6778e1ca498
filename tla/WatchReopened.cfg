\* The app is closed and opened again while it changes relays.
CONSTANTS
    Relay = {local, cloud}
    Home = local
    Https = {cloud}
    Configured = cloud
    Slot = {p1, p2, p3}
    MaxID = 1
    MaxSession = 1
    None = None
SPECIFICATION Spec
SYMMETRY Symmetry
PROPERTY PollsOnlyWhileActive
