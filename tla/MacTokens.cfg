SPECIFICATION Spec
CONSTANTS
    Action <- Actions
    Relay = {r1, r2}
    Default = r1
    InitialHooks <- NoFiles
    Kinds = {"install", "delete", "uninstall", "emit", "lose"}
    Selections <- OnlyCodex
    Edited = {}
    Settings = {"restore"}
    MaxDrawn = 3
    None = None
INVARIANTS Connected
PROPERTIES TokenOutlivesInstallation
