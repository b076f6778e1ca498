SPECIFICATION Spec
CONSTANTS
    Action <- Actions
    Relay = {r1}
    Default = r1
    InitialHooks <- FilesBefore
    Kinds = {"install", "patch", "unpatch", "uninstall", "edit"}
    Selections <- BothOrOne
    Edited = {"Stop", "Notification"}
    Settings = {}
    MaxDrawn = 1
    None = None
INVARIANTS TypeOK ForeignHooksSurvive OneHandlerPerAction HooksHaveWrapper
