SPECIFICATION Spec
CONSTANTS
    Ids = {1, 2}
    Issuers = {1, 2}
    Relays = {1, 2}
    Keys = {k1}
    NoKey = NoKey
    Ttl = 1
    Window = 1
    Keep = 1
    MaxNow = 3
    MaxTargets = 1
    MaxDeliveries <- TwiceOnce
    MaxCrashes = 1
    None = None
    Gone = Gone
INVARIANTS OncePerWindow EveryDispatchIsRecorded
PROPERTIES TerminalStays Settles
CHECK_DEADLOCK FALSE
