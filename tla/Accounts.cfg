SPECIFICATION Spec
CONSTANTS
    Accounts = {a1, a2}
    Registered = {a1}
    Requests = {r1, r2, r3}
    MaxLoops = 2
    MaxManagers = 3
    None = None
INVARIANTS TypeOK LoopsKnown
PROPERTY StopEndsLoops
CHECK_DEADLOCK FALSE
