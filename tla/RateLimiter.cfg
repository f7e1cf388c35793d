SPECIFICATION Spec
CONSTANTS
    Callers = {c1, c2}
    Clients = {k1, k2}
    Limit = 2
    Window = 3
    MaxKeys = 1
    Lag = 1
    MaxTime = 5
INVARIANTS TypeOK WindowBound
PROPERTY RefusalsEarned
CHECK_DEADLOCK FALSE
