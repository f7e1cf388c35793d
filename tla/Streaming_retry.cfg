SPECIFICATION Spec
CONSTANTS
    Readers = {h1}
    MaxSize = 4
    Chunk = 2
    TTL = 1
    MaxRotations = 1
    MaxFaults = 1
    None = None
INVARIANT CompleteIsRight
CHECK_DEADLOCK FALSE
