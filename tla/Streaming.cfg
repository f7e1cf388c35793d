SPECIFICATION Spec
CONSTANTS
    Readers = {h1, h2}
    MaxSize = 3
    Chunk = 2
    TTL = 1
    MaxRotations = 1
    MaxFaults = 1
    None = None
INVARIANTS TypeOK RangesUnderstood SentInOrder RotationHeals
CHECK_DEADLOCK FALSE
