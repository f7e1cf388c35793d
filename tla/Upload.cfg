\* A disk upload and a Telegram upload of one name, with up to two faults.
CONSTANTS
    Sessions = {d, t}
    Disk = {d}
    Resuming = {d}
    Handlers = {h1, h2}
    Files = {f1, f2}
    Purgeable = {f1, f2}
    Size = 4
    ChunkParts = 2
    MaxFaults = 2
    None = None
SPECIFICATION Spec
SYMMETRY Interchangeable
INVARIANTS TypeOK RowsWhole HashVouches TelegramResends
CHECK_DEADLOCK FALSE
