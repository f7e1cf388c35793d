\* One Telegram upload, one disk upload, a scheduled pass and a Backup Now, one restart.
\* The instance stops when its triggers are used up.
CONSTANTS
    Files = {f1, f2}
    Disk = {f2}
    Ticks = {t1}
    Requests = {r1}
    MaxCrashes = 1
    All = All
    None = None
SPECIFICATION FairSpec
INVARIANTS TypeOK CopiedOnce
PROPERTIES JobsEnd HeardIsMirrored
CHECK_DEADLOCK FALSE
