\* Two uploads and nothing else.
CONSTANTS
    Files = {f1, f2}
    Disk = {}
    Ticks = {}
    Requests = {}
    MaxCrashes = 0
    All = All
    None = None
SPECIFICATION FairSpec
PROPERTIES MirrorMissesNone
CHECK_DEADLOCK FALSE
