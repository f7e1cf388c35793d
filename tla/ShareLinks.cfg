SPECIFICATION Spec
CONSTANTS
    Visitors = {v1, v2, v3}
    Files = {f1, f2}
    OnDisk = {f2}
    Links = {l1}
    Limit = 2
    MaxCount = 3
INVARIANTS TypeOK OverrunBound EveryDownloadCounted
CHECK_DEADLOCK FALSE
