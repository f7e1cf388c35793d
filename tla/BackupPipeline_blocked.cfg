\* Counterexample: one mirror copy and one snapshot.
CONSTANTS
    Accounts = {a1}
    Snapshots = {s1}
    Requests = {r1}
    Parts = 2
    MaxCopies = 1
    Free = Free
SPECIFICATION FairSpec
PROPERTIES UploadsNotBlocked
CHECK_DEADLOCK FALSE
