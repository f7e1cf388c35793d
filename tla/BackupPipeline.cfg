\* Two jobs, a snapshot and a request.
\* Copies and snapshots may wait for each other for ever.
CONSTANTS
    Accounts = {a1, a2}
    Snapshots = {s1}
    Requests = {r1}
    Parts = 2
    MaxCopies = 2
    Free = Free
SPECIFICATION FairSpec
INVARIANTS TypeOK CopiesWhole
PROPERTIES AloneServes
CHECK_DEADLOCK FALSE
