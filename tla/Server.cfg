\* Dispatch: three calls, one without a deadline, over two runs.  SessionHandoff: the server
\* and two logins, one under another secret, a reset or logout and reconnects.  Two wizards.
\* The mirror: two files, one on disk, a clock event, a Backup Now, a restart.  Three saves of
\* a domain.  Two calls of the update.  Two releases.
\* Calls, logins, wizards, buttons, saves and updates are used up, and the system may come to
\* rest.
CONSTANTS
    Calls = {c1, c2, c3}
    Background = {c3}
    MaxRuns = 2
    Nobody = Nobody
    Server = server
    Logins = {cli1, cli2}
    None = None
    MaxResaves = 2
    Foreign = {cli2}
    MaxRemovals = 1
    Wizards = {w1, w2}
    Files = {f1, f2}
    Disk = {f2}
    Ticks = {t1}
    Buttons = {b1}
    MaxCrashes = 1
    All = All
    Saves = {s1, s2, s3}
    Domains = {d1}
    NoDomain = NoDomain
    MaxUpdates = 2
    Current <- Version
    Releases <- Published
    MaxAsked = 2
SPECIFICATION ServerSpec
INVARIANTS ServerTypes ExecutedOnce HonestSuccess CopiedOnce PortsOwned UpdateSafe
PROPERTIES SessionServes SessionNotClobbered ServerFollows CancelStopsInput HeardIsMirrored WorkEnds
CHECK_DEADLOCK FALSE
