\* The server and two logins, one of them under another
\* secret, with a reset or a logout, and a reconnect.
\* Logins end and a stored session is kept: the system may come to rest.
CONSTANTS
    Server = server
    None = None
    Logins = {cli1, cli2}
    MaxResaves = 2
    Foreign = {cli2}
    MaxRemovals = 1
SPECIFICATION FairSpec
INVARIANTS TypeOK
PROPERTIES SessionNotClobbered ServerFollows
CHECK_DEADLOCK FALSE
