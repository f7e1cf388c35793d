\* Two requests at once, two sessions, one user and one API token, a clock that goes past the
\* end of a session twice, and a restart.  The instance stops when the clock does.
CONSTANTS
    Handlers = {h1, h2}
    Tokens = {t1, t2}
    Users = {u1}
    ApiKeys = {k1}
    Admin = Admin
    k1 = k1
    k2 = k2
    Prefix <- OnePrefix
    TTL = 1
    MaxTime = 3
    MaxRestarts = 1
SPECIFICATION Spec
INVARIANTS TypeOK ViewersOnlyRead
PROPERTY SessionsEndOnTime
SYMMETRY Interchangeable
CHECK_DEADLOCK FALSE
