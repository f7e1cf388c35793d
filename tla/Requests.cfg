\* RateLimiter: two calls at once, two keys.  ShareLinks: three visitors of one link.  FileRequests:
\* two links and one upload.  Streaming: two readers of a file of up to three bytes in chunks of two.
\* Accounts: two accounts, one registered, three requests.
\* The instances stop when their bounds are used up.
CONSTANTS
    Handlers = {h1, h2}
    Third = h3
    None = None
    Clients = {k1, k2}
    Limit = 2
    Window = 3
    MaxKeys = 1
    Lag = 1
    MaxTime = 4
    Files = {f1, f2}
    OnDisk = {f2}
    Links = {l1}
    MaxDownloads = 1
    MaxCount = 2
    Folders = {d1}
    Root = Root
    Requests = {r1, r2}
    Sessions = {s1}
    MaxSize = 3
    Chunk = 2
    TTL = 1
    MaxRotations = 1
    MaxFaults = 1
    Accounts = {a1, a2}
    Registered = {a1}
    MaxLoops = 2
    MaxManagers = 3
SPECIFICATION RequestsSpec
INVARIANTS RequestsTypes WindowBound OverrunBound UploadsConfined SentInOrder RotationHeals LoopsKnown
CHECK_DEADLOCK FALSE
