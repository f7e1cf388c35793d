\* Every operation with one folder, one request and crashes on two files; two requests at once on
\* three files, versions and messages; and the same with crashes on two.  The instance stops when
\* its identifiers are used up.
CONSTANTS
    Root = Root
    NoName = NoName
    NoId = NoId
    Names = {n1}
    Folders = {d1}
    Movers = {}
    Keepers = {k1}
    Files = {f1, f2, f3}
    Versions = {v1, v2, v3}
    Messages = {m1, m2, m3}
    Workers = {w1, w2}
    Uploaders = {w1, w2}
    Versioners = {w1, w2}
    Ops = {"trash", "restore", "rename", "copy", "purge", "finish", "move", "restoreVersion", "deleteVersion", "trashFolder", "restoreFolder", "purgeFolder", "empty", "crash"}
    FewFiles = 2
    FewVersions = 1
    FewMessages = {m1}
    FewWorkers = {w1}
SPECIFICATION CatalogSpec
INVARIANTS RowsResolve ObjectsStay
CHECK_DEADLOCK FALSE
