\* The copy an upload replaces.
CONSTANTS
    Root = Root
    Movers = {}
    NoName = NoName
    NoId = NoId
    Folders = {}
    Keepers = {}
    Messages = {m1, m2}
    Names = {n1}
    Files = {f1, f2}
    Versions = {v1}
    Workers = {w1}
    Uploaders = {w1}
    Versioners = {}
    Ops = {"finish"}
SPECIFICATION Spec
INVARIANTS ReplacedCopyKept
CHECK_DEADLOCK FALSE
