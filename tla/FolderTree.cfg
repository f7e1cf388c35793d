\* One folder move at a time, one trash, restore, purge or empty request beside it.
CONSTANTS
    Folders = {a, b, c}
    Root = Root
    Movers = {m1}
    Keepers = {k1}
SPECIFICATION FairSpec
INVARIANTS ParentsExist TreeAcyclic
PROPERTIES RequestsEnd
