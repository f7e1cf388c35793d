CONSTANTS
    Folders = {a, b, c}
    Root = Root
    Movers = {m1, m2}
    Keepers = {}
SPECIFICATION Spec
INVARIANTS TreeAcyclic
