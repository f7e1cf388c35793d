SPECIFICATION Spec
CONSTANT MaxRuns = 2
INVARIANTS TypeOK BinaryRuns ServiceComesBack
CHECK_DEADLOCK FALSE
