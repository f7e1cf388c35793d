\* A background call whose session ends before the task is taken.
CONSTANTS
    Calls = {c1}
    Background = {c1}
    MaxRuns = 1
    Nobody = Nobody
SPECIFICATION FairSpec
PROPERTIES DoReturns
CHECK_DEADLOCK FALSE
