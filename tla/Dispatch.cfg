\* Three calls, one of them without a deadline, over two runs of the session.
\* The instance stops when its calls and runs are used up.
CONSTANTS
    Calls = {c1, c2, c3}
    Background = {c3}
    MaxRuns = 2
    Nobody = Nobody
SPECIFICATION FairSpec
INVARIANTS TypeOK ExecutedOnce AnsweredIsOver
PROPERTIES SessionServes
CHECK_DEADLOCK FALSE
