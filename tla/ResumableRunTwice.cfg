SPECIFICATION Spec
CONSTANTS
    p1 = p1  p2 = p2
    Programs = {p1, p2}
    Scores = {0, 1, 2}
    MaxRounds = 2
    MaxAttempts = 2
INVARIANT
    SealedTouchedOnce
CHECK_DEADLOCK FALSE
