SPECIFICATION Spec
CONSTANTS
    g1 = g1  g2 = g2  g3 = g3  g4 = g4
    testA = testA  testB = testB
    Runs = {g1, g2}
    Digests = {testA}
    Overlap = TRUE
INVARIANT
    EveryLookPaid
CHECK_DEADLOCK FALSE
