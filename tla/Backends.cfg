SPECIFICATION PartSpec
CONSTANTS
    g1 = g1  g2 = g2  g3 = g3  g4 = g4
    testA = testA  testB = testB
    w1 = w1  w2 = w2  w3 = w3
    v1 = v1  v2 = v2  v3 = v3
    NoWriter = NoWriter
    NoVersion = NoVersion
    Versions = {v1, v2, v3}
    Runs = {g1, g2, g3, g4}
    Digests = {testA, testB}
    Overlap = FALSE
    Writers = {w1, w2, w3}
    LogKinds = {"wal", "promotion", "registry", "fdr"}
    Budget = 6
    PostTime = 2
    PollTime = 1
    Pause = 1
    MaxRetries = 3
    MaxPods = 3
    MaxSpecs = 3
INVARIANTS
    BackendsTypeOK
    EveryLookPaid
    AcknowledgedStay
    OverrunIsOneExchange
    OnlyUncertainPodsLeak
    EndedInTimeIsSeen
    StaysServed
    AnswersAreWhole
PROPERTIES
    ImplementsCounter
SYMMETRY Symmetry
CHECK_DEADLOCK FALSE
