SPECIFICATION Spec
CONSTANTS
    m1 = m1  m2 = m2  m3 = m3  base = base
    f0 = f0  f1 = f1  f2 = f2
    Moves = {m1, m2, m3}
    Grid = {m1, m2}
    Baseline = base
    Family <- MCFamily
    Size <- MCSize
    Scores = {1, 2}
    Candidates <- MCCandidates
    MaxBound = 2
    Theta = 1
    StopMargin = 1
    MaxRounds = 3
    Budget = 5
    PerRoundExec = 2
    KNoImprove = 2
    MaxCost = 1
    MoveCosts = {1}
    MaxAcquire = 0
    MaxAuthored = 2
INVARIANTS
    TypeOK
    CertificateSound
    NoWastedPeek
    CancelNeverPeeks
    OvershootIsOneMove
PROPERTIES
    KeepsSearching
CHECK_DEADLOCK FALSE
