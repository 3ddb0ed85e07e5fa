SPECIFICATION EngineSpec
CONSTANTS
    p1 = p1  p2 = p2
    a1 = a1  a2 = a2  a3 = a3  a4 = a4  a5 = a5
    Programs = {p1, p2}
    Scores = {0, 1, 2}
    MaxRounds = 4
    MaxAttempts = 4
    Arms = {a1, a2, a3, a4, a5}
    FullData = 4
    LeastData = 1
    Eta = 2
    Workers = 2
    ArmScores = {0, 1, 4}
    MaxGoalRuns = 3
    BrainRounds = 3
    MaxExperiments = {1, 3, 6}
    MaxFamily = 2
    ValScores = {0, 1, 2, 3, 4, 5}
    Bar = 3
    StopMargin = 1
INVARIANTS
    EnginesTypeOK
    WinnerIsChampion
    KillIsAdmissible
    ServedIsCertified
    MovesOnce
    LabelsAskedWhenExhausted
PROPERTIES
    ResumesTheSearch
SYMMETRY Symmetry
CHECK_DEADLOCK FALSE
