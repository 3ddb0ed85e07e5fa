SPECIFICATION PartSpec
CONSTANTS
    MaxAttempts = 6
    Patience = 2
    MinGain = 0
    TotalBudget = 6
    MinBudget = 1
    Reserve = 1
    LadderTop = 3
    MaxScore = 2
    Wanted = 2
    FarGap = 0
    Overrun = 1
    MaxCalls = 2
    Phases = 2
    Scores <- MCScores
    Threshold = 2
    Engines <- MCEngines
    WithPool = TRUE
    WithGpu = TRUE
    MaxRounds = 3
    MaxPerRound = 2
    CycleScores <- MCCycleScores
    Targets <- MCTargets
    Margin = 1
    MaxDrop = 2
    MaxTurns = 3
    TreeScores <- MCScores
    TreeGoal = 1
INVARIANTS
    AttestraTypeOK
    StopsWhenStuck
    OverdrawIsOneOverrun
    CertificateOfTheLeader
    ReportsTheCertified
PROPERTIES
    ImplementsAttempt
    BestNeverDrops
CHECK_DEADLOCK FALSE
