SPECIFICATION TrustedSpec
CONSTANTS
    u = u
    s = s
    Absent = Absent
    NoApp = NoApp
    Apps <- MCApps
    Defaults <- MCDefaults
    InitFiles <- MCInitFiles
    InitClusters <- MCInitClusters
    Knobs <- MCKnobs
    Scores <- MCScores
    AvailFloor = 1
    PerfFloor = 1
    AllowRequestChange = FALSE
INVARIANTS
    TypeOK
    EndsOnBest
    ReportIsTrue
    LoneTrialUndone
    AlwaysServing
    Consistent
PROPERTIES
    OnlyTouchedMove
    ImplementsTxn
    EventuallyDone
