SPECIFICATION Spec
CONSTANTS
    u = u
    s = s
    Absent = Absent
    NoApp = NoApp
    Apps <- MCApps
    Defaults <- MCDefaults
    InitFiles <- MCInitFiles
    InitClusters <- MCInitClusters
    Knobs <- MCKnobs
    Scores <- MCScores
    AvailFloor = 1
    PerfFloor = 1
    AllowRequestChange = FALSE
INVARIANT
    InterruptRestores
