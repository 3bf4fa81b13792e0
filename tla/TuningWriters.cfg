SPECIFICATION Spec
CONSTANTS
    u = u
    s = s
    p1 = p1
    p2 = p2
    Absent = Absent
    NoProc = NoProc
    Apps <- MCApps
    Procs <- MCProcs
    Defaults <- MCDefaults
    Edits <- MCEdits
    Knobs <- MCKnobs
    InitFiles <- MCInitFiles
    InitClusters <- MCInitClusters
    MaxCommands = 3
SYMMETRY MCSymmetry
INVARIANTS
    TypeOK
    SetTakesEffect
    RemovalTakesEffect
    BackRecorded
    OthersKept
    NothingZero
