SPECIFICATION FairSpec
CONSTANTS
    u = u
    s = s
    Apps <- MCApps
    Usable = 1480
    Alloc = 1930
    Zones = 2
    BaselineNodes = 2
    TargetCaps <- MCCaps
    Targets <- MCTargets
    SearchStep = 200
    Loads <- MCLoads
    Aims <- MCAsMeasured
    InitKnobs <- MCKnobs
    WithRequest = TRUE
    MaxCandidates = 0
PROPERTY
    SizingSettles
