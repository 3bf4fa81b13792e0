SPECIFICATION FairSpec
CONSTANTS
    h1 = h1
    h2 = h2
    r1 = r1
    r2 = r2
    NoRun = NoRun
    Handlers <- MCHandlers
    Runs <- MCRuns
    Workers = 1
PROPERTY
    LoadsEnd
