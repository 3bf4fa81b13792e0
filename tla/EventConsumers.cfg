SPECIFICATION Spec
CONSTANTS
    m1 = m1
    m2 = m2
    m3 = m3
    c1 = c1
    c2 = c2
    u1 = u1
    u2 = u2
    r1 = r1
    r2 = r2
    e1 = e1
    e2 = e2
    e3 = e3
    e4 = e4
    NoUser = NoUser
    Message <- MCMessage
    Consumer <- MCConsumer
    User <- MCUser
    Rule <- MCRule
    Event <- MCEvent
    MaxTrouble = 2
    Alerts = 3
    BatchLimit = 2
    RetryLimit = 2
    MaxVersion = 4
    CallLimit = 2
    Attempts = 3
    MaxErrors = 1
INVARIANTS
    RepeatIsExplained
    AckedIsDone
    ToldIsOwned
    GroupClean
SYMMETRY MCSymmetry
CHECK_DEADLOCK FALSE
