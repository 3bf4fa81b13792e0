SPECIFICATION ClockSpec
CONSTANTS
    Budget = 66
    Warmup = 3
    Duration = 9
    Settle = 2
    CostSettle = 7
    Slack = 3
    FirstEstimate = 9
    MaxApply = 50
INVARIANTS
    ClockTypeOK
    EndsInBudget
    RollbackFits
    OverrunBounded
    Funded
