SPECIFICATION FairSpec
CONSTANTS
    b1 = b1
    b2 = b2
    Batch <- MCBatch
    Record <- MCRecord
    Inputs <- MCInputs
    DeliveryTimeout = 2
    MaxInFlight = 2
    LambdaTimeout = 2
    MaxTicks = 2
    MaxFaults = 2
INVARIANTS
    TypeOK
    NothingForgotten
    LossIsFailed
PROPERTIES
    ImplementsPromise
    EventuallyCommitted
