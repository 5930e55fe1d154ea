SPECIFICATION Spec

CONSTANTS
    NumSinks = 1
    Durable = {1}
    PublishesMeta = TRUE
    QueueDepth = 1
    BatchSize = 2
    MaxAttempts = 1
    DbMayFail = TRUE
    HighWaterMark = 1
    MaxCrashes = 0
    MaxDisconnects = 1
    MaxCalls = 2
    InitialWal <- WalOnes2

INVARIANTS
    SlotHoldsUndelivered
    OperatorResumeGoesOn
    MetaWritesAccounted

PROPERTIES
    PausedStartsNothing

CHECK_DEADLOCK FALSE
