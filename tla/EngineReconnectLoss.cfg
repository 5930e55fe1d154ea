SPECIFICATION Spec

CONSTANTS
    NumSinks = 2
    Durable = {1, 2}
    PublishesMeta = FALSE
    QueueDepth = 2
    BatchSize = 1
    MaxAttempts = 1
    DbMayFail = FALSE
    HighWaterMark = 1
    MaxCrashes = 0
    MaxDisconnects = 1
    MaxCalls = 0
    InitialWal <- WalOnes4

INVARIANTS
    SlotHoldsUndelivered

CHECK_DEADLOCK FALSE
