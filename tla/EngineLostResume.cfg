SPECIFICATION Spec

CONSTANTS
    NumSinks = 1
    Durable = {1}
    PublishesMeta = FALSE
    QueueDepth = 1
    BatchSize = 2
    MaxAttempts = 1
    DbMayFail = FALSE
    HighWaterMark = 1
    MaxCrashes = 0
    MaxDisconnects = 0
    MaxCalls = 1
    InitialWal <- WalOnes

INVARIANTS
    ResumedSinkGoesOn

CHECK_DEADLOCK FALSE
