SPECIFICATION FairSpec

CONSTANTS
    NumSinks = 2
    Durable = {}
    PublishesMeta = FALSE
    QueueDepth = 1
    BatchSize = 2
    MaxAttempts = 1
    DbMayFail = FALSE
    HighWaterMark = 1
    MaxCrashes = 1
    MaxDisconnects = 1
    MaxCalls = 0
    InitialWal <- WalMetaLast

PROPERTIES
    EverythingReleased

CHECK_DEADLOCK FALSE
