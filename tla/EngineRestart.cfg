SPECIFICATION FairSpec

CONSTANTS
    NumSinks = 2
    Durable = {1, 2}
    PublishesMeta = FALSE
    QueueDepth = 2
    BatchSize = 2
    MaxAttempts = 2
    DbMayFail = FALSE
    HighWaterMark = 2
    MaxCrashes = 2
    MaxDisconnects = 0
    MaxCalls = 0
    InitialWal <- WalTwoOne

INVARIANTS
    TypeOK
    SlotHoldsUndelivered
    CheckpointCoversDelivered
    StrictCommitOrder
    SkipsCheckpointed
    BySeqIsWindow

PROPERTIES
    PositionsAdvance
    KeepsPromise
    EverythingReleased

CHECK_DEADLOCK FALSE
