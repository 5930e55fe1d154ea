SPECIFICATION FairSpec

CONSTANTS
    Sinks = {1, 2}
    DurableSinks = {1}
    Depth = 1
    MaxAttempts = 2
    WalSenders = 2
    MaxEvents = 2
    MaxEnds = 1
    MaxRefusals = 1
    MaxCalls = 1
    StopsWhileConnecting = FALSE
    FramesHwm = 3
    EventsHwm = 2
    MaxChunk = 2
    PerFrame = 2
    MaxChanges = 6
    Calls = {1, 2, 3}
    Stops = {s1, s2}
    Tables = {1, 2}
    Full = {2}
    Base = 2
    HalfDigits = 2
    MaxIndex = 4
    Daemons = {d1, d2}
    Tools = {t1}
    Overlaps = FALSE
    MaxDeaths = 2
    Requests = {r1, r2}
    MaxStatusChanges = 1
    MaxActs = 1
    Viewers = {v1, v2}
    TailTables = {"a", "b"}
    MaxTail = 3
    MaxViews = 2
    Kept = 2
    NumPushed = 3
    PushBatch = 2
    MaxRequests = 3
    EnumNames = {"Role"}
    ModelNames = {"User", "Post"}
    MaxBlocks = 2
    MaxLines = 2
    Shapes <- ShapesOf
    Texts <- TextsOf
    HarnessCuts <- Cuts
    Declared <- Fields6

INVARIANTS
    NoUseAfterClose
    NoLostWakeup
    NothingDropped
    EventsBounded
    StopFindsStream
    RowsAsWritten
    PrefixRejected
    OrderedAsDelivered
    SlotHasPublication
    FirstsInOrder
    AckedWasProcessed
    TailHasNoGap
    TypesAreHonest

PROPERTIES
    StopReturns
    Reconnects
    StartsServing
    DashboardSettles

CHECK_DEADLOCK FALSE
