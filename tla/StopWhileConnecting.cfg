SPECIFICATION ShutdownFairSpec

CONSTANTS
    Sinks = {1, 2}
    DurableSinks = {1}
    Depth = 1
    MaxAttempts = 2
    WalSenders = 2
    MaxEvents = 2
    MaxEnds = 1
    MaxRefusals = 1
    MaxCalls = 1
    StopsWhileConnecting = TRUE

PROPERTIES
    StopReturns

CHECK_DEADLOCK FALSE
