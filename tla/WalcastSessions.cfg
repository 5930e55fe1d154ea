SPECIFICATION FairSpec

CONSTANTS
    NumEvents = 3
    EmptyCommits = {8}
    WalEnd = 10
    AcksAgain = FALSE
    MaxInFlight = 2
    MaxEnds = 1
    Lsn <- Lsns
    Commit <- CommitsOf

INVARIANTS
    TypeOK
    NothingUnackedReleased
    OutstandingIsTail
    DrainedIsReleased

PROPERTIES
    SlotReachesEnd

