SPECIFICATION Spec

CONSTANTS
    NumEvents = 3
    EmptyCommits = {8}
    WalEnd = 10
    AcksAgain = TRUE
    MaxInFlight = 2
    MaxEnds = 0
    Lsn <- Lsns
    Commit <- CommitsOf

INVARIANTS
    NothingUnackedReleased

