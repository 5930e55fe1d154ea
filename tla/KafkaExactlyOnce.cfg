SPECIFICATION FairSpec

CONSTANTS
    NumEvents = 3
    BatchSize = 2
    MaxFaults = 2
    MaxStarts = 2
    Topics <- Tables
    TopicOf <- Alternating
    Settings <- AtMostOne

INVARIANTS
    TypeOK
    ExactlyOnce
    NothingLost

PROPERTIES
    EverythingDelivered

CHECK_DEADLOCK FALSE
