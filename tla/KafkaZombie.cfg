SPECIFICATION Spec

CONSTANTS
    NumEvents = 4
    BatchSize = 2
    MaxFaults = 0
    MaxStarts = 3
    Topics <- Tables
    TopicOf <- Alternating
    Settings <- Predecessor

INVARIANTS
    OneCopyEach

CHECK_DEADLOCK FALSE
