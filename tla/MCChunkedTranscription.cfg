CONSTANTS
    N = 4
    MaxParallel = 2
    RetriesDefault = 3
    RetriesRateLimited = 5
    MaxFileSize = 1
    MaxSingleShot = 1
    MaxDuration = 2
    MaxUnmeasured = 2
    Audios <- MCAudios
SPECIFICATION FairChunkSpec
CHECK_DEADLOCK FALSE
INVARIANTS
    SlotsMatchHolders
    NothingOutlivesReturn
    GapsAreListed
    GivenUpWhenSpent
PROPERTIES
    EveryTranscriptionReturns
