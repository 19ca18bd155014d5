CONSTANTS
    Sentences = 2
    MaxFrames = 3
    Keep = 1
    Room = 1
    Calls = {c1, c2}
    varied = c1
    MaxConcurrent = 1
    Streams <- MCStreams
    FirstPiece = 2
    MaxPiece = 4
    Buffer = 4
    HeadBytes = 2
SPECIFICATION MCSpec
CHECK_DEADLOCK FALSE
INVARIANTS
    ReadingsTypeOK
    HeardAsSaid
    SlotsMatchRequests
    PiecesAreWhole
PROPERTIES
    StayingHearsAll
    LeavingFreesTheReading
    EveryCallReturns
