SPECIFICATION Spec
CONSTANTS
    live1 = live1
    live2 = live2
    back1 = back1
    Jobs <- MCJobs
    ClassOf <- MCClassOf
    Segments <- MCSegments
    LiveSlots = 1
    BackgroundSlots = 1
    FalseStartFrames = 2
    MaxAttempts = 2
    MaxGenLen <- MCMaxGenLen
    FramesAfterEos = 1
INVARIANTS
    CountersExact
    NothingLeftQueued
    HeardInOrder
PROPERTIES
    EveryReadingEnds
\* Once every reading of the instance has ended the engine blocks in recv.
CHECK_DEADLOCK FALSE
