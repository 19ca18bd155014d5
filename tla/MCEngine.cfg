CONSTANTS
    Layers = 2
    MinGrowth = 2
    MaxColumns = 32
    MaxIds = 3
    MaxTorn = 1
    Texts <- MCTexts
    Voices <- MCVoices
    Modulus = 5
    UpStride = 2
    Context = 3
    Latents = {0, 1, 2}
    SampleFrames <- MCSampleFrames
    MaxFrames = 4
    Seanets <- MCSeanets
    Markers = {"none", "pause"}
    MarkerMs <- MCMarkerMs
    MarkerBytes <- MCMarkerBytes
    MaxTokens = 2
    WordsPerBatch = 2
    MaxText = 5
    Recordings <- MCRecordings
    Prompts <- MCPrompts
    Exports <- MCExports
    FrameSamples = 2
    IntBits = 4
    Small = 2
    Middle = 5
    Large = 9
SPECIFICATION EngineSpec
CHECK_DEADLOCK FALSE
INVARIANTS
    TypeOK
    ColumnsInBounds
    RowsReadTheirOwn
    StreamedIsWhole
    NothingSpokenTwice
    ChunksWithinLimit
    LoadedVoice
PROPERTIES
    DeafOnceTorn
    ReadsAsAlone
