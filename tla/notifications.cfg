CONSTANTS
    Texts <- Patterns
    MaxLen = 3
    LongestText = 8
    long = long
    short = short
    Messages = {long, short}
    Chunks <- MCChunks
    Attempts = 3
    Threads = 2
SPECIFICATION MCSpec
INVARIANTS
    ChunksFit
    InkSurvives
    LinesStayWhole
    BroadcastTypeOK
    SentMeansWhole
PROPERTIES
    ShowsPrefix
    BroadcastEnds
CHECK_DEADLOCK FALSE
