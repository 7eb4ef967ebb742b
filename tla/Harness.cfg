SPECIFICATION Spec
CONSTANTS
    Quiet = Quiet
    AnyStatus = AnyStatus
    MaxLine = 4
    MaxMain = 1
    MaxLetters = 5
    MaxLines = 1
    Jobs = 2
    FDs = {3, 4, 5, 6, 7, 8, 9}
    Deadline = 6
    Drain = 2
    Lag = 1
    BlobLens = {1, 65536}
    BlobOffsets = {65520, 74565}
    MAX_MEMORIES = 16
    MAX_IOMEMORIES = 8
    MAX_HANDLES = 16
CHECK_DEADLOCK FALSE
INVARIANTS ConsoleIsItsOwn SmokeIsTruth TranscriptIsJudged RegionsAsPublished TableIsSound
PROPERTIES EveryStageEnds ReportsEveryWord
