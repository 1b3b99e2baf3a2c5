SPECIFICATION LiveSpec
CONSTANTS
    TRACKS = 2
    Format <- OneFormat
    MayFail = {}
    MayOpen = {1, 2}
    STREAM_MIN = 1
    STREAM_MAX = 1
    RING = 2
    READY = 2
    BUFFERED = 2
    READS = 1
    STALL_WAIT = 3
    RepeatModes = {"off", "all"}
    Requests <- PlayStopSeek
    UserOptions = {"pause"}
    BUDGET = 3
    SeekMayFail = TRUE
    AutoReset = FALSE
INVARIANTS
    EnqueuedHasTrack
    BufferingHoldsOutput
PROPERTIES
    BufferingEnds
    StopObeyed
CHECK_DEADLOCK FALSE
