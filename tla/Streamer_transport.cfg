SPECIFICATION LiveSpec
CONSTANTS
    TRACKS = 2
    Format <- OneFormat
    MayFail = {}
    MayOpen = {1, 2}
    STREAM_MIN = 1
    STREAM_MAX = 2
    RING = 3
    READY = 2
    BUFFERED = 2
    READS = 1
    STALL_WAIT = 3
    RepeatModes = {"off"}
    Requests <- Transport
    UserOptions = {"pause", "stop after"}
    BUDGET = 3
    SeekMayFail = FALSE
    AutoReset = TRUE
INVARIANTS
    StreamInOrder
    LastPlayedIsPlaying
PROPERTIES
    EventuallyStops
CHECK_DEADLOCK FALSE
