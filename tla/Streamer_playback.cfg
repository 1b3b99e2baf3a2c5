SPECIFICATION LiveSpec
CONSTANTS
    TRACKS = 3
    Format <- TwoFormats
    MayFail = {2, 3}
    MayOpen = {1, 2, 3}
    STREAM_MIN = 1
    STREAM_MAX = 2
    RING = 3
    READY = 2
    BUFFERED = 2
    READS = 2
    STALL_WAIT = 3
    RepeatModes = {"off", "all"}
    Requests <- PlayFirst
    UserOptions = {}
    BUDGET = 1
    SeekMayFail = FALSE
    AutoReset = FALSE
INVARIANTS
    TypeOK
    StreamInOrder
    HeardAttributed
PROPERTIES
    EventuallyStops
    KeepsPlaying
CHECK_DEADLOCK FALSE
