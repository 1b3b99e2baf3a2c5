SPECIFICATION Spec
CONSTANTS
    TRACKS = 3
    Album <- TwoAlbums
    ShuffleModes = {"off"}
    RepeatModes = {"off"}
    AHEAD = 1
    PLAYQUEUE_SIZE = 1
    UserActs = {"play", "queue", "delete", "next album", "prev album"}
    RESET = FALSE
    BUDGET = 3
INVARIANTS
    EveryRequestAnswered
CHECK_DEADLOCK FALSE
