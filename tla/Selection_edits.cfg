SPECIFICATION Spec
CONSTANTS
    TRACKS = 3
    Album <- TwoAlbums
    ShuffleModes = {"off", "albums", "random"}
    RepeatModes = {"off", "all"}
    AHEAD = 2
    PLAYQUEUE_SIZE = 2
    UserActs = {"play", "next", "prev", "current", "random", "stop", "queue", "repeat", "shuffle", "delete", "insert", "stop after", "random album", "next album", "prev album"}
    RESET = TRUE
    BUDGET = 3
INVARIANTS
    TypeOK
    FallbackInPlaylist
PROPERTIES
    AlbumsStayTogether
    DeletedNotStreamed
CHECK_DEADLOCK FALSE
