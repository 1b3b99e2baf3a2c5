SPECIFICATION LiveSpec
CONSTANTS
    TRACKS = 3
    Album <- TwoAlbums
    ShuffleModes = {"off", "tracks"}
    RepeatModes = {"off", "all"}
    AHEAD = 1
    PLAYQUEUE_SIZE = 2
    UserActs = {"play", "next", "queue", "shuffle", "repeat", "stop after"}
    RESET = FALSE
    BUDGET = 3
PROPERTIES
    PlaybackEnds
    EveryTrackHeard
    QueueServed
    StopAfterObeyed
CHECK_DEADLOCK FALSE
