SPECIFICATION Spec
CONSTANTS
    Tracks = {1, 2, 3}
    Lists = {"A", "B"}
    Rows <- TwoAndOne
    Loaded = {1, 3}
    Fields = {"title", "log"}
    Unsearched = {"log"}
    Properties = {":URI", ":DECODER", ":REPLAYGAIN_TRACKGAIN"}
    Gains = {":REPLAYGAIN_TRACKGAIN"}
    Parts = {"", "a", "ab", "title"}
    Values <- SingleAndMultiple
    Uri <- FileNames
    Texts = {"", "a", "b"}
    InText <- Containing
    INDICES = 2
    BUDGET = 4
INVARIANTS
    TypeOK
    StringsReferenced
    TagsFirst
PROPERTIES
    SearchFinds
CHECK_DEADLOCK FALSE
