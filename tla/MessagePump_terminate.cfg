SPECIFICATION LiveSpec
CONSTANTS
    MAX_MESSAGES = 2
    Thread = {A}
    Kinds = {"plain", "event", "terminate"}
    BUDGET = 3
PROPERTIES Terminates
CHECK_DEADLOCK FALSE
