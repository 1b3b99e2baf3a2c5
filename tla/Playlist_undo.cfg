SPECIFICATION Spec
CONSTANTS
    t1 = t1
    t2 = t2
    t3 = t3
    t4 = t4
    t5 = t5
    A = A
    B = B
    T = T
    NULL = NULL
    Items = {t1, t2, t3, t4, t5}
    Lists = {A, B}
    Incoming = T
    Initial <- ThreeInOne
    CLI_FILES = 1
    WAITS = TRUE
    UserActs = {"delete", "crop", "clear", "move", "copy", "sort", "add", "command_line", "switch", "undo"}
    BUDGET = 2
INVARIANTS
    TypeOK
    ListsSound
    RefsBalanced
    CallsFit
PROPERTIES
    UndoRestores
CHECK_DEADLOCK FALSE
