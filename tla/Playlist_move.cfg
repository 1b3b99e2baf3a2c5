SPECIFICATION Spec
CONSTANTS
    t1 = t1
    t2 = t2
    t3 = t3
    t4 = t4
    t5 = t5
    A = A
    B = B
    T = T
    NULL = NULL
    Items = {t1, t2, t3, t4}
    Lists = {A}
    Incoming = T
    Initial <- FourInOne
    CLI_FILES = 1
    WAITS = TRUE
    UserActs = {"move"}
    BUDGET = 1
INVARIANTS
    MovedAsAsked
CHECK_DEADLOCK FALSE
