SPECIFICATION Spec
CONSTANTS
    MAX_MESSAGES = 3
    Thread = {A, B}
    Kinds = {"plain", "event", "terminate"}
    BUDGET = 5
INVARIANTS
    PoolDivided
    EventsAccounted
PROPERTIES FifoSpec
CHECK_DEADLOCK FALSE
