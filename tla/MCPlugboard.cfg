SPECIFICATION Spec
CONSTANTS
    Known <- MCKnown
    Devices = {"phone", "guest1", "guest2"}
    TTL = 1
    PERIOD = 2
    INFO = 3
    HBEAT = 1
    DELAY = 4
    ONCE = 1
    None = None
CHECK_DEADLOCK FALSE
INVARIANTS
    TypeOK
    MissedMovesUp
    GoneIsReported
    KnownIsTracked
