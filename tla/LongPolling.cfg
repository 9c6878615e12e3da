SPECIFICATION Spec
CONSTANTS
    Chan = {c1}
    Request = {b1}
    Listener = listener
    Free = free
    LoadsUnsubscribed = TRUE
    Line = {m1}
    RedisMayFail = TRUE
    ClearsUnheard = FALSE
    OpensSilently = FALSE
    MaxEnd = 3
    MaxQueue = 1
    Mvc = FALSE
    Network = "lossy"
    INIT_LOG_LINES = 1
    UPDATE_LOG_LINES = 1
    OLD_LOG_LINES = 1
INVARIANTS TypeOK NoGap
PROPERTIES RetriesSurvive NotificationSpec
CHECK_DEADLOCK FALSE
