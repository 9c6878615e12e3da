SPECIFICATION Spec
CONSTANTS
    Chan = {c1}
    Request = {b1}
    Listener = listener
    Free = free
    LoadsUnsubscribed = FALSE
    Line = {m1}
    RedisMayFail = FALSE
    ClearsUnheard = FALSE
    OpensSilently = FALSE
    MaxEnd = 2
    MaxQueue = 1
    Mvc = TRUE
    Network = "lossy"
    INIT_LOG_LINES = 2
    UPDATE_LOG_LINES = 1
    OLD_LOG_LINES = 1

PROPERTIES RetriesSurvive
CHECK_DEADLOCK FALSE
