SPECIFICATION FairSpec
CONSTANTS
    Chan = {c1}
    Request = {b1}
    Listener = listener
    Free = free
    LoadsUnsubscribed = FALSE
    Line = {m1}
    RedisMayFail = FALSE
    ClearsUnheard = FALSE
    OpensSilently = FALSE
    MaxEnd = 3
    MaxQueue = 1
    Mvc = FALSE
    Network = "reliable"
    INIT_LOG_LINES = 2
    UPDATE_LOG_LINES = 1
    OLD_LOG_LINES = 1

PROPERTIES SettlesAnew
CHECK_DEADLOCK FALSE
