SPECIFICATION KeptSpec
CONSTANTS
    Chan = {c1}
    Request = {b1}
    Listener = listener
    Free = free
    LoadsUnsubscribed = TRUE
    Line = {m1, m2}
    RedisMayFail = TRUE
    ClearsUnheard = TRUE
    OpensSilently = TRUE
    MaxEnd = 3
    MaxQueue = 1
    Mvc = FALSE
    Network = "lossy"
    INIT_LOG_LINES = 2
    UPDATE_LOG_LINES = 2
    OLD_LOG_LINES = 1
INVARIANTS ShownIsLogged

CHECK_DEADLOCK FALSE
