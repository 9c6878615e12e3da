SPECIFICATION FairSpec
CONSTANTS
    Chan = {c1}
    Request = {b1}
    Listener = listener
    Free = free
    LoadsUnsubscribed = FALSE
    Line = {m1}
    RedisMayFail = FALSE
    ClearsUnheard = FALSE
    OpensSilently = FALSE
    MaxEnd = 3
    MaxQueue = 2
    Mvc = FALSE
    Network = "lossy"
    INIT_LOG_LINES = 2
    UPDATE_LOG_LINES = 1
    OLD_LOG_LINES = 1
INVARIANTS CoherentButFirstLine OpenIsJoined
PROPERTIES NewestIsShown Settles
CHECK_DEADLOCK FALSE
