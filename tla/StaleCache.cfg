SPECIFICATION Spec
CONSTANTS
    Chan = {c1}
    Request = {r1}
    Listener = listener
    Free = free
    LoadsUnsubscribed = FALSE
    Line = {m1}
    RedisMayFail = FALSE
    ClearsUnheard = FALSE
    OpensSilently = FALSE
    MaxEnd = 3
    MaxQueue = 3
INVARIANTS Coherent
CHECK_DEADLOCK FALSE
