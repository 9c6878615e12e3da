SPECIFICATION Spec
CONSTANTS
    Chan = {c1}
    Request = {r1, r2}
    Listener = listener
    Free = free
    LoadsUnsubscribed = TRUE
    Line = {m1}
    RedisMayFail = TRUE
    ClearsUnheard = TRUE
    OpensSilently = TRUE
    MaxEnd = 2
    MaxQueue = 2
INVARIANTS TypeOK NoLostWakeup EventsOfWaiters
PROPERTIES NoChangeIsTrue
SYMMETRY RequestSymmetry
CHECK_DEADLOCK FALSE
