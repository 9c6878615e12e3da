SPECIFICATION Spec
CONSTANTS
    Chan = {c1, c2}
    Line = {m1, m2}
    RedisMayFail = TRUE
    ClearsUnheard = TRUE
    OpensSilently = TRUE
    MaxEnd = 2
    MaxQueue = 1
INVARIANTS TypeOK NoHole WriterAhead
PROPERTIES AnnouncedIsReadable FeedSpec
CHECK_DEADLOCK FALSE
