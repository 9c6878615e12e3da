SPECIFICATION Spec
CONSTANTS
    Chan = {c1, c2}
    NoTab = notab
    Gone = gone
    MaxLines = 3
    MaxPulls = 2
    INIT_LOG_LINES = 1
    UPDATE_LOG_LINES = 1
    OLD_LOG_LINES = 2
INVARIANTS TypeOK ActiveIsTab WindowOfLog
PROPERTIES DoublesOne TopicsAdvance StopsOnlyTabless
CHECK_DEADLOCK FALSE
SYMMETRY ChanSymmetry
