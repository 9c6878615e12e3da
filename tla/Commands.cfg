SPECIFICATION FairSpec
CONSTANTS
    Slot = {s1, s2}
    MaxTexts = 2
    MaxTries = 2
    MaxQueue = 2
    MaxTimers = 1
    MaxCrashes = 1
INVARIANTS TypeOK SaidAsEntered SaidInOrder ReconnectReserved
PROPERTIES NothingTypedLost ComesBack
CHECK_DEADLOCK FALSE
