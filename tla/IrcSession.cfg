SPECIFICATION Spec
CONSTANTS
    Chan = {c1}
    Nick = {n1, n2, spare}
    Spare = spare
    Mine = n1
    NoNick = none
    MaxIn = 2
    MaxOut = 3
    MaxBefore = 0
INVARIANTS TypeOK NicknameKnown MembersKnown JoinsAgain Registered
CHECK_DEADLOCK FALSE
