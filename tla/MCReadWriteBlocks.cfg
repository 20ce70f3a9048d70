SPECIFICATION ReadWriteSpec
CONSTANTS
    r1 = r1
    w1 = w1
    w2 = w2
    Other = Other
    Readers = {r1}
    Writers = {w1, w2}
    Values = {1, 2}
INVARIANTS
    OutIsAValueOfTheNode
    NoClientIsLeaked
PROPERTY
    RequestsAreConfirmed
CHECK_DEADLOCK FALSE
