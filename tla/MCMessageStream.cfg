SPECIFICATION Spec
CONSTANTS
    short = short
    long = long
    huge = huge
    Messages = {short, long, huge}
    Size <- ThreeSizes
    HeaderSize = 2
    MinSize = 3
    MaxSize = 5
    RecvBufferSize = 6
    PartialSends = FALSE
    NoMemory = TRUE
    MaxSent = 4
INVARIANTS
    DeliveredInOrder
    NothingIsHeldBack
PROPERTY
    IsAQueue
CHECK_DEADLOCK FALSE
