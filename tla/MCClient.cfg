SPECIFICATION FairSpec
CONSTANTS
    Lifetime = 2
    RenewBefore = 1
    MaxRequests = 8
    MaxTokens = 3
INVARIANTS
    CallsAreDoneOnce
    ConnectedIsInStep
    SocketsAreClosed
PROPERTIES
    EveryCallReturns
