SPECIFICATION Spec
CONSTANTS
    c1 = c1
    c2 = c2
    h1 = h1
    h2 = h2
    h3 = h3
    s1 = s1
    s2 = s2
    NULL = NULL
    StackChannel = StackChannel
    Conns <- TwoConns
    Channels <- ThreeChannels
    Sessions <- TwoSessions
    MaxChannelCount = 2
    MaxSessionCount = 1
    MaxChannelLifetime = 1
    MaxSessionLifetime = 1
    MaxToken = 4
    Conforming = TRUE
    SendFails = TRUE
SYMMETRY Symmetry
INVARIANTS
    TypeOK
    ListedSessionsPointBack
    ConnectionHasItsChannel
    LinksAreMutual
    CountsMatch
    TokensAreUnique
PROPERTIES
    ChangesAreInStep
