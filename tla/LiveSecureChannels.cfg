SPECIFICATION LiveSpec
CONSTANTS
    c1 = c1
    c2 = c2
    h1 = h1
    h2 = h2
    h3 = h3
    s1 = s1
    s2 = s2
    NULL = NULL
    StackChannel = StackChannel
    Conns <- TwoConns
    Channels <- TwoChannels
    Sessions <- OneSession
    MaxChannelCount = 1
    MaxSessionCount = 1
    MaxChannelLifetime = 1
    MaxSessionLifetime = 1
    MaxToken = 3
    Conforming = TRUE
    SendFails = TRUE
PROPERTIES
    LeftoversAreFreed
