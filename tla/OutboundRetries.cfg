SPECIFICATION OutboundFair
CONSTANTS
    k1 = k1  k2 = k2
    Conns <- MCConns
    Loads <- Chat
    QueueCapacity = 3
    OutboxCapacity = 1
    SlowHits = 2
    ReliableCapacity = 2
    MaxRetransmits = 2
    MaxPerTick = 2
    SocketWindow = 1
    SocketLimit = 2
PROPERTY RetriedUntilSent
