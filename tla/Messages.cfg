SPECIFICATION Spec
CONSTANTS
    Pools <- TwoPools
    Idempotent <- ReadPool
    Slots = {1}
    NoSlot = NoSlot
    Workers = {w1, w2}
    Writer = Writer
    Msgs = {m1, m2, m3}
    Clients = {d}
    PageLimit = 1
    MaxRetries = 1
    m1 = m1
    m2 = m2
    m3 = m3
    w1 = w1
    w2 = w2
    MCases <- MCMCases
CHECK_DEADLOCK FALSE
INVARIANTS
    MessagesTypeOK
    PoolConserved
    StoredOnce
    NothingForgotten
    SyncCatchesUp
