SPECIFICATION LifecycleFair
CONSTANTS
    k1 = k1  k2 = k2  u1 = u1  u2 = u2  h1 = h1  t1 = t1
    Conns <- MCConns
    Users <- MCUsers
    Hubs = {h1}
    TextChannels = {t1}
    NoPlace = NoPlace
    Limits = {0, 1}
    SessionIds = {1, 2, 3, 4, 5}
    Configs <- MCConfigs
CHECK_DEADLOCK FALSE
INVARIANTS SessionsCoherent LimitHeld
PROPERTIES ClosedIsForgotten 
