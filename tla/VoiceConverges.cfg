SPECIFICATION FairSpec
CONSTANTS
    c1 = c1  c2 = c2  u1 = u1  u2 = u2
    Users <- MCUsers
    Channels <- MCChannels
    Sessions = {1, 2}
    Nonces = {1, 2, 3}
    MissingTTL = 1
    MaxHooks = 2
    Scenarios <- LossyNetwork
CHECK_DEADLOCK FALSE
PROPERTY Convergence
