SPECIFICATION Spec
CONSTANTS
    Users = {u1, u2}
    Threads = {t1, t2}
    Nodes = {n1, n2}
    Host = n1
    NoKey = NoKey
    NoThread = NoThread
    NoMaster = NoMaster
    KeyringSize = 2
    t1 = t1
    t2 = t2
    m1 = m1
    m2 = m2
    Configs <- MCConfigs
SYMMETRY Alike
CHECK_DEADLOCK FALSE
INVARIANTS
    MembersHoldLiveKey
    StoredKeyIsLive
    
    StoredBeforeSent
