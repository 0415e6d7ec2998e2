SPECIFICATION SubscriptionSpec
CONSTANTS
    k1 = k1  k2 = k2  k3 = k3  t1 = t1  t2 = t2  r1 = r1  r2 = r2
    a1 = a1  a2 = a2  a3 = a3  a4 = a4
    Conns <- MCConns
    Topics <- MCTopics
    Readers <- MCReaders
    Cells <- MCCells
    Null = Null
SYMMETRY Interchangeable
INVARIANTS IndexesAgree
PROPERTY KeepsPromise
