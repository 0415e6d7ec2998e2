SPECIFICATION PoolFair
CONSTANTS
    k1 = k1  k2 = k2
    Conns <- MCConns
    Scenarios <- MCScenarios
CHECK_DEADLOCK FALSE
INVARIANTS GuardExact AuditedBeforeStop
PROPERTIES HintsGiveWay EventsAreHandled StopReturns
