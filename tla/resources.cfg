SPECIFICATION Spec
CONSTANTS
    a1 = a1
    a2 = a2
    k1 = k1
    k2 = k2
    NoConn = NoConn
    Agents = {a1}
    MaxStreams = 3
    Conns = {k1, k2}
    Caps = {1, 2, 4}
    Growth <- Doubling
    MaxLosses = 1
INVARIANTS TypeOK ListExact RegistryCurrent WatchedReport
PROPERTIES NewsShown
CHECK_DEADLOCK FALSE
