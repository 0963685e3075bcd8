SPECIFICATION Spec
CONSTANTS
    p1 = p1
    p2 = p2
    p3 = p3
    NoPid = NoPid
    Pids = {p1, p2, p3}
    MaxDeploys = 3
    MaxCrashes = 2
    MaxOthers = 1
INVARIANTS TypeOK ChildrenTracked OneChild
PROPERTIES DeploymentsEnd
CHECK_DEADLOCK FALSE
