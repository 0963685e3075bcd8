SPECIFICATION Spec
CONSTANTS
    Pids = {p1, p2, p3}
    First = p1
    Requests = {k1, k2}
    NoPid = NoPid
    Patient = FALSE
    PidReuse = FALSE
    MaxCrashes = 0
INVARIANT LastInstanceStanding
CHECK_DEADLOCK FALSE
