SPECIFICATION FairSpec
CONSTANTS
    Pids = {p1, p2, p3}
    First = p1
    Requests = {k1}
    NoPid = NoPid
    Patient = TRUE
    PidReuse = TRUE
    MaxCrashes = 1
INVARIANTS TypeOK LastInstanceStanding
PROPERTIES ListenersBecomeManaged GhostsCollected
CHECK_DEADLOCK FALSE
