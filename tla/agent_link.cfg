SPECIFICATION Spec
CONSTANTS
    s1 = s1
    r1 = r1
    r2 = r2
    Sessions = {s1}
    Requests = {r1, r2}
    Loads = {{s1}, {r1, r2}}
    MaxConns = 2
    MaxKeys = 1
    MaxMessages = 1
    Builds = {TRUE, FALSE}
INVARIANTS TypeOK SessionsReleased
PROPERTIES ShownInOrder LeftTerminalsClose MessagesPassedOn KeepsPromise
CHECK_DEADLOCK FALSE
