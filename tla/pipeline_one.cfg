SPECIFICATION FairSpec
CONSTANTS
    Clicks = {c1, c2}
    Servers = {s1}
    Jobs = {"source", "url", "frontend"}
    Nobody = Nobody
    Cap = 2
    MaxOutput = 1
INVARIANTS TypeOK VerdictLast EveryRunHasAReader
PROPERTIES DeploymentsEnd KeepsPromise
CHECK_DEADLOCK FALSE
