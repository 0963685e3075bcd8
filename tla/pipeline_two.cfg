SPECIFICATION FairSpec
CONSTANTS
    Clicks = {c1}
    Servers = {s1, s2}
    Jobs = {"source"}
    Nobody = Nobody
    Cap = 2
    MaxOutput = 1
PROPERTIES DeploymentsEnd
CHECK_DEADLOCK FALSE
