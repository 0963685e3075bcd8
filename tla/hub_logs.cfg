SPECIFICATION FairSpec
CONSTANTS
    Reqs = {r1}
    Agents = {a1, a2}
    Streams = {h1, h2}
    Nothing = Nothing
    Cap = 1
    Lines = 1
INVARIANTS TypeOK RegisteredIffOpen EarlyLogsFindAChannel
PROPERTIES StreamsEnd
CHECK_DEADLOCK FALSE
