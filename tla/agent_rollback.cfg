SPECIFICATION Spec
CONSTANTS
    a1 = a1
    a2 = a2
    v1 = v1
    v2 = v2
    Agents = {a1, a2}
    Versions = {v1, v2}
    Orders <- Apart
    Keep = 3
    MaxDownloads = 4
    MaxCrashes = 1
    MaxFaults = 0
PROPERTY PartialNeverRuns
CHECK_DEADLOCK FALSE
