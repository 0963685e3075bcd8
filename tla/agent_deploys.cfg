SPECIFICATION Spec
CONSTANTS
    a1 = a1
    a2 = a2
    v1 = v1
    v2 = v2
    Agents = {a1, a2}
    Versions = {v1, v2}
    Orders <- Together
    Keep = 2
    MaxDownloads = 3
    MaxCrashes = 1
    MaxFaults = 1
INVARIANTS TypeOK FinalNamesWhole
PROPERTIES GoodCopyKept
CHECK_DEADLOCK FALSE
