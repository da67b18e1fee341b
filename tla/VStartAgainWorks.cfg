SPECIFICATION FairSpec
CONSTANTS
    Count = 5
    Once = {3, 5}
    Needs <- MCNeeds
    Procs = {p1}
    MaxCrashes = 1
    MaxFaults = 0
PROPERTIES StartAgainWorks
CHECK_DEADLOCK FALSE
