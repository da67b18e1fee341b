SPECIFICATION FairBootSpec
CONSTANTS
    Count = 4
    Once = {3, 4}
    Needs <- MCNeeds
    Procs = {p1, p2}
    Server = p1
    MaxCrashes = 1
    MaxFaults = 1
    MaxSlips = 1
INVARIANTS
    BootTypeOK
    LedgerIsHonest
    UpIsWhole
    StuckOnlyIfTold
PROPERTIES
    ComesUp
CHECK_DEADLOCK FALSE
