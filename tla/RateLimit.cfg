SPECIFICATION FairSpec
CONSTANTS
    Free <- MCFree
    Minute = 2
    Window = 30
    MaxLockout = 120
    Slots = {s1, s2}
    MaxFaults = 1
INVARIANTS
    TypeOK
    GuessesBounded
PROPERTIES
    HoldEnds
