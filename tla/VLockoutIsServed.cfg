SPECIFICATION Spec
CONSTANTS
    Free <- MCFree
    Minute = 2
    Window = 30
    MaxLockout = 120
    Slots = {s1}
    MaxFaults = 0
INVARIANTS
    LockoutIsServed
