SPECIFICATION Spec
CONSTANTS
    Passphrases = {"env", "old", "short"}
    Env = "env"
    NoPassphrase = ""
    Long = {"env", "old"}
    Requests = {r1, r2}
    MaxSessions = 2
    MaxChanges = 2
    MaxFaults = 1
SYMMETRY Symmetry
INVARIANTS
    TypeOK
    OpenedByItsLock
    SignedOutStaysOut
