SPECIFICATION Spec
CONSTANTS
    Passphrases = {"env", "old", "short"}
    Env = "env"
    NoPassphrase = ""
    Long = {"env", "old"}
    Requests = {r1, r2}
    MaxSessions = 2
    MaxChanges = 2
    MaxFaults = 0
SYMMETRY Symmetry
INVARIANTS SignedOutForGood
