SPECIFICATION FairSpec
CONSTANTS
    Legacy = {"l1", "l0"}
    Newest = "l1"
    Modern = {"m1"}
    Foreign = {"f1"}
    NoVersion = "no version"
    Tools = {"tool"}
    NoTool = "no tool"
    Clients <- MCClients
    Kind <- MCKind
    Speaks <- MCSpeaks
    First <- MCFirst
    Fallback <- MCFallback
    Odd <- MCOdd
    Principal <- MCPrincipal
    Spared <- MCSpared
    MaxSeen = 2
    CallsCap = 1
    ConnCap = 1
    MaxCalls = 1
    MaxOdd = 1
    MaxTroubles = 1
INVARIANTS
    TypeOK
    HandshakeIsSound
    LedgersAgree
PROPERTIES
    EveryClientSettles
CHECK_DEADLOCK FALSE
