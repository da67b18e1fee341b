SPECIFICATION FairSpec
CONSTANTS
    mover = mover
    named = named
    haos = haos
    proxy = proxy
    lan = lan
    client = client
    agent = agent
    Blank = Blank
    Principals <- MCPrincipals
    Agents <- MCAgents
    Ips <- MCIps
    Rows <- MCRows
    Ledgers <- MCLedgers
    NoUser = NoUser
    NoAddr = NoAddr
    Users <- MCUsers
    Movers <- MCMovers
    Addrs <- MCAddrs
    Envs <- MCEnvs
    Requests <- MCRequests
    Callers = {c1, c2}
    Keep = 2
    KeepNone = 1
    Timeout = 1
INVARIANTS
    TypeOK
    GrantIsRecent
    DenialIsEarned
PROPERTIES
    
    EveryoneAnswered
