SPECIFICATION FairSpec
CONSTANTS
    Conns = {c1, c2}
    Addrs = {a1, a2}
    None = None
    AcceptBacklog = 2
    maxSessions = 2
    maxHandshakes = 1
    canary = FALSE
    canaryMaxSessions = 0
    VlessMode = FALSE
PROPERTIES
    ShutdownCompletes
