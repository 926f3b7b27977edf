SPECIFICATION Spec
CONSTANTS
    Conns = {c1, c2, c3}
    Addrs = {a1, a2}
    None = None
    AcceptBacklog = 2
    maxSessions = 2
    maxHandshakes = 1
    canary = TRUE
    canaryMaxSessions = 3
    VlessMode = FALSE
SYMMETRY Symmetry
INVARIANTS
    ServerTypeOK
    CountersExact
    AdmissionBounded
    ConnWGExact
    PeersStayRouted
    CleanDrainCutsNobody
    ServedConnHasSocket
PROPERTIES
    AdmissionStaysClosed
