SPECIFICATION Spec
CONSTANTS
    Conns = {c1, c2, c3}
    Hellos <- AnyHello
    None = None
    MaxStreams = 2
    QueueSize = 2
    StripeSize = 2
    MaxPackets = 3
SYMMETRY Symmetry
INVARIANTS
    TypeOK
    LegacyBacklogOnOneLane
PROPERTIES
    LegacyInOrderWhileOpen
    DownlinkPlacement
