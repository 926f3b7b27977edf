SPECIFICATION Spec
CONSTANTS
    Conns = {c1, c2}
    Hellos <- LegacyHello
    None = None
    MaxStreams = 2
    QueueSize = 2
    StripeSize = 2
    MaxPackets = 3
INVARIANTS
    LegacyDownlinkInOrder
