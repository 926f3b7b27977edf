SPECIFICATION Spec
CONSTANTS
    Conns = {c1, c2, c3}
    Ids = {k1}
    Streams = {s0, s1}
    None = None
SYMMETRY Symmetry
INVARIANTS
    TypeOK
    LiveSessionIsRegistered
    RegistryForgetsClosed
    NoLaneOutlivesSession
    OpenLaneHoldsItsSlot
