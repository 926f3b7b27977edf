SPECIFICATION FairSpec
CONSTANTS
    Conns = {c1, c2}
    Ids = {k1}
    Streams = {s0, s1}
    None = None
PROPERTIES
    DesertedSessionCloses
    StoppedLaneEnds
