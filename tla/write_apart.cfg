SPECIFICATION FairSpec
CONSTANTS
    s1 = s1  s2 = s2
    p1 = p1  p2 = p2  p3 = p3
    NULL = NULL
    Sockets = {s1, s2}
    Packets = {p1, p2, p3}
    Lens <- MCLens
    Word <- ApartWords
    MayBreak = TRUE
INVARIANTS TypeOK WireIsAccepted PointersLive PendingWritesWatched
PROPERTIES ImplementsPacketStream EveryWriteFinishes
CHECK_DEADLOCK FALSE
