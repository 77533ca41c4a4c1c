SPECIFICATION FairSpec
CONSTANTS
    s1 = s1  s2 = s2
    NULL = NULL
    Sockets = {s1, s2}
    Sent <- MCSent
    Trailing <- MCTrailing
    Base = 2
    MayClose = {s1}
INVARIANTS TypeOK PacketsIntact NothingLost DefaultQueueFree
PROPERTY EveryPacketReturned
CHECK_DEADLOCK FALSE
