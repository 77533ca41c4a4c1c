SPECIFICATION Spec
CONSTANTS
    s1 = s1  s2 = s2
    NULL = NULL
    Sockets = {s1, s2}
    Sent <- MCSent
    Trailing <- NoTrailing
    Base = 2
    MayClose = {s1}
INVARIANT OwnDataRetrieved
CHECK_DEADLOCK FALSE
