SPECIFICATION Spec
CONSTANTS
    s1 = s1  s2 = s2
    p1 = p1  p2 = p2  p3 = p3
    NULL = NULL
    Sockets = {s1, s2}
    Packets = {p1, p2, p3}
    Lens <- MCLens
    Word <- SharedWord
    MayBreak = FALSE
INVARIANT SelectedForWriting
CHECK_DEADLOCK FALSE
