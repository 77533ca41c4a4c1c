SPECIFICATION Spec
CONSTANTS
    MAX_MSG_ID = 2
    Pubs = {p1, p2, p3}
    OutQoS = {1}
    InQoS = {1}
    InIds = {1}
    MaxIn = 0
    CallbackResults = {1}
    MaySubscribe = FALSE
    MayLoseConnection = FALSE
PROPERTY NoneFreeWhenRefused
CHECK_DEADLOCK FALSE
