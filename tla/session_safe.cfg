SPECIFICATION Spec
CONSTANTS
    MAX_MSG_ID = 3
    Pubs = {p1, p2, p3}
    OutQoS = {0, 1}
    InQoS = {0, 1, 2}
    InIds = {1}
    MaxIn = 2
    CallbackResults = {0, 1}
    MaySubscribe = TRUE
    MayLoseConnection = TRUE
SYMMETRY PubSymmetry
INVARIANTS TypeOK InFlightIdsUnique SearchTerminates PendingWriteBuffersLive AckAccounting
    PublicationsExact InboundAckAccounting DeliveredInOrder
