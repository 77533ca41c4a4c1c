SPECIFICATION FairSpec
CONSTANTS
    MAX_MSG_ID = 2
    Pubs = {p1, p2, p3}
    OutQoS = {1, 2}
    InQoS = {0, 1}
    InIds = {1}
    MaxIn = 2
    CallbackResults = {1}
    MaySubscribe = FALSE
    MayLoseConnection = TRUE
PROPERTIES OnlyItsPubackRemoves EveryQueuedMessageDelivered EveryPublishAcknowledged
CHECK_DEADLOCK FALSE
