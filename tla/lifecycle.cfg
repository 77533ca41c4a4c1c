SPECIFICATION FairSpec
CONSTANTS
    Clients = {"c1", "c2"}
    Run = "run"
INVARIANTS TypeOK NothingFreedIsUsed ListsAreClients
PROPERTY CallsReturn
CHECK_DEADLOCK FALSE
