SPECIFICATION FairSpec
CONSTANTS
    MaxConnects = 2
    RunThreads = {"run", "run2"}
INVARIANTS TypeOK SuccessBeforeFailure ConnectOnceAfterTcp
PROPERTY ConnectReturns
CHECK_DEADLOCK FALSE
