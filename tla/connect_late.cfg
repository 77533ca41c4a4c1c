SPECIFICATION Spec
CONSTANTS
    MaxConnects = 2
    RunThreads = {"run", "run2"}
INVARIANT SuccessMeansConnack
CHECK_DEADLOCK FALSE
