CONSTANTS
    t1 = t1
    t2 = t2
    t3 = t3
    p1 = p1
    p2 = p2
    None = None
    Task <- ThreeTasks
    Process <- TwoProcesses
    procOf <- TaskProcess
    MaxRetries = 2
    MaxWrites = 1
    Mortal = {p2}
    StaleAllowed = FALSE
    CleanupFails = FALSE
SPECIFICATION FairSpec
INVARIANT NoLostUpdate
PROPERTY CallsReturn
CHECK_DEADLOCK FALSE
