CONSTANTS
    t1 = t1
    t2 = t2
    t3 = t3
    p1 = p1
    p2 = p2
    None = None
    Task <- ThreeTasks
    Process <- TwoProcesses
    procOf <- TaskProcess
    MaxRetries = 1
    MaxWrites = 1
    Mortal = {p1}
    StaleAllowed = FALSE
    CleanupFails = TRUE
SPECIFICATION Spec
INVARIANT NoLostUpdate
CHECK_DEADLOCK FALSE
