CONSTANTS
    a1 = a1
    a2 = a2
    a3 = a3
    w1 = w1
    w2 = w2
    k1 = k1
    k2 = k2
    b1 = b1
    c1 = c1
    project = project
    other = other
    global = global
    None = None
    Global = global
    Action <- TwoActions
    idempotencyKey <- OwnKeys
    cost <- Costs
    Caller <- TwoCallers
    Scope <- AllScopes
    scopeMatches <- Matches
    Outcome <- Success
    BudgetId = {}
    CircuitId = {}
    Reason = {20, 190}
    LeaseTtl = 0
    MaxControls = 2
    MaxLedger = 3
    MaxQueue = 2
    MaxDeadLetters = 2
    MaxAudit = 7
    MaxTime = 1
    BudgetChoice = {}
    CircuitChoice = {}
SPECIFICATION Spec
ACTION_CONSTRAINT CallersPause
SYMMETRY StopSymmetry
INVARIANT QueueRespectsStops
PROPERTY BlockedActionsStayOut
PROPERTY QueuedRecordsAreKept
PROPERTY AcceptedStopTakesEffect
CHECK_DEADLOCK FALSE
