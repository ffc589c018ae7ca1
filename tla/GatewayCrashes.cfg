CONSTANTS
    a1 = a1
    a2 = a2
    i1 = i1
    i2 = i2
    w1 = w1
    w2 = w2
    v1 = v1
    v2 = v2
    global = global
    None = None
    Global = global
    Action <- TwoActions
    ActionId <- TwoIds
    actionId <- Ids
    Caller <- TwoCallers
    idempotencyKey <- Keys
    cost <- Costs
    worldId <- InFirstWorld
    expiresAt <- NeverExpires
    scopeMatches <- GlobalMatches
    Outcome <- Outcomes
    World = {v1}
    Scope = {global}
    BudgetId = {}
    BudgetChoice = {}
    CircuitId = {}
    CircuitChoice = {}
    Reason = {}
    LeaseTtl = 1
    MaxControls = 2
    MaxLedger = 2
    MaxQueue = 0
    MaxDeadLetters = 0
    MaxAudit = 6
    MaxTime = 3
    MaxReceipts = 1
SPECIFICATION Spec
SYMMETRY CallerSymmetry
INVARIANT PerformedAtMostOnce
CHECK_DEADLOCK FALSE
