CONSTANTS
    a1 = a1
    a2 = a2
    i1 = i1
    i2 = i2
    w1 = w1
    w2 = w2
    v1 = v1
    v2 = v2
    global = global
    None = None
    Global = global
    Action <- OneAction
    ActionId <- OneId
    actionId <- Ids
    Caller <- TwoCallers
    idempotencyKey <- Keys
    cost <- Costs
    worldId <- InFirstWorld
    expiresAt <- Expires
    scopeMatches <- GlobalMatches
    Outcome <- Outcomes
    World = {v1, v2}
    Scope = {global}
    BudgetId = {}
    BudgetChoice = {}
    CircuitId = {}
    CircuitChoice = {}
    Reason = {20}
    LeaseTtl = 1
    MaxControls = 2
    MaxLedger = 2
    MaxQueue = 0
    MaxDeadLetters = 0
    MaxAudit = 5
    MaxTime = 2
    MaxReceipts = 1
SPECIFICATION FairSpec
PROPERTY ImplementsActionExecution
PROPERTY ExecuteReturns
CHECK_DEADLOCK FALSE
