CONSTANTS
    a1 = a1
    a2 = a2
    a3 = a3
    w1 = w1
    w2 = w2
    k1 = k1
    k2 = k2
    b1 = b1
    c1 = c1
    project = project
    other = other
    global = global
    None = None
    Global = global
    Action <- ThreeActions
    idempotencyKey <- Keys
    cost <- Costs
    Caller <- OneCaller
    Scope <- GlobalScope
    scopeMatches <- GlobalMatches
    Outcome <- Outcomes
    BudgetChoice <- Budgets
    CircuitChoice <- Circuits
    BudgetId = {b1}
    CircuitId = {c1}
    Reason = {}
    LeaseTtl = 1
    MaxControls = 2
    MaxLedger = 2
    MaxQueue = 1
    MaxDeadLetters = 2
    MaxAudit = 6
    MaxTime = 2
SPECIFICATION Spec
INVARIANT TypeOK
PROPERTY BudgetsAreNotOversubscribed
PROPERTY CompletionOpensCircuits
CHECK_DEADLOCK FALSE
