CONSTANTS
    a1 = a1
    a2 = a2
    i1 = i1
    i2 = i2
    ann = ann
    annAlias = annAlias
    bob = bob
    agent = agent
    x1 = x1
    x2 = x2
    None = None
    Action <- TwoActions
    actionId <- OwnIds
    expiresAt <- Expires
    required <- Policy
    principal <- People
    independent <- Independent
    Identity = {ann, annAlias, bob, agent}
    Executor = {x1, x2}
    ApprovalTtl = 3
    EscalationTimeout = 2
    VelocityWindow = 0
    VelocityLimit = 1
    MaxTime = 4
SPECIFICATION FairSpec
INVARIANT PerformedWasApproved
PROPERTY InactiveRequestsAreInert
PROPERTY ConsumedInTime
PROPERTY InboxIsReleased
CHECK_DEADLOCK FALSE
