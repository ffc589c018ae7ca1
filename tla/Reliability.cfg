CONSTANTS
    n1 = n1
    e1 = e1
    x1 = x1
    r1 = r1
    r2 = r2
    q1 = q1
    q2 = q2
    Parts = {"ledger", "reconciliation", "costs", "backup", "members", "invitations", "resources", "billing", "payments", "catalogue", "worlds"}
    MaxTime = 2
    LedgerTenant = {n1, n2}
    Envelope = {e1}
    LedgerActionId = {x1}
    ledgerId <- Ids
    ReceiptHistory <- Histories
    RetentionDays = {1}
    MaxLedgerEntries = 10
    MaxLedgerTenants = 2
    MaxGovernance = 2
    SplitAt = {8}
    Forever = Forever
    NoFixture = NoFixture
    ReconRun = {r1, r2}
    OwnTenant = n1
    MaxFindings = 2
    MaxSamplesPerMetric = 1
    MaxSamples = 3
    SampleWindow = 0
    MaxReconciled = 2
    CostTenant = {n1}
    CostAction = {x1, x2}
    Attribution = {v1}
    Amount = {1}
    BudgetName = {b1, b2, b3}
    BudgetLimit = {1}
    BudgetWindow = {0}
    MaxCostRecords = 2
    MaxBudgets = 2
    MaxAlerts = 2
    LongestWindow = 1
    MaxAlertsRaised = 3
    NoCost = NoCost
    DataFile = {f1, f2}
    MaxContents = 2
    User = {u1, u2, u3}
    Organization = {o1}
    Request = {q1, q2}
    Invitation = {i1, i2}
    IngestKey = {k1, k2}
    HostedProject = {p1, p2}
    ScenarioVersion = {s1, s2}
    MemberQuota = 2
    InvitationQuota = 1
    ProjectQuota = 1
    ScenarioQuota = 1
    KeyQuota = 1
    OrganizationQuota = 1
    Lifetime = 1
    IdempotencyKey = {k1}
    UnitAmount = {2}
    MaxOfKind <- Limits
    IdempotencyTTL = 1
    MaxStateEntries = 9
    Absent = Absent
    Nowhere = Nowhere
    NoOne = NoOne
    World = {w1, w2}
    ActionId = {a1, a2, a3}
    Caller = {c1}
    MaxReceipts = 2
    None = None
SPECIFICATION Spec
SYMMETRY Symmetric
INVARIANT ReliabilityTypeOK
INVARIANT LedgerTellsTheRecord
INVARIANT FindingsAreSound
PROPERTY NothingHeldIsDropped
INVARIANT VerifiedBackupIsASnapshot
INVARIANT OneEffectPerKey
INVARIANT BillingAgrees
INVARIANT TenantsStayWithinBounds
PROPERTY DecisionsAreCurrent
INVARIANT WorldsStayUsable
CHECK_DEADLOCK FALSE
