CONSTANTS
    key = key
    agent = agent
    operator = operator
    g1 = g1
    g2 = g2
    k1 = k1
    k2 = k2
    t1 = t1
    t2 = t2
    strict = strict
    lax = lax
    p1 = p1
    e1 = e1
    a1 = a1
    d1 = d1
    l1 = l1
    r1 = r1
    s1 = s1
    c1 = c1
    q1 = q1
    u1 = u1
    u2 = u2
    prod = prod
    x1 = x1
    x2 = x2
    h1 = h1
    h2 = h2
    src = src
    NoGrant = NoGrant
    Credential = {key}
    Workload = {agent, operator}
    owner <- KeyOwner
    reach <- BothReach
    identityExpiresAt <- Identities
    BreakGlassApproved = {operator}
    Grant = {g1, g2}
    Call = {k1, k2}
    GrantTtl = 2
    BreakGlassTtl = 1
    MaxRecords = 3
    MaxVersion = 2
    Target = {t1, t2}
    Policy = {strict, lax}
    inCanary <- CanaryScope
    maxViolations <- ViolationLimit
    maxErrors <- ErrorLimit
    violationResponse <- Responses
    minimumRuns <- Runs
    maxRateBps <- Rates
    freshness <- Age
    MaxRuns = 2
    MaxAudit = 8
    MaxStored = 6
    MaxTime = 2
    Member = {m1, m2}
    Founder = m1
    Account = {a1}
    Project = {p1}
    Environment = {e1}
    Token = {g1, g2}
    Scenario = {s1}
    EvidenceId = {v1, v2}
    Scopes <- WholeEnvironment
    MaxScenarioVersion = 1
    TokenLifetime = 1
    EvidenceRetention = 1
    AuditRetention = 0
    MaxEvidence = 1
    MaxTrail = 2
    Nobody = Nobody
    MaxEpoch = 2
    Tenant = {n1, n2}
    AgentId = {a1}
    IdentityId = {d1}
    ToolId = {l1}
    ProviderId = {p1}
    ResourceId = {r1}
    SideEffectId = {s1}
    CredentialId = {c1}
    PolicyId = {q1}
    Principal = {u1, u2}
    Candidate = {u2}
    Place = {prod}
    Right = {x1, x2}
    Hash = {h1, h2}
    Source = {src}
    Production = prod
    Payloads <- Imported
    RemediationId = {m1}
    MaxImports = 2
    MaxInventory = 2
    EdgeStale = 1
    CredentialStale = 1
    EvidenceFresh = 1
    Delay = 0
    Unowned = Unowned
    Absent = Absent
    Parts = {"broker", "ladder", "team", "inventory"}
SPECIFICATION Spec
SYMMETRY Symmetric
INVARIANT ControllersTypeOK
INVARIANT ReceiptsTellTheTruth
INVARIANT LiveGrantsAreCovered
PROPERTY WithdrawnUsesWindDown
INVARIANT AuditExplainsState
INVARIANT StopConditionsHold
INVARIANT StateStaysValid
INVARIANT NoSecondLife
INVARIANT ReportsAreTrue
PROPERTY ResolvedIsEffective
CHECK_DEADLOCK FALSE
