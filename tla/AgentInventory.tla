---------------------------- MODULE AgentInventory ----------------------------
(***************************************************************************)
(* LocalInventoryController (src/inventory): what each tenant's agents,    *)
(* identities, tools, providers, resources, side effects, credentials and  *)
(* policies are, as imports report them; a graph of edges with freshness;  *)
(* findings, and remediations for them.  Each operation is one mutation of *)
(* one JSON file that all tenants share; an operation that throws writes   *)
(* nothing and is no step.                                                 *)
(***************************************************************************)
EXTENDS Clock, Integers, Sequences, FiniteSetsExt

CONSTANTS
    Tenant,
    AgentId, IdentityId, ToolId, ProviderId, ResourceId, SideEffectId, CredentialId, PolicyId,
    Principal, Place, Right, Hash,      \* owners, environments, scopes, policy hashes
    Source,
    Production,         \* the environment "production"
    Payloads,           \* bound: the payloads that are imported
    Candidate,          \* bound: the owners that are proposed
    RemediationId,      \* as many as maxRemediations
    MaxImports,         \* INVENTORY_LIMITS.maxImports
    MaxInventory,       \* the record limits
    EdgeStale, CredentialStale, EvidenceFresh,
    Delay,              \* bound: how long an operation waits for the lock
    Unowned, Absent

Never == -1
Instant == 0 .. MaxTime

VARIABLES
    inventory,      \* the records of each tenant
    edges,          \* the edges, by their ends: an edge's id is a hash of these
    importRuns,     \* in the order of the file
    findings,       \* of each tenant
    remediation,    \* each remediation
    reported        \* history: when a tenant last imported an edge

inventoryVars == <<now, inventory, edges, importRuns, findings, remediation, reported>>
-----------------------------------------------------------------------------
(***************************************************************************)
(* Records.  Names, types and descriptions tell nothing apart.             *)
(***************************************************************************)
OwnerRef == Principal \cup {Unowned}
AgentRecord ==
    [owner : OwnerRef, identities : SUBSET IdentityId, places : SUBSET Place,
     managed : BOOLEAN, killSwitch : BOOLEAN, evidenceAt : Instant \cup {Never}]
IdentityRecord == [principal : Principal, tools : SUBSET ToolId]
ToolRecord ==
    [provider : ProviderId \cup {Absent}, credentials : SUBSET CredentialId, required : SUBSET Right]
ProviderRecord ==
    [owner : OwnerRef, resources : SUBSET ResourceId, places : SUBSET Place, killSwitch : BOOLEAN]
ResourceRecord == [owner : OwnerRef, sideEffects : SUBSET SideEffectId, places : SUBSET Place]
SideEffectRecord == [resource : ResourceId]
CredentialRecord ==
    [owner : OwnerRef, provider : ProviderId, tools : SUBSET ToolId, rights : SUBSET Right,
     status : {"active", "revoked"}, usedAt : Instant \cup {Never}, places : SUBSET Place]
PolicyRecord == [hash : Hash, places : SUBSET Place]

None == [x \in {} |-> Absent]
EmptyInventory ==
    [agents |-> None, identities |-> None, tools |-> None, providers |-> None,
     resources |-> None, sideEffects |-> None, credentials |-> None, policies |-> None]

\* A collection holds one record for some of the identifiers.
IsCollection(f, ids, records) == DOMAIN f \subseteq ids /\ \A x \in DOMAIN f : f[x] \in records

ValidAgents(f) == IsCollection(f, AgentId, AgentRecord)
ValidIdentities(f) == IsCollection(f, IdentityId, IdentityRecord)
ValidTools(f) == IsCollection(f, ToolId, ToolRecord)
ValidProviders(f) == IsCollection(f, ProviderId, ProviderRecord)
ValidResources(f) == IsCollection(f, ResourceId, ResourceRecord)
ValidSideEffects(f) == IsCollection(f, SideEffectId, SideEffectRecord)
ValidCredentials(f) == IsCollection(f, CredentialId, CredentialRecord)
ValidPolicyHashes(f) == IsCollection(f, PolicyId, PolicyRecord)
ValidInventory(i) ==
    /\ ValidAgents(i.agents) /\ ValidIdentities(i.identities) /\ ValidTools(i.tools)
    /\ ValidProviders(i.providers) /\ ValidResources(i.resources)
    /\ ValidSideEffects(i.sideEffects) /\ ValidCredentials(i.credentials)
    /\ ValidPolicyHashes(i.policies)

\* One import is a payload of a source, with the policy hashes that it expects.
ValidPayload(p) ==
    /\ p.source \in Source /\ p.expected \subseteq Place \X Hash
    /\ ValidInventory(p.new)

ASSUME InventoryAssumption ==
    /\ \A p \in Payloads : ValidPayload(p)
    /\ Candidate \subseteq Principal /\ Production \in Place /\ Unowned \notin Principal /\ Absent \notin ProviderId
    /\ MaxImports \in Nat \ {0} /\ MaxInventory \in Nat /\ Delay \in Nat
    /\ EdgeStale \in Nat /\ CredentialStale \in Nat /\ EvidenceFresh \in Nat
    /\ IsFiniteSet(RemediationId)

\* A record is looked up by its kind and its identifier, so an identifier here stands for
\* both; identifiers have a bounded length, so there are finitely many.
ASSUME IdentifierAssumption ==
    /\ AgentId \cap (ProviderId \cup ResourceId \cup CredentialId) = {}
    /\ ProviderId \cap (ResourceId \cup CredentialId) = {} /\ ResourceId \cap CredentialId = {}
    /\ IsFiniteSet(AgentId) /\ IsFiniteSet(ProviderId) /\ IsFiniteSet(ResourceId)
    /\ IsFiniteSet(Place) /\ Absent \notin Tenant

\* What an edge can join.
Link ==
    (AgentId \X IdentityId) \cup (IdentityId \X ToolId) \cup (ToolId \X (ProviderId \cup CredentialId))
    \cup (ProviderId \X ResourceId) \cup (ResourceId \X SideEffectId)
NoEdge == [tenant |-> Absent, lastSeenAt |-> Never]
NoRemediation == [tenant |-> Absent, status |-> "none"]

InventoryInit ==
    /\ now = 0
    /\ inventory = [t \in Tenant |-> EmptyInventory]
    /\ edges = [link \in Link |-> NoEdge]
    /\ importRuns = <<>>
    /\ findings = [t \in Tenant |-> {}]
    /\ remediation = [m \in RemediationId |-> NoRemediation]
    /\ reported = [t \in Tenant |-> [link \in Link |-> Never]]

\* timestamp() is called before the lock is asked for.
Called == {at \in Instant : now - Delay <= at /\ at <= now}
-----------------------------------------------------------------------------
(***************************************************************************)
(* import                                                                  *)
(***************************************************************************)
\* merge(): the imported record replaces the stored one, remediated or not.
Merge(stored, new) ==
    [x \in DOMAIN stored \cup DOMAIN new |-> IF x \in DOMAIN new THEN new[x] ELSE stored[x]]

Merged(i, new) ==
    [agents |-> Merge(i.agents, new.agents),
     identities |-> Merge(i.identities, new.identities),
     tools |-> Merge(i.tools, new.tools),
     providers |-> Merge(i.providers, new.providers),
     resources |-> Merge(i.resources, new.resources),
     sideEffects |-> Merge(i.sideEffects, new.sideEffects),
     credentials |-> Merge(i.credentials, new.credentials),
     policies |-> Merge(i.policies, new.policies)]

\* The limits count the records of all tenants.
WithinLimits(all) ==
    \A kind \in DOMAIN EmptyInventory :
        MapThenSumSet(LAMBDA u : Cardinality(DOMAIN all[u][kind]), Tenant) <= MaxInventory

\* validateCrossReferences(), over all records of the tenant
CrossReferencesHold(i) ==
    /\ \A a \in DOMAIN i.agents : i.agents[a].identities \subseteq DOMAIN i.identities
    /\ \A d \in DOMAIN i.identities : i.identities[d].tools \subseteq DOMAIN i.tools
    /\ \A l \in DOMAIN i.tools :
        /\ i.tools[l].provider \in DOMAIN i.providers \cup {Absent}
        /\ i.tools[l].credentials \subseteq DOMAIN i.credentials
    /\ \A p \in DOMAIN i.providers : i.providers[p].resources \subseteq DOMAIN i.resources
    /\ \A r \in DOMAIN i.resources : i.resources[r].sideEffects \subseteq DOMAIN i.sideEffects
    /\ \A s \in DOMAIN i.sideEffects : i.sideEffects[s].resource \in DOMAIN i.resources
    /\ \A c \in DOMAIN i.credentials :
        /\ i.credentials[c].provider \in DOMAIN i.providers
        /\ i.credentials[c].tools \subseteq DOMAIN i.tools

\* The edges that the imported records stand for.
Links(new) ==
    UNION {{<<a, d>> : d \in new.agents[a].identities} : a \in DOMAIN new.agents}
    \cup UNION {{<<d, l>> : l \in new.identities[d].tools} : d \in DOMAIN new.identities}
    \cup UNION {{<<l, x>> : x \in ({new.tools[l].provider} \ {Absent}) \cup new.tools[l].credentials} :
            l \in DOMAIN new.tools}
    \cup UNION {{<<p, r>> : r \in new.providers[p].resources} : p \in DOMAIN new.providers}
    \cup UNION {{<<r, s>> : s \in new.resources[r].sideEffects} : r \in DOMAIN new.resources}

Stale(instant, days, at) == instant < at - days

\* upsertEdges() and pruneStaleEdges().  The id of an edge does not name the tenant:
\* an edge that another tenant has is refreshed for that tenant, and not created.
EdgesAfter(t, links, at) ==
    [link \in Link |->
        LET e == IF link \notin links THEN edges[link]
                 ELSE IF edges[link] = NoEdge THEN [tenant |-> t, lastSeenAt |-> at]
                 ELSE [edges[link] EXCEPT !.lastSeenAt = at]
        IN  IF e.tenant = t /\ Stale(e.lastSeenAt, EdgeStale, at) THEN NoEdge ELSE e]

\* rotateImportRuns(): the tenant's runs with the earliest times go first.
Rotated(runs, t) ==
    LET mine == {i \in DOMAIN runs : runs[i].tenant = t}
        earlier(i, j) == \/ runs[i].at < runs[j].at
                         \/ runs[i].at = runs[j].at /\ i < j
        excess == Cardinality(mine) - MaxImports
        oldest == {i \in mine : Cardinality({j \in mine : earlier(j, i)}) < excess}
        keep == DOMAIN runs \ oldest
        nth(n) == CHOOSE i \in keep : Cardinality({j \in keep : j < i}) = n - 1
    IN  [n \in 1 .. Cardinality(keep) |-> runs[nth(n)]]

\* validateState() refuses more than maxImports runs of all tenants together.
Import(t, p, at) ==
    LET all == [inventory EXCEPT ![t] = Merged(inventory[t], p.new)]
        runs == Rotated(Append(importRuns,
                    [tenant |-> t, source |-> p.source, at |-> at, expected |-> p.expected]), t)
    IN  /\ WithinLimits(all) /\ CrossReferencesHold(all[t]) /\ Len(runs) <= MaxImports
        /\ inventory' = all
        /\ edges' = EdgesAfter(t, Links(p.new), at)
        /\ importRuns' = runs
        /\ reported' = [reported EXCEPT ![t] =
                [link \in Link |->
                    IF link \in Links(p.new) THEN at ELSE reported[t][link]]]
        /\ UNCHANGED <<now, findings, remediation>>
-----------------------------------------------------------------------------
(***************************************************************************)
(* analyze                                                                 *)
(***************************************************************************)
Finding(kind, targets) == {[kind |-> kind, target |-> x] : x \in targets}

InProduction(f) == {x \in DOMAIN f : Production \in f[x].places}

EvidenceMissing(agent, at) ==
    agent.evidenceAt = Never \/ Stale(agent.evidenceAt, EvidenceFresh, at)

AgentFindings(i, at) ==
    LET owners == {i.identities[d].principal : d \in DOMAIN i.identities}
        agents == DOMAIN i.agents
    IN  Finding("orphaned_agents", {a \in agents : i.agents[a].owner \notin owners})
        \cup Finding("agents_outside_gateway", {a \in agents : ~i.agents[a].managed})
        \cup Finding("missing_evidence", {a \in agents : EvidenceMissing(i.agents[a], at)})
        \cup Finding("missing_kill_switch", {a \in InProduction(i.agents) : ~i.agents[a].killSwitch})

IntegrationFindings(i) ==
    Finding("unowned_production_integrations",
        {p \in InProduction(i.providers) : i.providers[p].owner = Unowned}
        \cup {r \in InProduction(i.resources) : i.resources[r].owner = Unowned})
    \cup Finding("missing_kill_switch",
        {p \in InProduction(i.providers) : ~i.providers[p].killSwitch})

CredentialFindings(i, at) ==
    LET active == {c \in DOMAIN i.credentials : i.credentials[c].status = "active"}
        required(c) == UNION {i.tools[l].required : l \in i.credentials[c].tools \cap DOMAIN i.tools}
    IN  Finding("stale_unused_credentials", {c \in active :
            i.credentials[c].usedAt = Never \/ Stale(i.credentials[c].usedAt, CredentialStale, at)})
        \cup Finding("excessive_permissions",
                {c \in active : ~(i.credentials[c].rights \subseteq required(c))})

\* Of each source the last run in the file that expects anything.
Expected(t) ==
    LET speaks(k) == importRuns[k].tenant = t /\ importRuns[k].expected # {}
        last == {k \in DOMAIN importRuns : speaks(k) /\
                    \A j \in k + 1 .. Len(importRuns) :
                        ~(speaks(j) /\ importRuns[j].source = importRuns[k].source)}
    IN  UNION {importRuns[k].expected : k \in last}

PolicyFindings(t, i) ==
    LET covers(e) == {q \in DOMAIN i.policies : e \in i.policies[q].places}
        used == UNION {i.agents[a].places : a \in DOMAIN i.agents}
    IN  Finding("policy_drift",
            {e \in used : covers(e) = {}}
            \cup {x[1] : x \in {x \in Expected(t) :
                                \A q \in covers(x[1]) : i.policies[q].hash # x[2]}})

\* computeFindings(); severities and reasons are left out
ComputeFindings(t, at) ==
    LET i == inventory[t]
    IN  AgentFindings(i, at) \cup IntegrationFindings(i)
            \cup CredentialFindings(i, at) \cup PolicyFindings(t, i)

\* isRemediationEffective()
Effective(t, m) ==
    LET r == remediation[m]
        i == inventory[t]
        x == r.target
        owners == [y \in DOMAIN i.agents \cup DOMAIN i.providers \cup DOMAIN i.resources
                            \cup DOMAIN i.credentials |->
                    IF y \in DOMAIN i.agents THEN i.agents[y].owner
                    ELSE IF y \in DOMAIN i.providers THEN i.providers[y].owner
                    ELSE IF y \in DOMAIN i.resources THEN i.resources[y].owner
                    ELSE i.credentials[y].owner]
    IN  \/ r.kind = "reduce_scope" /\ x \in DOMAIN i.credentials
            /\ i.credentials[x].rights \subseteq r.rights
        \/ r.kind = "revoke" /\ x \in DOMAIN i.credentials /\ i.credentials[x].status = "revoked"
        \/ r.kind = "assign_owner" /\ x \in DOMAIN owners /\ owners[x] = r.owner
        \/ r.kind = "onboard_through_gateway" /\ x \in DOMAIN i.agents /\ i.agents[x].managed
        \/ r.kind = "create_eval"

Applied(t, f) ==
    {m \in RemediationId :
        /\ remediation[m].status = "applied" /\ remediation[m].tenant = t
        /\ remediation[m].finding = f.kind /\ remediation[m].target = f.target}

Open(f) == [kind |-> f.kind, target |-> f.target, status |-> "open", by |-> Absent]
Resolved(f, m) == [kind |-> f.kind, target |-> f.target, status |-> "resolved", by |-> m]

\* Faulty variant: what was resolved once stays resolved.
ReassessTrusting(t, f, first) ==
    LET prior == {g \in findings[t] : g.kind = f.kind /\ g.target = f.target}
    IN  IF \E g \in prior : g.status = "resolved"
        THEN CHOOSE g \in prior : g.status = "resolved" ELSE Open(f)

\* A finding with an applied remediation is resolved while the first one in the file
\* has its effect; first gives that remediation.
Reassess(t, f, first) ==
    LET prior == {g \in findings[t] : g.kind = f.kind /\ g.target = f.target}
    IN  IF Applied(t, f) # {}
        THEN IF Effective(t, first) THEN Resolved(f, first) ELSE Open(f)
        ELSE IF \E g \in prior : g.status = "resolved"
        THEN CHOOSE g \in prior : g.status = "resolved" ELSE Open(f)

\* Remediations are in the file in the order in which they were proposed.
FirstOf(set) == CHOOSE m \in set : \A n \in set : remediation[m].order <= remediation[n].order

Analyze(t, at) ==
    /\ findings' = [findings EXCEPT ![t] =
            {Reassess(t, f, IF Applied(t, f) = {} THEN Absent ELSE FirstOf(Applied(t, f))) :
                f \in ComputeFindings(t, at)}]
    /\ UNCHANGED <<now, inventory, edges, importRuns, remediation, reported>>
-----------------------------------------------------------------------------
(***************************************************************************)
(* Remediations                                                            *)
(***************************************************************************)
Order == Cardinality({m \in RemediationId : remediation[m].status # "none"})

\* assertRemediationTargetExists()
TargetExists(i, x) ==
    \/ \E kind \in DOMAIN i : x \in DOMAIN i[kind]
    \/ \E kind \in {"agents", "providers", "resources", "credentials", "policies"} :
        \E y \in DOMAIN i[kind] : x \in i[kind][y].places

\* Rights are taken away, never added.
Reduces(i, x, rights) ==
    /\ x \in DOMAIN i.credentials /\ i.credentials[x].status = "active"
    /\ rights \subseteq i.credentials[x].rights /\ rights # i.credentials[x].rights

\* What a remediation of each kind says: the new owner, or the rights that are left.
Proposals ==
    [kind : {"assign_owner"}, owner : Candidate, rights : {{}}]
    \cup [kind : {"reduce_scope"}, owner : {Unowned}, rights : SUBSET Right]
    \cup [kind : {"revoke", "onboard_through_gateway", "create_eval"},
          owner : {Unowned}, rights : {{}}]

ProposeRemediation(t, m, f, says) ==
    /\ remediation[m].status = "none"
    /\ f \in findings[t] /\ f.status = "open"
    /\ TargetExists(inventory[t], f.target)
    /\ says.kind = "reduce_scope" => Reduces(inventory[t], f.target, says.rights)
    /\ remediation' = [remediation EXCEPT ![m] =
            [tenant |-> t, status |-> "proposed", kind |-> says.kind, finding |-> f.kind,
             target |-> f.target, owner |-> says.owner, rights |-> says.rights, order |-> Order]]
    /\ UNCHANGED <<now, inventory, edges, importRuns, findings, reported>>

\* applyRemediationEffect(): what becomes of the tenant's records
EffectOn(i, r) ==
    LET x == r.target
        owned(f) == [f EXCEPT ![x] = [f[x] EXCEPT !.owner = r.owner]]
    IN  CASE r.kind = "assign_owner" /\ x \in DOMAIN i.agents ->
                [i EXCEPT !.agents = owned(i.agents)]
          [] r.kind = "assign_owner" /\ x \in DOMAIN i.providers ->
                [i EXCEPT !.providers = owned(i.providers)]
          [] r.kind = "assign_owner" /\ x \in DOMAIN i.resources ->
                [i EXCEPT !.resources = owned(i.resources)]
          [] r.kind = "assign_owner" /\ x \in DOMAIN i.credentials ->
                [i EXCEPT !.credentials = owned(i.credentials)]
          [] r.kind = "reduce_scope" ->
                [i EXCEPT !.credentials = [i.credentials EXCEPT ![x] =
                    [i.credentials[x] EXCEPT !.rights = r.rights]]]
          [] r.kind = "revoke" ->
                [i EXCEPT !.credentials = [i.credentials EXCEPT ![x] =
                    [i.credentials[x] EXCEPT !.status = "revoked"]]]
          [] r.kind = "onboard_through_gateway" ->
                [i EXCEPT !.agents = [i.agents EXCEPT ![x] =
                    [i.agents[x] EXCEPT !.managed = TRUE]]]
          [] OTHER -> i

\* The kinds of target that a kind of remediation supports.
Supports(i, r) ==
    CASE r.kind = "assign_owner" ->
            r.target \in DOMAIN i.agents \cup DOMAIN i.providers \cup DOMAIN i.resources
                            \cup DOMAIN i.credentials
      [] r.kind = "reduce_scope" -> Reduces(i, r.target, r.rights)
      [] r.kind = "revoke" -> r.target \in DOMAIN i.credentials
      [] OTHER -> r.target \in DOMAIN i.agents

ApplyRemediation(t, m) ==
    LET r == remediation[m]
    IN  /\ r.status = "proposed" /\ r.tenant = t /\ Supports(inventory[t], r)
        /\ inventory' = [inventory EXCEPT ![t] = EffectOn(inventory[t], r)]
        /\ remediation' = [remediation EXCEPT ![m] = [r EXCEPT !.status = "applied"]]
        /\ findings' = [findings EXCEPT ![t] =
                {IF f.kind = r.finding /\ f.target = r.target THEN Resolved(f, m) ELSE f :
                    f \in findings[t]}]
        /\ UNCHANGED <<now, edges, importRuns, reported>>

\* Also of one that is rejected already.
RejectRemediation(t, m) ==
    /\ remediation[m].status \in {"proposed", "rejected"} /\ remediation[m].tenant = t
    /\ remediation' = [remediation EXCEPT ![m] = [remediation[m] EXCEPT !.status = "rejected"]]
    /\ UNCHANGED <<now, inventory, edges, importRuns, findings, reported>>
-----------------------------------------------------------------------------
(***************************************************************************)
(* Reports                                                                 *)
(***************************************************************************)
\* findAttackPaths(): the complete paths from an agent to a side effect
AttackPaths(t, a) ==
    LET i == inventory[t]
    IN  {path \in {a} \X (DOMAIN i.identities) \X (DOMAIN i.tools) \X (DOMAIN i.providers)
                    \X (DOMAIN i.resources) \X (DOMAIN i.sideEffects) :
            /\ a \in DOMAIN i.agents /\ path[2] \in i.agents[a].identities
            /\ path[3] \in i.identities[path[2]].tools
            /\ path[4] = i.tools[path[3]].provider
            /\ path[5] \in i.providers[path[4]].resources
            /\ path[6] \in i.resources[path[5]].sideEffects}

\* Faulty variant: an edge is cited for as long as it is stored.
CitedEdgesEver(t, path, at) ==
    {<<path[k], path[k + 1]>> : k \in {k \in 2 .. 5 : edges[<<path[k], path[k + 1]>>].tenant = t}}

\* The edges that a path cites; the one from the agent to its identity is not cited.
CitedEdges(t, path, at) ==
    {<<path[k], path[k + 1]>> : k \in {k \in 2 .. 5 :
        LET e == edges[<<path[k], path[k + 1]>>]
        IN  e.tenant = t /\ ~Stale(e.lastSeenAt, EdgeStale, at)}}

\* computeCoverage()
Coverage(t, at) ==
    LET i == inventory[t]
        agents == DOMAIN i.agents
        production == InProduction(i.providers)
    IN  [activeAgents |-> Cardinality(agents),
         policyCovered |-> Cardinality({a \in agents : \E q \in DOMAIN i.policies :
                i.agents[a].places \cap i.policies[q].places # {}}),
         evidenceFresh |-> Cardinality({a \in agents :
                i.agents[a].evidenceAt # Never /\ ~Stale(i.agents[a].evidenceAt, EvidenceFresh, at)}),
         gatewayManaged |-> Cardinality({a \in agents : i.agents[a].managed}),
         killSwitched |-> Cardinality({p \in production : i.providers[p].killSwitch}),
         productionProviders |-> Cardinality(production),
         unowned |-> Cardinality({p \in production : i.providers[p].owner = Unowned})
                    + Cardinality({r \in InProduction(i.resources) : i.resources[r].owner = Unowned})]
-----------------------------------------------------------------------------
InventoryTick == Tick /\ UNCHANGED <<inventory, edges, importRuns, findings, remediation, reported>>

InventoryStep(t) ==
    \/ \E at \in Called : Analyze(t, at) \/ \E p \in Payloads : Import(t, p, at)
    \/ \E m \in RemediationId :
        \/ ApplyRemediation(t, m) \/ RejectRemediation(t, m)
        \/ \E f \in findings[t], says \in Proposals : ProposeRemediation(t, m, f, says)

InventoryNext == InventoryTick \/ \E t \in Tenant : InventoryStep(t)
InventorySpec == InventoryInit /\ [][InventoryNext]_inventoryVars
-----------------------------------------------------------------------------
\* The collections of each tenant hold records of their kinds whose references
\* resolve, so that no attack path ends in the void.
InventoryTypeOK ==
    /\ \A t \in Tenant : ValidInventory(inventory[t]) /\ CrossReferencesHold(inventory[t])
    /\ Len(importRuns) <= MaxImports

\* Imports overwrite what remediations have changed.  An analysis notices: a finding
\* that it still shows as resolved has a remediation that was applied and holds.
ResolvedIsEffective ==
    [][\A t \in Tenant : findings'[t] # findings[t] /\ remediation' = remediation =>
        \A f \in findings'[t] : f.status = "resolved" => f.by \in Applied(t, f) /\ Effective(t, f.by)
      ]_inventoryVars

\* docs/security/inventory-threat-model.md: a long-unseen relationship cannot be cited
\* as current reachability evidence.  What a path of a tenant cites, that tenant has
\* reported at some time, and some tenant has reported in time.  It need not be the same
\* one: an edge's id does not name the tenant, so that the import of a tenant whose records
\* carry the same identifiers keeps the other's edge fresh.
CitedEdgesWereSeen ==
    \A t \in Tenant, a \in AgentId : \A path \in AttackPaths(t, a) :
        \A link \in CitedEdges(t, path, now) :
            /\ reported[t][link] # Never
            /\ \E u \in Tenant :
                reported[u][link] # Never /\ ~Stale(reported[u][link], EdgeStale, now)

\* The two reports agree: coverage counts exactly the agents and providers for which
\* the analysis at the same instant has no finding.
CoverageAgrees ==
    \A t \in Tenant :
        LET c == Coverage(t, now)
            count(kind, ids) == Cardinality({f \in ComputeFindings(t, now) :
                                                f.kind = kind /\ f.target \in ids})
        IN  /\ c.evidenceFresh + count("missing_evidence", AgentId) = c.activeAgents
            /\ c.gatewayManaged + count("agents_outside_gateway", AgentId) = c.activeAgents
            /\ c.killSwitched + count("missing_kill_switch", ProviderId) = c.productionProviders
            /\ c.unowned = count("unowned_production_integrations", ProviderId \cup ResourceId)
            /\ c.policyCovered < c.activeAgents =>
                \/ count("policy_drift", Place) > 0
                \/ \E a \in DOMAIN inventory[t].agents : inventory[t].agents[a].places = {}

\* What the reports tell a tenant: paths cite what was seen in time, by this tenant or by
\* another one that reports the same edge, and the coverage is that of the analysis.
ReportsAreTrue == CitedEdgesWereSeen /\ CoverageAgrees

==============================================================================
