--------------------------- MODULE TeamControlPlane ---------------------------
(***************************************************************************)
(* LocalTeamControlPlane (src/teamControl/controlPlane.ts): one            *)
(* organization with its members, service accounts, projects,              *)
(* environments, tokens, scenario versions, evidence, policies and an      *)
(* audit chain of bounded length.  All identifiers are scoped by the       *)
(* organization and every operation names one, so one is enough.           *)
(* Each operation is one mutation of one JSON file, which ends with        *)
(* retain(); one that throws writes nothing and is no step.                *)
(***************************************************************************)
EXTENDS Clock, Sequences, FiniteSets, Filters

CONSTANTS
    Member, Account, Project, Environment, Token, Scenario, EvidenceId,
    Founder,            \* the member that bootstraps the organization
    Scopes,             \* bound: the token scopes that are asked for
    MaxScenarioVersion, \* bound on versions of scenarios and policies
    TokenLifetime,      \* 90 days
    EvidenceRetention, AuditRetention,
    MaxEvidence,        \* MAX_EVIDENCE_PER_ORGANIZATION
    MaxTrail,           \* MAX_AUDIT_PER_ORGANIZATION
    Nobody, MaxEpoch    \* bound: how often a project is registered

VARIABLES
    role,           \* of each member; "none" has not been added
    account,        \* "none", "enabled" or "disabled"
    project, environment,   \* those that exist
    token,          \* each token; kind "none" has not been issued, or was deleted
    session,        \* the tokens for which an authenticated service actor exists
    published,      \* scenario versions
    evidence,       \* in the order of the file
    policies,       \* versions of the policy
    trail,          \* audit records, numbered from the anchor
    epoch           \* history: how often each project was registered

teamOnly == <<role, account, project, environment, token, session,
              published, evidence, policies, trail, epoch>>
teamVars == <<now, teamOnly>>

READ_PERMISSIONS ==
    {"project.read", "environment.read", "scenario.read", "evidence.read", "policy.read"}
PUBLISH_PERMISSIONS == {"scenario.publish", "evidence.upload"}
MANAGE_PERMISSIONS ==
    {"project.manage", "environment.manage", "policy.manage", "token.manage",
     "service_account.manage", "audit.read", "audit.export", "data.delete", "retention.manage"}
SERVICE_ACCOUNT_PERMISSIONS == (READ_PERMISSIONS \cup PUBLISH_PERMISSIONS) \ {"policy.read"}

TEAM_PERMISSION_MATRIX ==
    [none |-> {},
     viewer |-> READ_PERMISSIONS,
     developer |-> READ_PERMISSIONS \cup PUBLISH_PERMISSIONS,
     admin |-> READ_PERMISSIONS \cup PUBLISH_PERMISSIONS \cup MANAGE_PERMISSIONS,
     owner |-> READ_PERMISSIONS \cup PUBLISH_PERMISSIONS \cup MANAGE_PERMISSIONS
                    \cup {"member.manage"}]

MEMBER_TOKEN_MANAGEMENT_MATRIX ==
    [owner |-> {"owner", "admin", "developer", "viewer"},
     admin |-> {"admin", "developer", "viewer"},
     developer |-> {}, viewer |-> {}, none |-> {}]

\* A scope is a set of permissions for environments of projects.
ScopeEntry == Project \X Environment \X SERVICE_ACCOUNT_PERMISSIONS

ASSUME TeamAssumption ==
    /\ Founder \in Member
    /\ Scopes \subseteq (SUBSET ScopeEntry) \ {{}}
    /\ MaxScenarioVersion \in Nat /\ TokenLifetime \in Nat /\ MaxEpoch \in Nat
    /\ EvidenceRetention \in Nat /\ AuditRetention \in Nat
    /\ MaxEvidence \in Nat /\ MaxTrail \in Nat
    /\ Nobody \notin Member \cup Account

Role == {"none", "owner", "admin", "developer", "viewer"}
AccountStatus == {"none", "enabled", "disabled"}
ScenarioVersion ==
    [project : Project, environment : Environment, scenario : Scenario,
     version : 1 .. MaxScenarioVersion]
PolicyVersion == 1 .. MaxScenarioVersion
AuditEntry == [sequence : Nat, at : Nat]
TokenRecord ==
    [kind : {"none", "user", "service"}, subject : Member \cup Account \cup {Nobody},
     expiresAt : Nat, scope : SUBSET ScopeEntry, revoked : BOOLEAN,
     epoch : [Project -> Nat]]      \* history: the registrations when it was scoped
EvidenceRecord ==
    [id : EvidenceId, project : Project, environment : Environment, uploadedAt : Nat, epoch : Nat]

NoToken ==
    [kind |-> "none", subject |-> Nobody, expiresAt |-> 0, scope |-> {}, revoked |-> FALSE,
     epoch |-> [p \in Project |-> 0]]

\* emptyState()
TeamInit ==
    /\ now = 0
    /\ role = [m \in Member |-> "none"]
    /\ account = [a \in Account |-> "none"]
    /\ project = {} /\ environment = {}
    /\ token = [t \in Token |-> NoToken]
    /\ session = {}
    /\ published = {} /\ evidence = <<>> /\ policies = {}
    /\ trail = <<>>
    /\ epoch = [p \in Project |-> 0]
-----------------------------------------------------------------------------
(***************************************************************************)
(* The end of every mutation: appendAudit() and retain()                   *)
(***************************************************************************)
\* The newest entries; among entries of one instant the first uploaded.
Newer(s, i, j) ==
    \/ s[i].uploadedAt > s[j].uploadedAt
    \/ s[i].uploadedAt = s[j].uploadedAt /\ i < j
Newest(s) ==
    Kept(s, {i \in DOMAIN s : Cardinality({j \in DOMAIN s : Newer(s, j, i)}) < MaxEvidence})
Unexpired(entry) == entry.uploadedAt + EvidenceRetention > now
RetainEvidence(s) == Newest(Kept(s, {i \in DOMAIN s : Unexpired(s[i])}))

\* Faulty variant: the anchor moves to the record before the last one removed.
PruneAuditShort(all) ==
    LET recent == Kept(all, {i \in DOMAIN all : all[i].at + AuditRetention >= now})
        kept == IF Len(recent) <= MaxTrail THEN recent
                ELSE SubSeq(recent, Len(recent) - MaxTrail + 1, Len(recent))
        boundary == IF Len(kept) = Len(all) THEN 0 ELSE Len(all) - Len(kept) - 1
    IN  [i \in DOMAIN kept |-> [kept[i] EXCEPT !.sequence = kept[i].sequence - boundary]]

\* pruneAudit(): the anchor becomes the last of as many records as are removed,
\* taken from the front.
PruneAudit(all) ==
    LET recent == Kept(all, {i \in DOMAIN all : all[i].at + AuditRetention >= now})
        kept == IF Len(recent) <= MaxTrail THEN recent
                ELSE SubSeq(recent, Len(recent) - MaxTrail + 1, Len(recent))
        boundary == IF Len(kept) = Len(all) THEN 0 ELSE all[Len(all) - Len(kept)].sequence
    IN  [i \in DOMAIN kept |-> [kept[i] EXCEPT !.sequence = kept[i].sequence - boundary]]

AppendTrail(s) ==
    Append(s, [sequence |-> IF s = <<>> THEN 1 ELSE s[Len(s)].sequence + 1, at |-> now])

\* A mutation that leaves the evidence e behind and appends one audit record.
Commit(e) ==
    /\ evidence' = RetainEvidence(e)
    /\ trail' = PruneAudit(AppendTrail(trail))
    /\ UNCHANGED now
-----------------------------------------------------------------------------
(***************************************************************************)
(* Who may do what                                                         *)
(***************************************************************************)
Permitted(m, permission) == permission \in TEAM_PERMISSION_MATRIX[role[m]]

TokenLive(t) == token[t].kind # "none" /\ ~token[t].revoked /\ now < token[t].expiresAt

\* validateTokenScope()
ScopeExists(scope) == \A s \in scope : s[1] \in project /\ <<s[1], s[2]>> \in environment

\* serviceTokenScopes(), for an actor that authenticateToken() made
ServiceScopes(t) ==
    IF /\ t \in session /\ token[t].kind = "service" /\ TokenLive(t)
       /\ account[token[t].subject] = "enabled"
       /\ ScopeExists(token[t].scope)
    THEN token[t].scope ELSE {}

\* requireScopedPermission(), for a member or for the service actor of a token
ScopedPermitted(actor, permission, p, e) ==
    \/ actor \in Member /\ Permitted(actor, permission)
    \/ actor \in Token /\ <<p, e, permission>> \in ServiceScopes(actor)

CanManageToken(m, t) ==
    token[t].kind = "user" =>
        role[token[t].subject] \in MEMBER_TOKEN_MANAGEMENT_MATRIX[role[m]]
-----------------------------------------------------------------------------
(***************************************************************************)
(* Operations of members                                                   *)
(***************************************************************************)
BootstrapOrganization ==
    /\ role[Founder] = "none"
    /\ role' = [role EXCEPT ![Founder] = "owner"]
    /\ Commit(evidence)
    /\ UNCHANGED <<account, project, environment, token, session, published, policies, epoch>>

AddMember(m, new, r) ==
    /\ Permitted(m, "member.manage") /\ role[new] = "none"
    /\ role' = [role EXCEPT ![new] = r]
    /\ Commit(evidence)
    /\ UNCHANGED <<account, project, environment, token, session, published, policies, epoch>>

CreateServiceAccount(m, a) ==
    /\ Permitted(m, "service_account.manage") /\ account[a] = "none"
    /\ account' = [account EXCEPT ![a] = "enabled"]
    /\ Commit(evidence)
    /\ UNCHANGED <<role, project, environment, token, session, published, policies, epoch>>

DisableServiceAccount(m, a) ==
    /\ Permitted(m, "service_account.manage") /\ account[a] = "enabled"
    /\ account' = [account EXCEPT ![a] = "disabled"]
    /\ token' = [t \in Token |->
            IF token[t].kind = "service" /\ token[t].subject = a
            THEN [token[t] EXCEPT !.revoked = TRUE] ELSE token[t]]
    /\ Commit(evidence)
    /\ UNCHANGED <<role, project, environment, session, published, policies, epoch>>

\* The account is disabled already: nothing changes but what retain() removes.
DisableAgain(m, a) ==
    /\ Permitted(m, "service_account.manage") /\ account[a] = "disabled"
    /\ evidence' = RetainEvidence(evidence)
    /\ trail' = PruneAudit(trail)
    /\ UNCHANGED <<now, role, account, project, environment, token, session, published, policies, epoch>>

RegisterProject(m, p) ==
    /\ Permitted(m, "project.manage") /\ p \notin project
    /\ epoch[p] < MaxEpoch
    /\ project' = project \cup {p}
    /\ epoch' = [epoch EXCEPT ![p] = epoch[p] + 1]
    /\ Commit(evidence)
    /\ UNCHANGED <<role, account, environment, token, session, published, policies>>

CreateEnvironment(m, p, e) ==
    /\ Permitted(m, "environment.manage") /\ p \in project
    /\ <<p, e>> \notin environment
    /\ environment' = environment \cup {<<p, e>>}
    /\ Commit(evidence)
    /\ UNCHANGED <<role, account, project, token, session, published, policies, epoch>>

DistributePolicy(m, v) ==
    /\ Permitted(m, "policy.manage") /\ v \notin policies
    /\ policies' = policies \cup {v}
    /\ Commit(evidence)
    /\ UNCHANGED <<role, account, project, environment, token, session, published, epoch>>

Without(p, s) == Kept(s, {i \in DOMAIN s : s[i].project # p})

\* Faulty variant: the service tokens of the project survive it.
DeleteProjectKeepingTokens(m, p) ==
    /\ Permitted(m, "data.delete") /\ p \in project
    /\ project' = project \ {p}
    /\ environment' = {x \in environment : x[1] # p}
    /\ published' = {x \in published : x.project # p}
    /\ Commit(Without(p, evidence))
    /\ UNCHANGED <<role, account, token, session, policies, epoch>>

\* With every token that is scoped to p, whatever else it is scoped to.
DeleteProject(m, p) ==
    /\ Permitted(m, "data.delete") /\ p \in project
    /\ project' = project \ {p}
    /\ environment' = {x \in environment : x[1] # p}
    /\ published' = {x \in published : x.project # p}
    /\ token' = [t \in Token |->
            IF token[t].kind = "service" /\ \E s \in token[t].scope : s[1] = p
            THEN NoToken ELSE token[t]]
    /\ Commit(Without(p, evidence))
    /\ UNCHANGED <<role, account, session, policies, epoch>>

DeleteEvidence(m, p, id) ==
    /\ Permitted(m, "data.delete") /\ p \in project
    /\ \E i \in DOMAIN evidence : evidence[i].project = p /\ evidence[i].id = id
    /\ Commit(Kept(evidence, {i \in DOMAIN evidence :
                                ~(evidence[i].project = p /\ evidence[i].id = id)}))
    /\ UNCHANGED <<role, account, project, environment, token, session, published, policies, epoch>>

\* Retains before its own audit record and after it.
PruneRetention(m) ==
    /\ Permitted(m, "retention.manage")
    /\ evidence' = RetainEvidence(evidence)
    /\ trail' = PruneAudit(AppendTrail(PruneAudit(trail)))
    /\ UNCHANGED <<now, role, account, project, environment, token, session, published, policies, epoch>>
-----------------------------------------------------------------------------
(***************************************************************************)
(* Tokens.  issueTokenRecord() draws identifiers until one is new; those   *)
(* of deleted tokens are not drawn again.                                  *)
(***************************************************************************)
Unissued(t) == token[t].kind = "none" /\ t \notin session

\* futureTimestamp(), at the call, some time before the lock is held
WithinLifetime(expiry) ==
    \E called \in 0 .. now : called < expiry /\ expiry <= called + TokenLifetime

IssueToken(m, subject, t, expiry) ==
    /\ Permitted(m, "token.manage") /\ Unissued(t) /\ WithinLifetime(expiry)
    /\ role[subject] \in MEMBER_TOKEN_MANAGEMENT_MATRIX[role[m]]
    /\ token' = [token EXCEPT ![t] =
            [kind |-> "user", subject |-> subject, expiresAt |-> expiry, scope |-> {},
             revoked |-> FALSE, epoch |-> epoch]]
    /\ Commit(evidence)
    /\ UNCHANGED <<role, account, project, environment, session, published, policies, epoch>>

IssueServiceToken(m, a, t, expiry, scope) ==
    /\ Permitted(m, "token.manage") /\ Unissued(t) /\ WithinLifetime(expiry)
    /\ account[a] = "enabled" /\ ScopeExists(scope)
    /\ token' = [token EXCEPT ![t] =
            [kind |-> "service", subject |-> a, expiresAt |-> expiry, scope |-> scope,
             revoked |-> FALSE, epoch |-> epoch]]
    /\ Commit(evidence)
    /\ UNCHANGED <<role, account, project, environment, session, published, policies, epoch>>

\* The new token has the subject and the scope of the old one, and its expiry or
\* a later one.
RotateToken(m, old, t, expiry) ==
    /\ Permitted(m, "token.manage") /\ Unissued(t)
    /\ token[old].kind # "none" /\ ~token[old].revoked /\ CanManageToken(m, old)
    /\ now < expiry /\ expiry \in {token[old].expiresAt} \cup 0 .. now + TokenLifetime
    /\ token' = [token EXCEPT
            ![old] = [token[old] EXCEPT !.revoked = TRUE],
            ![t] = [token[old] EXCEPT !.expiresAt = expiry]]
    /\ Commit(evidence)
    /\ UNCHANGED <<role, account, project, environment, session, published, policies, epoch>>

RevokeToken(m, t) ==
    /\ Permitted(m, "token.manage") /\ token[t].kind # "none" /\ CanManageToken(m, t)
    /\ token' = [token EXCEPT ![t] = [token[t] EXCEPT !.revoked = TRUE]]
    /\ Commit(evidence)
    /\ UNCHANGED <<role, account, project, environment, session, published, policies, epoch>>

\* Reads the file without the lock.  For a user token the actor is the member, which
\* any caller can name as well.
AuthenticateToken(t) ==
    /\ token[t].kind = "service" /\ TokenLive(t)
    /\ account[token[t].subject] = "enabled" /\ ScopeExists(token[t].scope)
    /\ session' = session \cup {t}
    /\ UNCHANGED <<now, role, account, project, environment, token, published,
                   evidence, policies, trail, epoch>>
-----------------------------------------------------------------------------
(***************************************************************************)
(* Operations of members and service actors in one environment             *)
(***************************************************************************)
PublishScenario(actor, p, e, s, v) ==
    /\ ScopedPermitted(actor, "scenario.publish", p, e)
    /\ <<p, e>> \in environment /\ p \in project
    /\ LET version == [project |-> p, environment |-> e, scenario |-> s, version |-> v]
       IN  version \notin published /\ published' = published \cup {version}
    /\ Commit(evidence)
    /\ UNCHANGED <<role, account, project, environment, token, session, policies, epoch>>

\* retain() may remove the entry at once, when MaxEvidence others are as new.
UploadEvidence(actor, p, e, id) ==
    /\ ScopedPermitted(actor, "evidence.upload", p, e)
    /\ <<p, e>> \in environment /\ p \in project
    /\ \A i \in DOMAIN evidence : evidence[i].id # id
    /\ Commit(Append(evidence,
            [id |-> id, project |-> p, environment |-> e, uploadedAt |-> now, epoch |-> epoch[p]]))
    /\ UNCHANGED <<role, account, project, environment, token, session, published, policies, epoch>>

\* listEvidence() for a service actor: a permission for the project, then for each entry
VisibleEvidence(t) ==
    {i \in DOMAIN evidence :
        <<evidence[i].project, evidence[i].environment, "evidence.read">> \in ServiceScopes(t)}
\* verifyAuditChain(), when the file is read and before it is written
AuditVerifies == \A i \in DOMAIN trail : trail[i].sequence = i
-----------------------------------------------------------------------------
TeamTick ==
    Tick /\ UNCHANGED <<role, account, project, environment, token, session,
                        published, evidence, policies, trail, epoch>>

ManageTokens(m) ==
    \E t \in Token :
        \/ RevokeToken(m, t)
        \/ \E x \in 1 .. MaxTime + 1 :
            \/ \E subject \in Member : IssueToken(m, subject, t, x)
            \/ \E a \in Account, scope \in Scopes : IssueServiceToken(m, a, t, x, scope)
            \/ \E old \in Token : RotateToken(m, old, t, x)

ManageTeam(m) ==
    \/ \E new \in Member, r \in {"admin", "developer", "viewer"} : AddMember(m, new, r)
    \/ \E a \in Account : CreateServiceAccount(m, a) \/ DisableServiceAccount(m, a) \/ DisableAgain(m, a)
    \/ \E p \in Project :
        \/ RegisterProject(m, p) \/ DeleteProject(m, p)
        \/ \E e \in Environment : CreateEnvironment(m, p, e)
        \/ \E id \in EvidenceId : DeleteEvidence(m, p, id)
    \/ \E v \in 1 .. MaxScenarioVersion : DistributePolicy(m, v)
    \/ PruneRetention(m)

PublishAs(actor) ==
    \E p \in Project, e \in Environment :
        \/ \E s \in Scenario, v \in 1 .. MaxScenarioVersion : PublishScenario(actor, p, e, s, v)
        \/ \E id \in EvidenceId : UploadEvidence(actor, p, e, id)

TeamNext ==
    \/ TeamTick \/ BootstrapOrganization
    \/ \E m \in Member : ManageTokens(m) \/ ManageTeam(m)
    \/ \E t \in Token : AuthenticateToken(t)
    \/ \E actor \in Member \cup Token : PublishAs(actor)

TeamSpec == TeamInit /\ [][TeamNext]_teamVars
-----------------------------------------------------------------------------
\* The variables have their types.
TeamTypeOK ==
    /\ now \in 0 .. MaxTime
    /\ role \in [Member -> Role]
    /\ account \in [Account -> AccountStatus]
    /\ project \subseteq Project /\ environment \subseteq Project \X Environment
    /\ token \in [Token -> TokenRecord] /\ session \subseteq Token
    /\ published \subseteq ScenarioVersion
    /\ evidence \in Seq(EvidenceRecord) /\ Len(evidence) <= MaxEvidence
    /\ policies \subseteq PolicyVersion
    /\ trail \in Seq(AuditEntry) /\ Len(trail) <= MaxTrail
    /\ epoch \in [Project -> Nat]

\* Environments belong to projects, scenario versions and evidence to environments,
\* the scope of a service token names environments that exist, and a token of a
\* disabled account is revoked.
ReferencesHold ==
    /\ \A x \in environment : x[1] \in project
    /\ \A x \in published : <<x.project, x.environment>> \in environment
    /\ \A i \in DOMAIN evidence : <<evidence[i].project, evidence[i].environment>> \in environment
    /\ \A t \in Token : token[t].kind = "service" =>
        /\ ScopeExists(token[t].scope)
        /\ account[token[t].subject] # "none"
        /\ account[token[t].subject] = "disabled" => token[t].revoked

\* validateState() throws on any reference into the void and on an audit trail that
\* verifyAuditChain() refuses, and then no operation can read or write again.  It never
\* has to: not whatever is deleted and disabled in whatever order, and not however
\* retention by age and by number shortens the trail.
StateStaysValid == ReferencesHold /\ AuditVerifies

\* A project that is deleted and registered again under its name starts afresh: no
\* token of its first life, nor one rotated from such a token, reads or writes in
\* the second.
NoSecondLife ==
    \A t \in session :
        /\ \A s \in ServiceScopes(t) : token[t].epoch[s[1]] = epoch[s[1]]
        /\ \A i \in VisibleEvidence(t) :
            evidence[i].epoch = token[t].epoch[evidence[i].project]

==============================================================================
