---------------------------- MODULE HostedTenancy ----------------------------
(***************************************************************************)
(* The tenants of the hosted service (hosted/src): organizations, members  *)
(* with roles, invitations, projects, scenario versions and CI ingest keys *)
(* within quotas.  A request is a database transaction in two steps: it    *)
(* waits for the lock of its organization and reads under it, then writes  *)
(* from what it has read and commits.  The isolation level is read         *)
(* committed, so nothing but the row locks keeps two requests apart.       *)
(* The database's own trigger against organizations without an owner is    *)
(* left out: the requests alone must not leave one.                        *)
(***************************************************************************)
EXTENDS Clock, Integers, FiniteSets

CONSTANTS
    User, Organization, Request,
    Invitation, IngestKey, HostedProject, ScenarioVersion,  \* as many as are ever created
    MemberQuota, InvitationQuota, ProjectQuota, ScenarioQuota, KeyQuota, OrganizationQuota,
    Lifetime,           \* of invitations and keys, at most
    Nowhere, NoOne

ASSUME TenancyAssumption ==
    /\ {MemberQuota, InvitationQuota, ProjectQuota, ScenarioQuota, KeyQuota, OrganizationQuota}
            \subseteq Nat \ {0}
    /\ Lifetime \in Nat \ {0} /\ Nowhere \notin Organization /\ NoOne \notin User

VARIABLES
    creator,        \* organizations.created_by
    member,         \* organization_memberships: the role of each user
    invitation, ingestKey, hostedProject, scenarioVersion,
    txn,            \* what each request has read and locked
    reporter        \* the requests that have authenticated an ingest key, with it

tenantVars == <<creator, member, invitation, ingestKey, hostedProject, scenarioVersion>>
tenancyVars == <<now, tenantVars, txn, reporter>>

Rank == [none |-> -1, viewer |-> 0, developer |-> 1, admin |-> 2, owner |-> 3]
MemberRole == DOMAIN Rank \ {"none"}
roleAtLeast(role, minimum) == Rank[role] >= Rank[minimum]

NoInvitation ==
    [organization |-> Nowhere, email |-> NoOne, role |-> "none", expiresAt |-> 0, state |-> "none"]
NoKey == [organization |-> Nowhere, expiresAt |-> 0, revoked |-> FALSE]
NoTxn ==
    [op |-> "none", user |-> NoOne, organization |-> Nowhere, at |-> 0, role |-> "none",
     locked |-> FALSE, invitation |-> NoInvitation, saw |-> [u \in User |-> "none"], counted |-> {}]

TenancyInit ==
    /\ now = 0
    /\ creator = [o \in Organization |-> NoOne]
    /\ member = [o \in Organization |-> [u \in User |-> "none"]]
    /\ invitation = [i \in Invitation |-> NoInvitation]
    /\ ingestKey = [k \in IngestKey |-> NoKey]
    /\ hostedProject = [p \in HostedProject |-> Nowhere]
    /\ scenarioVersion = [s \in ScenarioVersion |-> Nowhere]
    /\ txn = [q \in Request |-> NoTxn]
    /\ reporter = [q \in Request |-> Nowhere]

Idle(q) == txn[q] = NoTxn /\ reporter[q] = Nowhere
-----------------------------------------------------------------------------
(***************************************************************************)
(* Quotas: how much there is of a resource; time only takes away.          *)
(***************************************************************************)
Members(o) == {u \in User : member[o][u] # "none"}
Owners(roles) == {u \in User : roles[u] = "owner"}
ActiveInvitations(o, at) ==
    {i \in Invitation : invitation[i].organization = o /\ invitation[i].state = "open"
                        /\ invitation[i].expiresAt > at}
ActiveKeys(o, at) ==
    {k \in IngestKey : ingestKey[k].organization = o /\ ~ingestKey[k].revoked
                       /\ ingestKey[k].expiresAt > at}
Projects(o) == {p \in HostedProject : hostedProject[p] = o}
Scenarios(o) == {s \in ScenarioVersion : scenarioVersion[s] = o}

\* What enforceQuota() counts for an operation, in a statement before the one that adds.
Resources(op, o, at) ==
    CASE op = "invite" -> ActiveInvitations(o, at)
      [] op \in {"createKey", "rotateKey"} -> ActiveKeys(o, at)
      [] op = "project" -> Projects(o)
      [] op = "scenario" -> Scenarios(o)
      [] OTHER -> {}

Below(set, quota) == Cardinality(set) < quota
-----------------------------------------------------------------------------
(***************************************************************************)
(* Transactions                                                            *)
(***************************************************************************)
\* Faulty variant: the organization's row is read without a lock.
LockFreeAnyway(o) == TRUE

\* select ... for update waits for every other transaction that has locked the row.
LockFree(o) == \A q \in Request : ~(txn[q].locked /\ txn[q].organization = o)

Minimum ==
    [member |-> "admin", remove |-> "admin", invite |-> "admin", project |-> "admin",
     scenario |-> "developer", createKey |-> "developer", rotateKey |-> "developer",
     revokeKey |-> "developer"]

\* withAuthorizedMutation(): the lock, then the role of the caller.  The transaction
\* began at some time before, and now() stays that time however long it has waited.
Begin(q, u, o, op, at) ==
    /\ Idle(q) /\ creator[o] # NoOne /\ LockFree(o)
    /\ roleAtLeast(member[o][u], Minimum[op])
    /\ txn' = [txn EXCEPT ![q] = [NoTxn EXCEPT !.op = op, !.user = u, !.organization = o,
                    !.at = at, !.role = member[o][u], !.locked = TRUE, !.saw = member[o],
                    !.counted = Resources(op, o, at)]]
    /\ UNCHANGED <<now, tenantVars, reporter>>

Commit(q) == txn' = [txn EXCEPT ![q] = NoTxn] /\ UNCHANGED <<now, reporter>>

\* A refusal, a constraint, a lost connection, or the deadlock detector.
Abort(q) ==
    /\ txn[q] # NoTxn
    /\ Commit(q) /\ UNCHANGED tenantVars

Running(q, op) == txn[q].op = op
-----------------------------------------------------------------------------
(***************************************************************************)
(* Organizations and members                                               *)
(***************************************************************************)
\* The user's quota row is locked from the count to the commit; so this is one step.
CreateOrganization(u, o) ==
    /\ creator[o] = NoOne
    /\ Below({p \in Organization : creator[p] = u}, OrganizationQuota)
    /\ creator' = [creator EXCEPT ![o] = u]
    /\ member' = [member EXCEPT ![o] = [member[o] EXCEPT ![u] = "owner"]]
    /\ UNCHANGED <<now, invitation, ingestKey, hostedProject, scenarioVersion, txn, reporter>>

LastOwner(saw, u) == saw[u] = "owner" /\ Cardinality(Owners(saw)) <= 1

\* Faulty variant: only the role that is given is looked at, not the one that is taken.
ChangeAnyRole(q, target, role) ==
    LET t == txn[q]
    IN  /\ Running(q, "member")
        /\ t.saw[target] # "none"
        /\ t.role = "owner" \/ ~roleAtLeast(role, "admin")
        /\ role # "owner" => ~LastOwner(t.saw, target)
        /\ member' = [member EXCEPT ![t.organization] = [member[t.organization] EXCEPT
                ![target] = role]]
        /\ Commit(q)
        /\ UNCHANGED <<creator, invitation, ingestKey, hostedProject, scenarioVersion>>

ChangeRole(q, target, role) ==
    LET t == txn[q]
    IN  /\ Running(q, "member")
        /\ t.saw[target] # "none"
        /\ t.role = "owner" \/ ~(roleAtLeast(t.saw[target], "admin") \/ roleAtLeast(role, "admin"))
        /\ role # "owner" => ~LastOwner(t.saw, target)
        /\ member' = [member EXCEPT ![t.organization] = [member[t.organization] EXCEPT
                ![target] = IF member[t.organization][target] = "none" THEN "none" ELSE role]]
        /\ Commit(q)
        /\ UNCHANGED <<creator, invitation, ingestKey, hostedProject, scenarioVersion>>

RemoveMember(q, target) ==
    LET t == txn[q]
    IN  /\ Running(q, "remove")
        /\ t.saw[target] # "none"
        /\ t.role = "owner" \/ ~roleAtLeast(t.saw[target], "admin")
        /\ ~LastOwner(t.saw, target)
        /\ member' = [member EXCEPT ![t.organization] = [member[t.organization] EXCEPT
                ![target] = "none"]]
        /\ Commit(q)
        /\ UNCHANGED <<creator, invitation, ingestKey, hostedProject, scenarioVersion>>
-----------------------------------------------------------------------------
(***************************************************************************)
(* Invitations                                                             *)
(***************************************************************************)
InvitationLocked(i) == \E q \in Request : txn[q].op = "accept" /\ txn[q].invitation = invitation[i]

\* Expired invitations of the address are revoked, which waits for their row locks;
\* one address has at most one open invitation in the organization.
CreateInvitation(q, i, email, role, days) ==
    LET t == txn[q]
        old == {j \in Invitation :
                /\ invitation[j].organization = t.organization /\ invitation[j].email = email
                /\ invitation[j].state = "open"}
        expired == {j \in old : invitation[j].expiresAt <= t.at}
    IN  /\ Running(q, "invite") /\ invitation[i] = NoInvitation
        /\ role # "owner" /\ (t.role = "owner" \/ role # "admin")
        /\ \A j \in expired : ~InvitationLocked(j)
        /\ old = expired
        /\ Below(t.counted, InvitationQuota)
        /\ invitation' = [j \in Invitation |->
                IF j = i THEN [organization |-> t.organization, email |-> email, role |-> role,
                               expiresAt |-> t.at + days, state |-> "open"]
                ELSE IF j \in expired THEN [invitation[j] EXCEPT !.state = "revoked"]
                ELSE invitation[j]]
        /\ Commit(q)
        /\ UNCHANGED <<creator, member, ingestKey, hostedProject, scenarioVersion>>

\* acceptInvitation() locks the invitation first, which may have expired in the wait ...
BeginAccept(q, u, i, at) ==
    /\ Idle(q) /\ invitation[i].state = "open" /\ invitation[i].expiresAt > at
    /\ invitation[i].email = u /\ ~InvitationLocked(i)
    /\ txn' = [txn EXCEPT ![q] = [NoTxn EXCEPT !.op = "accept", !.user = u, !.at = at,
                    !.organization = invitation[i].organization, !.invitation = invitation[i]]]
    /\ UNCHANGED <<now, tenantVars, reporter>>

\* ... and then the organization, to count its members.
LockToAccept(q) ==
    /\ Running(q, "accept") /\ ~txn[q].locked /\ LockFree(txn[q].organization)
    /\ txn' = [txn EXCEPT ![q] = [txn[q] EXCEPT !.locked = TRUE,
                                               !.saw = member[txn[q].organization]]]
    /\ UNCHANGED <<now, tenantVars, reporter>>

\* Someone who is a member already keeps the role.
AcceptInvitation(q) ==
    LET t == txn[q]
        o == t.organization
    IN  /\ Running(q, "accept") /\ t.locked
        /\ Below({u \in User : t.saw[u] # "none"}, MemberQuota)
        /\ member' = IF member[o][t.user] # "none" THEN member
                     ELSE [member EXCEPT ![o] = [member[o] EXCEPT ![t.user] = t.invitation.role]]
        /\ invitation' = [i \in Invitation |->
                IF invitation[i] = t.invitation THEN [invitation[i] EXCEPT !.state = "accepted"]
                ELSE invitation[i]]
        /\ Commit(q)
        /\ UNCHANGED <<creator, ingestKey, hostedProject, scenarioVersion>>
-----------------------------------------------------------------------------
(***************************************************************************)
(* Projects, scenario versions and ingest keys.  Versions belong to the    *)
(* organization of their project, and so do keys.                          *)
(***************************************************************************)
CreateProject(q, p) ==
    LET o == txn[q].organization
    IN  /\ Running(q, "project") /\ hostedProject[p] = Nowhere
        /\ Below(txn[q].counted, ProjectQuota)
        /\ hostedProject' = [hostedProject EXCEPT ![p] = o]
        /\ Commit(q)
        /\ UNCHANGED <<creator, member, invitation, ingestKey, scenarioVersion>>

CreateScenarioVersion(q, s) ==
    LET o == txn[q].organization
    IN  /\ Running(q, "scenario") /\ scenarioVersion[s] = Nowhere /\ Projects(o) # {}
        /\ Below(txn[q].counted, ScenarioQuota)
        /\ scenarioVersion' = [scenarioVersion EXCEPT ![s] = o]
        /\ Commit(q)
        /\ UNCHANGED <<creator, member, invitation, ingestKey, hostedProject>>

CreateIngestKey(q, k, days) ==
    LET t == txn[q]
        o == t.organization
    IN  /\ Running(q, "createKey") /\ ingestKey[k] = NoKey /\ Projects(o) # {}
        /\ Below(t.counted, KeyQuota)
        /\ ingestKey' = [ingestKey EXCEPT ![k] =
                [organization |-> o, expiresAt |-> t.at + days, revoked |-> FALSE]]
        /\ Commit(q)
        /\ UNCHANGED <<creator, member, invitation, hostedProject, scenarioVersion>>

\* An expired key can be rotated too; the old one is revoked before the keys are counted.
RotateIngestKey(q, k, new, days) ==
    LET t == txn[q]
        o == t.organization
    IN  /\ Running(q, "rotateKey") /\ ingestKey[new] = NoKey
        /\ ingestKey[k].organization = o /\ ~ingestKey[k].revoked
        /\ Below(t.counted \ {k}, KeyQuota)
        /\ ingestKey' = [ingestKey EXCEPT
                ![k] = [ingestKey[k] EXCEPT !.revoked = TRUE],
                ![new] = [organization |-> o, expiresAt |-> t.at + days, revoked |-> FALSE]]
        /\ Commit(q)
        /\ UNCHANGED <<creator, member, invitation, hostedProject, scenarioVersion>>

RevokeIngestKey(q, k) ==
    LET o == txn[q].organization
    IN  /\ Running(q, "revokeKey") /\ ingestKey[k].organization = o /\ ~ingestKey[k].revoked
        /\ ingestKey' = [ingestKey EXCEPT ![k] = [ingestKey[k] EXCEPT !.revoked = TRUE]]
        /\ Commit(q)
        /\ UNCHANGED <<creator, member, invitation, hostedProject, scenarioVersion>>

(* Reports: the key is authenticated on its own, and the transaction that stores   *)
(* the report does not look at it again.  HostedReports has what is stored.        *)
AuthenticateIngestKey(q, k) ==
    /\ Idle(q) /\ ingestKey[k].organization # Nowhere
    /\ ~ingestKey[k].revoked /\ ingestKey[k].expiresAt > now
    /\ reporter' = [reporter EXCEPT ![q] = k]
    /\ UNCHANGED <<now, tenantVars, txn>>

\* enforceQuota() waits for the lock of the organization.
StoreReport(q) ==
    /\ reporter[q] # Nowhere /\ LockFree(ingestKey[reporter[q]].organization)
    /\ reporter' = [reporter EXCEPT ![q] = Nowhere]
    /\ UNCHANGED <<now, tenantVars, txn>>
-----------------------------------------------------------------------------
\* Invitations that have ended are deleted after 30 days, once they have expired.
CleanInvitations ==
    LET gone == {i \in Invitation : invitation[i].state # "none" /\ invitation[i].expiresAt < now}
    IN  /\ gone # {} /\ \A i \in gone : ~InvitationLocked(i)
        /\ invitation' = [i \in Invitation |->
                IF i \in gone THEN [invitation[i] EXCEPT !.state = "none"] ELSE invitation[i]]
        /\ UNCHANGED <<now, creator, member, ingestKey, hostedProject, scenarioVersion, txn, reporter>>

TenancyTick == Tick /\ UNCHANGED <<tenantVars, txn, reporter>>

MutateMembers(q) ==
    \/ \E u \in User :
        \/ RemoveMember(q, u)
        \/ \E role \in MemberRole :
            \/ ChangeRole(q, u, role)
            \/ \E i \in Invitation, days \in 1 .. Lifetime : CreateInvitation(q, i, u, role, days)
    \/ \E u \in User, i \in Invitation, at \in 0 .. now : BeginAccept(q, u, i, at)
    \/ LockToAccept(q) \/ AcceptInvitation(q)

MutateProjects(q) ==
    \/ \E p \in HostedProject : CreateProject(q, p)
    \/ \E s \in ScenarioVersion : CreateScenarioVersion(q, s)
    \/ \E k \in IngestKey, days \in 1 .. Lifetime :
        \/ CreateIngestKey(q, k, days)
        \/ \E new \in IngestKey : RotateIngestKey(q, k, new, days)
    \/ \E k \in IngestKey : RevokeIngestKey(q, k) \/ AuthenticateIngestKey(q, k)
    \/ StoreReport(q)

TenancyNext ==
    \/ TenancyTick \/ CleanInvitations
    \/ \E u \in User, o \in Organization : CreateOrganization(u, o)
    \/ \E q \in Request :
        \/ MutateMembers(q) \/ MutateProjects(q) \/ Abort(q)
        \/ \E u \in User, o \in Organization, op \in DOMAIN Minimum, at \in 0 .. now :
            Begin(q, u, o, op, at)

TenancySpec == TenancyInit /\ [][TenancyNext]_tenancyVars
-----------------------------------------------------------------------------
\* The variables have their types.
TenancyTypeOK ==
    /\ creator \in [Organization -> User \cup {NoOne}]
    /\ member \in [Organization -> [User -> DOMAIN Rank]]
    /\ \A i \in Invitation : invitation[i].state \in {"none", "open", "revoked", "accepted"}
    /\ \A k \in IngestKey : ingestKey[k].organization \in Organization \cup {Nowhere}
    /\ hostedProject \in [HostedProject -> Organization \cup {Nowhere}]
    /\ scenarioVersion \in [ScenarioVersion -> Organization \cup {Nowhere}]
    /\ reporter \in [Request -> IngestKey \cup {Nowhere}]

\* Whatever requests race, every organization keeps an owner, and no more members,
\* open invitations, projects, scenario versions and active keys than its quotas allow.
TenantsStayWithinBounds ==
    \A o \in Organization : creator[o] # NoOne =>
        /\ Owners(member[o]) # {}
        /\ Cardinality(Members(o)) <= MemberQuota
        /\ Cardinality(ActiveInvitations(o, now)) <= InvitationQuota
        /\ Cardinality(ActiveKeys(o, now)) <= KeyQuota
        /\ Cardinality(Projects(o)) <= ProjectQuota
        /\ Cardinality(Scenarios(o)) <= ScenarioQuota

\* hosted/README.md: a concurrent revocation does not race a stale authorization
\* decision.  Whoever changes the members, the keys or the projects of an organization
\* has the role for it at that moment, and only owners touch admins and owners.
DecisionsAreCurrent ==
    [][\A q \in Request :
        txn[q].op \in DOMAIN Minimum /\ txn'[q] = NoTxn /\ tenantVars' # tenantVars =>
            LET o == txn[q].organization
                mine == member[o][txn[q].user]
            IN  /\ roleAtLeast(mine, Minimum[txn[q].op])
                /\ mine # "owner" => \A u \in User :
                    member'[o][u] # member[o][u] =>
                        ~roleAtLeast(member[o][u], "admin") /\ ~roleAtLeast(member'[o][u], "admin")
      ]_tenancyVars

==============================================================================
