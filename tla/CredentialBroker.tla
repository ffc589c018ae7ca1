--------------------------- MODULE CredentialBroker ---------------------------
(***************************************************************************)
(* CredentialBroker (src/credentials/credentialBroker.ts): credentials     *)
(* whose secrets stay in a vault, short grants for one use of a credential *)
(* by one workload, and the server-side execution of a grant.  The store   *)
(* is one JSON file, and each operation is one mutation of it, but for     *)
(* executeServerSide(), which works between two mutations.                 *)
(* A workload stands for an authenticated identity with its tenant,        *)
(* project, environment, subject and run, a grant's request for one        *)
(* workload, provider, scope list and action.  An operation that throws    *)
(* writes nothing and is no step.                                          *)
(***************************************************************************)
EXTENDS Clock, FiniteSets

CONSTANTS
    Credential, Workload,
    owner,              \* the workload that a credential belongs to
    reach,              \* the credentials inside the boundary of a workload
    identityExpiresAt,  \* of a workload
    BreakGlassApproved, \* workloads for which an independent person vouches
    Grant,              \* identifiers of grants; the code stores at most MAX_GRANTS
    Call,               \* calls of executeServerSide
    GrantTtl, BreakGlassTtl,
    MaxRecords,         \* records that fit in MAX_STORE_BYTES
    MaxVersion,         \* bound on rotations
    NoGrant

ASSUME BrokerAssumption ==
    /\ owner \in [Credential -> Workload]
    /\ reach \in [Workload -> SUBSET Credential]
    /\ identityExpiresAt \in [Workload -> Nat]
    /\ BreakGlassApproved \subseteq Workload
    /\ GrantTtl \in Nat /\ BreakGlassTtl \in Nat
    /\ MaxRecords \in Nat /\ MaxVersion \in Nat
    /\ Credential # {} /\ NoGrant \notin Grant

VARIABLES
    credential,     \* metadata of each credential; version 0 is not registered
    grant,          \* each grant; version 0 is not issued
    receipt,        \* status of the use receipt of each grant
    inactive,       \* workloads that the identity provider no longer accepts
    bpc, use,       \* where a call is, and the grant that it uses
    effects         \* history: side effects at the provider, for each grant

brokerCallVars == <<bpc, use, effects>>
brokerVars ==
    <<now, credential, grant, receipt, inactive, bpc, use, effects>>

ReceiptStatus == {"none", "executing", "executed", "failed", "unknown"}
Position ==
    {"idle", "called", "reading", "recheck", "recheckLocked", "guard", "guardLocked",
     "armed", "performed", "failing", "unknown"}

CredentialMetadata == [version : Nat, expiresAt : Nat, revoked : BOOLEAN]
GrantRecord ==
    [credential : Credential, version : Nat, workload : Workload,
     issuedAt : Nat, expiresAt : Nat, revoked : BOOLEAN]

Registered(c) == credential[c].version > 0
Issued(g) == grant[g].version > 0

\* emptyState(): no credential is registered and no grant issued.
NotRegistered == [version |-> 0, expiresAt |-> 0, revoked |-> FALSE]
NotIssued ==
    LET c == CHOOSE c \in Credential : TRUE
    IN  [credential |-> c, version |-> 0, workload |-> owner[c],
         issuedAt |-> 0, expiresAt |-> 0, revoked |-> FALSE]

BrokerInit ==
    /\ now = 0
    /\ credential = [c \in Credential |-> NotRegistered]
    /\ grant = [g \in Grant |-> NotIssued]
    /\ receipt = [g \in Grant |-> "none"]
    /\ inactive = {}
    /\ bpc = [k \in Call |-> "idle"]
    /\ use = [k \in Call |-> NoGrant]
    /\ effects = [g \in Grant |-> 0]
-----------------------------------------------------------------------------
\* read() refuses a file above MAX_STORE_BYTES, which mutate() may have written:
\* then every operation throws.
Readable ==
    Cardinality({c \in Credential : Registered(c)}) + Cardinality({g \in Grant : Issued(g)})
        + Cardinality({g \in Grant : receipt[g] # "none"}) <= MaxRecords

CredentialUsable(c) == ~credential[c].revoked /\ now < credential[c].expiresAt
GrantUsable(g) == ~grant[g].revoked /\ now < grant[g].expiresAt
VersionMatches(g) == grant[g].version = credential[grant[g].credential].version

\* The grants of c, all revoked.
GrantsRevoked(c) ==
    [g \in Grant |->
        IF Issued(g) /\ grant[g].credential = c THEN [grant[g] EXCEPT !.revoked = TRUE]
        ELSE grant[g]]

\* assertRequestMatchesCredential(): no tenant, project, environment, provider or
\* scope boundary is crossed.
RequestMatches(w, c) == c \in reach[w]

\* The authorizer accepts the approval of an independent person for w.
BreakGlassAuthorized(w) == w \in BreakGlassApproved

\* The verifier is asked before the lock is taken.
Authenticated(w) == w \notin inactive /\ now < identityExpiresAt[w]
-----------------------------------------------------------------------------
(***************************************************************************)
(* Operations that are one mutation of the store                           *)
(***************************************************************************)
\* The expiry of a credential is compared with the clock when the operation is
\* called, at some instant before it has the lock.
WasInFuture(expiry) == \E called \in 0 .. now : called < expiry

RegisterCredential(c, expiry) ==
    /\ Readable /\ ~Registered(c) /\ WasInFuture(expiry)
    /\ credential' = [credential EXCEPT ![c] =
            [version |-> 1, expiresAt |-> expiry, revoked |-> FALSE]]
    /\ UNCHANGED <<now, grant, receipt, inactive, brokerCallVars>>

\* Faulty variant: a rotation leaves the outstanding grants alone.
RotateKeepingGrants(c, expiry) ==
    /\ Readable /\ Registered(c) /\ ~credential[c].revoked /\ WasInFuture(expiry)
    /\ credential[c].version < MaxVersion
    /\ credential' = [credential EXCEPT ![c] =
            [version |-> credential[c].version + 1, expiresAt |-> expiry, revoked |-> FALSE]]
    /\ UNCHANGED <<now, grant, receipt, inactive, brokerCallVars>>

RotateCredential(c, expiry) ==
    /\ Readable /\ Registered(c) /\ ~credential[c].revoked /\ WasInFuture(expiry)
    /\ credential[c].version < MaxVersion
    /\ credential' = [credential EXCEPT ![c] =
            [version |-> credential[c].version + 1, expiresAt |-> expiry, revoked |-> FALSE]]
    /\ grant' = GrantsRevoked(c)
    /\ UNCHANGED <<now, receipt, inactive, brokerCallVars>>

RevokeCredential(c) ==
    /\ Readable /\ Registered(c)
    /\ credential' = [credential EXCEPT ![c].revoked = TRUE]
    /\ grant' = GrantsRevoked(c)
    /\ UNCHANGED <<now, receipt, inactive, brokerCallVars>>

\* Faulty variant: a grant may outlive the identity that it is issued to.
WithinCredential(w, c, expiry) ==
    /\ expiry <= now + GrantTtl
    /\ w # owner[c] => BreakGlassAuthorized(w) /\ expiry <= now + BreakGlassTtl
    /\ expiry <= credential[c].expiresAt

\* A workload other than the owner needs break-glass approval, for less time.
WithinLifetimes(w, c, expiry) ==
    /\ expiry <= now + GrantTtl
    /\ w # owner[c] => BreakGlassAuthorized(w) /\ expiry <= now + BreakGlassTtl
    /\ expiry <= credential[c].expiresAt
    /\ expiry <= identityExpiresAt[w]

\* The workload was authenticated before the lock was taken, and may have been
\* deactivated since.  validateGrant() refuses to write a grant that has expired.
IssueGrant(g, w, c, expiry) ==
    /\ Readable /\ Registered(c) /\ ~Issued(g)
    /\ CredentialUsable(c)
    /\ RequestMatches(w, c)
    /\ now < expiry /\ WithinLifetimes(w, c, expiry)
    /\ grant' = [grant EXCEPT ![g] =
            [credential |-> c, version |-> credential[c].version, workload |-> w,
             issuedAt |-> now, expiresAt |-> expiry, revoked |-> FALSE]]
    /\ UNCHANGED <<now, credential, receipt, inactive, brokerCallVars>>

\* The identity provider no longer accepts w.
Deactivate(w) ==
    /\ w \notin inactive
    /\ inactive' = inactive \cup {w}
    /\ UNCHANGED <<now, credential, grant, receipt, brokerCallVars>>
-----------------------------------------------------------------------------
(***************************************************************************)
(* executeServerSide, from one await to the next                           *)
(***************************************************************************)
Goto(k, p) ==
    /\ bpc' = [bpc EXCEPT ![k] = p]
    /\ use' = IF p = "idle" THEN [use EXCEPT ![k] = NoGrant] ELSE use
KeepStore == UNCHANGED <<now, credential, grant, receipt, inactive>>

ExecuteServerSide(k, g) ==
    /\ bpc[k] = "idle" /\ Issued(g)
    /\ Authenticated(grant[g].workload)
    /\ bpc' = [bpc EXCEPT ![k] = "called"]
    /\ use' = [use EXCEPT ![k] = g]
    /\ KeepStore /\ UNCHANGED effects

Startable(g) ==
    /\ GrantUsable(g) /\ CredentialUsable(grant[g].credential) /\ VersionMatches(g)
    /\ receipt[g] = "none"

\* The first mutation: the receipt is on disk before the vault is read.
Start(k) ==
    /\ bpc[k] = "called" /\ Readable /\ Startable(use[k])
    /\ receipt' = [receipt EXCEPT ![use[k]] = "executing"]
    /\ Goto(k, "reading")
    /\ UNCHANGED <<now, credential, grant, inactive, effects>>

\* The call throws, or returns the receipt of a use that was executed before.
Refuse(k) ==
    /\ bpc[k] = "called"
    /\ Goto(k, "idle")
    /\ KeepStore /\ UNCHANGED effects

\* The vault reference is the one of the version that the grant is for.
ReadSecret(k) ==
    /\ bpc[k] = "reading"
    /\ \/ Goto(k, "recheck")
       \/ Goto(k, "failing")
    /\ KeepStore /\ UNCHANGED effects

\* assertExecutionActive, called by the broker (recheck) and by the executor
\* immediately before its side effect (guard): first the verifiers ...
AuthenticateAgain(k) ==
    /\ bpc[k] \in {"recheck", "guard"}
    /\ Authenticated(grant[use[k]].workload)
    /\ Goto(k, IF bpc[k] = "recheck" THEN "recheckLocked" ELSE "guardLocked")
    /\ KeepStore /\ UNCHANGED effects

StillActive(g) ==
    /\ GrantUsable(g) /\ CredentialUsable(grant[g].credential) /\ VersionMatches(g)
    /\ receipt[g] = "executing"

\* ... then the store, under the lock.
AssertActive(k) ==
    /\ bpc[k] \in {"recheckLocked", "guardLocked"}
    /\ Readable /\ StillActive(use[k])
    /\ Goto(k, IF bpc[k] = "recheckLocked" THEN "guard" ELSE "armed")
    /\ KeepStore /\ UNCHANGED effects

\* A verifier or the check refuses, or the lock is not to be had.
Deny(k) ==
    /\ \/ bpc[k] \in {"recheck", "recheckLocked"} /\ Goto(k, "failing")
       \/ bpc[k] \in {"guard", "guardLocked"} /\ Goto(k, "unknown")
    /\ KeepStore /\ UNCHANGED effects

\* The executor acts at the provider; its answer may be lost.
Perform(k) ==
    /\ bpc[k] = "armed"
    /\ effects' = [effects EXCEPT ![use[k]] = @ + 1]
    /\ \/ Goto(k, "performed")
       \/ Goto(k, "unknown")
    /\ KeepStore

\* The executor throws before its side effect.
ExecutorThrows(k) ==
    /\ bpc[k] = "armed"
    /\ Goto(k, "unknown")
    /\ KeepStore /\ UNCHANGED effects

\* Faulty variant: an executor that throws has done nothing.
ErrorsAreFailures ==
    [performed |-> "executed", failing |-> "failed", unknown |-> "failed"]

\* Faulty variant: a status that the schema of receipts does not have.
ErrorsTimeOut ==
    [performed |-> "executed", failing |-> "failed", unknown |-> "timed_out"]

\* An error of the executor may have come after its side effect.
CompletedStatus ==
    [performed |-> "executed", failing |-> "failed", unknown |-> "unknown"]

\* The last mutation.
CompleteExecution(k) ==
    /\ bpc[k] \in {"performed", "failing", "unknown"}
    /\ Readable /\ receipt[use[k]] = "executing"
    /\ receipt' = [receipt EXCEPT ![use[k]] = CompletedStatus[bpc[k]]]
    /\ Goto(k, "idle")
    /\ UNCHANGED <<now, credential, grant, inactive, effects>>

\* completeExecution throws: a success becomes unknown, the others stay executing.
CompletionThrows(k) ==
    /\ bpc[k] \in {"performed", "failing", "unknown"}
    /\ Goto(k, IF bpc[k] = "performed" THEN "unknown" ELSE "idle")
    /\ KeepStore /\ UNCHANGED effects

\* The process dies; what it has not written is lost.
Die(k) ==
    /\ bpc[k] # "idle"
    /\ Goto(k, "idle")
    /\ KeepStore /\ UNCHANGED effects
-----------------------------------------------------------------------------
BrokerTick ==
    Tick /\ UNCHANGED <<credential, grant, receipt, inactive, brokerCallVars>>

\* Instants that a caller may ask for; beyond the clock's end lies never.
Expiry == 0 .. MaxTime + 1

Manage ==
    \/ \E c \in Credential :
        \/ RevokeCredential(c)
        \/ \E e \in Expiry :
            \/ RegisterCredential(c, e)
            \/ RotateCredential(c, e)
            \/ \E g \in Grant, w \in Workload : IssueGrant(g, w, c, e)
    \/ \E w \in Workload : Deactivate(w)

Use(k) ==
    \/ \E g \in Grant : ExecuteServerSide(k, g)
    \/ Start(k) \/ Refuse(k) \/ ReadSecret(k)
    \/ AuthenticateAgain(k) \/ AssertActive(k) \/ Deny(k)
    \/ Perform(k) \/ ExecutorThrows(k)
    \/ CompleteExecution(k) \/ CompletionThrows(k) \/ Die(k)

BrokerNext == BrokerTick \/ Manage \/ \E k \in Call : Use(k)
BrokerSpec == BrokerInit /\ [][BrokerNext]_brokerVars
-----------------------------------------------------------------------------
\* The variables have their types.
BrokerTypeOK ==
    /\ now \in 0 .. MaxTime
    /\ credential \in [Credential -> CredentialMetadata]
    /\ grant \in [Grant -> GrantRecord]
    /\ receipt \in [Grant -> ReceiptStatus]
    /\ inactive \subseteq Workload
    /\ bpc \in [Call -> Position]
    /\ use \in [Call -> Grant \cup {NoGrant}]
    /\ effects \in [Grant -> Nat]

\* What a use receipt says is true, whatever calls, crashes and lost answers led
\* to it: a grant acts at most once, executed means that it did, failed that it
\* did not, and nothing acts before executing is on disk.
ReceiptsTellTheTruth ==
    \A g \in Grant :
        /\ effects[g] <= 1
        /\ receipt[g] = "executed" => effects[g] = 1
        /\ receipt[g] \in {"none", "failed"} => effects[g] = 0

\* The two ways in which rotation and revocation invalidate a grant agree: a grant
\* that is not revoked is for the current version of a credential that is not
\* revoked, and expires no later than it.
LiveGrantsAreCovered ==
    \A g \in Grant : Issued(g) /\ ~grant[g].revoked =>
        LET c == grant[g].credential
        IN  /\ VersionMatches(g)
            /\ ~credential[c].revoked
            /\ grant[g].expiresAt <= credential[c].expiresAt

\* The calls that use a grant and are at some position.
At(g, positions) == {k \in Call : use[k] = g /\ bpc[k] \in positions}

\* What a grant rests on is gone: its credential was rotated or revoked or has expired, or
\* the identity of its workload has expired.
Withdrawn(g) ==
    \/ ~VersionMatches(g) \/ ~CredentialUsable(grant[g].credential)
    \/ identityExpiresAt[grant[g].workload] <= now

\* A withdrawal reaches the calls that are under way.  Once what a grant rests on is gone, no
\* further call passes its final check, although that check does not look at the expiry of
\* the identity and the verifier was asked before the lock: only calls that passed it
\* before may still act.  A workload that was deactivated is noticed one step earlier, by
\* the verifier: the calls that it accepted before may still pass the check and act.
WithdrawnUsesWindDown ==
    [][\A g \in Grant :
        /\ Withdrawn(g) => At(g, {"armed"})' \subseteq At(g, {"armed"})
        /\ grant[g].workload \in inactive =>
                At(g, {"guardLocked", "armed"})' \subseteq At(g, {"guardLocked", "armed"})
        ]_brokerVars

==============================================================================
