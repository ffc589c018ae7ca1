-------------------------- MODULE ControllersProofs --------------------------
(***************************************************************************)
(* Proofs about the controllers that keep one JSON file each and share no  *)
(* state: the credential broker, for any credentials, workloads, grants,   *)
(* lifetimes and number of calls; the trust ladder, for any targets,       *)
(* policies and bounds; the team control plane, for any members, projects, *)
(* tokens and limits; the agent inventory, its records, the resolution of  *)
(* its findings and its reports, for any payloads and remediations; and    *)
(* all of them together, as MCControllers composes them.                   *)
(***************************************************************************)
EXTENDS MCControllers, SequenceTheorems, FiniteSetTheorems, WellFoundedInduction, TLAPS

(***************************************************************************)
(* The credential broker                                                   *)
(***************************************************************************)
\* Between the two mutations of executeServerSide.
Begun == Position \ {"idle", "called"}

\* A call is made with a grant that was issued.
CallsHaveGrants == \A k \in Call : bpc[k] # "idle" => use[k] \in Grant /\ Issued(use[k])

\* A call that has begun owns the executing receipt of its grant: no other call
\* has begun on it, and its position tells what happened at the provider.
BegunIsExecuting ==
    \A k \in Call : bpc[k] \in Begun =>
        /\ receipt[use[k]] = "executing"
        /\ \A j \in Call : bpc[j] \in Begun /\ use[j] = use[k] => j = k
        /\ bpc[k] \notin {"performed", "unknown"} => effects[use[k]] = 0
        /\ bpc[k] = "performed" => effects[use[k]] = 1

\* No grant outlives the identity that it was issued to.
GrantsWithinIdentities ==
    \A g \in Grant : Issued(g) => grant[g].expiresAt <= identityExpiresAt[grant[g].workload]

\* The inductive invariant.
BrokerInv ==
    /\ BrokerTypeOK
    /\ CallsHaveGrants
    /\ BegunIsExecuting
    /\ ReceiptsTellTheTruth
    /\ LiveGrantsAreCovered
    /\ GrantsWithinIdentities

\* The empty store satisfies the invariant.
LEMMA BrokerInitInv == BrokerInit => BrokerInv
<1> SUFFICES ASSUME BrokerInit PROVE BrokerInv
    OBVIOUS
<1> USE BrokerAssumption, ClockAssumption DEF BrokerInit
<1>1. NotIssued \in GrantRecord /\ NotIssued.version = 0
  <2> DEFINE c == CHOOSE c \in Credential : TRUE
  <2>1. c \in Credential
      BY Zenon
  <2>2. owner[c] \in Workload
      BY <2>1
  <2> QED BY <2>1, <2>2 DEF NotIssued, GrantRecord
<1>2. \A g \in Grant : ~Issued(g)
    BY <1>1 DEF Issued
<1>3. NotRegistered \in CredentialMetadata
    BY DEF NotRegistered, CredentialMetadata
<1>4. BrokerTypeOK
    BY <1>1, <1>3 DEF BrokerTypeOK, ReceiptStatus, Position
<1>5. CallsHaveGrants /\ BegunIsExecuting
    BY DEF CallsHaveGrants, BegunIsExecuting, Begun
<1>6. ReceiptsTellTheTruth
    BY DEF ReceiptsTellTheTruth
<1>7. LiveGrantsAreCovered /\ GrantsWithinIdentities
    BY <1>2 DEF LiveGrantsAreCovered, GrantsWithinIdentities
<1> QED BY <1>4, <1>5, <1>6, <1>7 DEF BrokerInv

\* Revoking the grants of a credential changes nothing else about any grant.
LEMMA RevokedGrants ==
    ASSUME BrokerTypeOK, NEW c \in Credential
    PROVE  /\ GrantsRevoked(c) \in [Grant -> GrantRecord]
           /\ \A g \in Grant :
                /\ GrantsRevoked(c)[g].version = grant[g].version
                /\ GrantsRevoked(c)[g].credential = grant[g].credential
                /\ GrantsRevoked(c)[g].workload = grant[g].workload
                /\ GrantsRevoked(c)[g].expiresAt = grant[g].expiresAt
                /\ ~GrantsRevoked(c)[g].revoked =>
                    /\ ~grant[g].revoked
                    /\ ~(Issued(g) /\ grant[g].credential = c)
<1>1. \A g \in Grant : grant[g] \in GrantRecord
    BY DEF BrokerTypeOK
<1>2. ASSUME NEW g \in Grant
      PROVE  /\ GrantsRevoked(c)[g] \in GrantRecord
             /\ GrantsRevoked(c)[g].version = grant[g].version
             /\ GrantsRevoked(c)[g].credential = grant[g].credential
             /\ GrantsRevoked(c)[g].workload = grant[g].workload
             /\ GrantsRevoked(c)[g].expiresAt = grant[g].expiresAt
             /\ ~GrantsRevoked(c)[g].revoked =>
                    /\ ~grant[g].revoked
                    /\ ~(Issued(g) /\ grant[g].credential = c)
  <2>1. CASE Issued(g) /\ grant[g].credential = c
    <3>1. GrantsRevoked(c)[g] = [grant[g] EXCEPT !.revoked = TRUE]
        BY <2>1 DEF GrantsRevoked
    <3> QED BY <3>1, <1>1 DEF GrantRecord
  <2>2. CASE ~(Issued(g) /\ grant[g].credential = c)
    <3>1. GrantsRevoked(c)[g] = grant[g]
        BY <2>2, Zenon DEF GrantsRevoked
    <3> QED BY <3>1, <1>1, <2>2
  <2> QED BY <2>1, <2>2
<1>3. GrantsRevoked(c) \in [Grant -> GrantRecord]
    BY <1>2, Zenon DEF GrantsRevoked
<1> QED BY <1>2, <1>3

\* What a step that leaves the credentials and the grants alone preserves.
LEMMA SameGrants ==
    ASSUME BrokerInv, UNCHANGED <<credential, grant>>
    PROVE  /\ LiveGrantsAreCovered' /\ GrantsWithinIdentities'
           /\ \A g \in Grant : Issued(g)' = Issued(g)
BY Zenon DEF BrokerInv, LiveGrantsAreCovered, GrantsWithinIdentities, VersionMatches, Issued

\* What a step that leaves the calls alone preserves.
LEMMA SameCalls ==
    ASSUME BrokerInv, UNCHANGED <<receipt, bpc, use, effects>>,
           \A g \in Grant : Issued(g) => Issued(g)'
    PROVE  CallsHaveGrants' /\ BegunIsExecuting' /\ ReceiptsTellTheTruth'
<1>1. CallsHaveGrants'
    BY DEF BrokerInv, CallsHaveGrants
<1>2. BegunIsExecuting'
    BY Zenon DEF BrokerInv, BegunIsExecuting
<1>3. ReceiptsTellTheTruth'
    BY Zenon DEF BrokerInv, ReceiptsTellTheTruth
<1> QED BY <1>1, <1>2, <1>3

\* The clock and the operations that are one mutation preserve the invariant.
LEMMA ManageInv == BrokerInv /\ (BrokerTick \/ Manage) => BrokerInv'
<1> SUFFICES ASSUME BrokerInv, BrokerTick \/ Manage PROVE BrokerInv'
    OBVIOUS
<1> USE BrokerAssumption, ClockAssumption
<1>0. BrokerTypeOK /\ LiveGrantsAreCovered /\ GrantsWithinIdentities
    BY DEF BrokerInv
<1>00. /\ \A c \in Credential : credential[c] \in CredentialMetadata
       /\ \A g \in Grant : grant[g] \in GrantRecord
    BY <1>0 DEF BrokerTypeOK
<1>1. CASE BrokerTick
  <2>1. BrokerTypeOK'
      BY <1>0, <1>1 DEF BrokerTick, Tick, brokerCallVars, BrokerTypeOK
  <2>2. UNCHANGED <<credential, grant, receipt, bpc, use, effects>>
      BY <1>1 DEF BrokerTick, brokerCallVars
  <2> QED BY <2>1, <2>2, SameGrants, SameCalls DEF BrokerInv
<1>2. ASSUME NEW w \in Workload, Deactivate(w) PROVE BrokerInv'
  <2>1. BrokerTypeOK'
      BY <1>0, <1>2 DEF Deactivate, brokerCallVars, BrokerTypeOK
  <2>2. UNCHANGED <<credential, grant, receipt, bpc, use, effects>>
      BY <1>2 DEF Deactivate, brokerCallVars
  <2> QED BY <2>1, <2>2, SameGrants, SameCalls DEF BrokerInv
<1>3. ASSUME NEW c \in Credential, NEW e \in Expiry, RegisterCredential(c, e) PROVE BrokerInv'
  <2> DEFINE r == [version |-> 1, expiresAt |-> e, revoked |-> FALSE]
  <2>1. r \in CredentialMetadata
      BY DEF CredentialMetadata, Expiry
  <2>2. /\ credential' = [credential EXCEPT ![c] = r]
        /\ UNCHANGED <<now, grant, receipt, inactive, bpc, use, effects>>
      BY <1>3 DEF RegisterCredential, brokerCallVars
  <2>3. BrokerTypeOK'
      BY <1>0, <2>1, <2>2 DEF BrokerTypeOK
  <2>4. \A g \in Grant : Issued(g)' = Issued(g)
      BY <2>2 DEF Issued
  <2>5. ASSUME NEW g \in Grant, Issued(g), ~grant[g].revoked
        PROVE  grant[g].credential # c
    <3>1. credential[c].version = 0
        BY <1>3, <1>00 DEF RegisterCredential, Registered, CredentialMetadata
    <3> QED BY <2>5, <3>1, <1>0, <1>00
            DEF LiveGrantsAreCovered, VersionMatches, Issued, GrantRecord
  <2>6. LiveGrantsAreCovered'
    <3> SUFFICES ASSUME NEW g \in Grant, Issued(g), ~grant[g].revoked
                 PROVE  /\ grant[g].version = credential'[grant[g].credential].version
                        /\ ~credential'[grant[g].credential].revoked
                        /\ grant[g].expiresAt <= credential'[grant[g].credential].expiresAt
        BY <2>2, <2>4 DEF LiveGrantsAreCovered, VersionMatches
    <3>1. credential'[grant[g].credential] = credential[grant[g].credential]
        BY <2>2, <2>5, <1>0, <1>00 DEF BrokerTypeOK, GrantRecord
    <3> QED BY <3>1, <1>0 DEF LiveGrantsAreCovered, VersionMatches
  <2>7. GrantsWithinIdentities'
      BY <1>0, <2>2, <2>4 DEF GrantsWithinIdentities
  <2> QED BY <2>2, <2>3, <2>4, <2>6, <2>7, SameCalls DEF BrokerInv
<1>4. ASSUME NEW c \in Credential, NEW r \in CredentialMetadata,
             credential' = [credential EXCEPT ![c] = r],
             grant' = GrantsRevoked(c),
             UNCHANGED <<now, receipt, inactive, brokerCallVars>>
      PROVE  BrokerInv'
  <2>1. UNCHANGED <<receipt, bpc, use, effects>>
      BY <1>4 DEF brokerCallVars
  <2>2. BrokerTypeOK'
      BY <1>0, <1>4, <2>1, RevokedGrants DEF BrokerTypeOK
  <2>3. \A g \in Grant : Issued(g)' = Issued(g)
      BY <1>0, <1>4, RevokedGrants DEF Issued
  <2>4. LiveGrantsAreCovered'
    <3> SUFFICES ASSUME NEW g \in Grant, Issued(g), ~grant'[g].revoked
                 PROVE  /\ grant'[g].version = credential'[grant'[g].credential].version
                        /\ ~credential'[grant'[g].credential].revoked
                        /\ grant'[g].expiresAt <= credential'[grant'[g].credential].expiresAt
        BY <2>3 DEF LiveGrantsAreCovered, VersionMatches
    <3>1. ~grant[g].revoked /\ grant[g].credential # c
        BY <1>0, <1>4, RevokedGrants
    <3>2. credential'[grant[g].credential] = credential[grant[g].credential]
        BY <1>4, <3>1, <1>0, <1>00 DEF BrokerTypeOK, GrantRecord
    <3> QED BY <3>1, <3>2, <1>0, <1>4, RevokedGrants DEF LiveGrantsAreCovered, VersionMatches
  <2>5. GrantsWithinIdentities'
      BY <1>0, <1>4, <2>3, RevokedGrants DEF GrantsWithinIdentities
  <2> QED BY <2>1, <2>2, <2>3, <2>4, <2>5, SameCalls DEF BrokerInv
<1>5. ASSUME NEW c \in Credential, NEW e \in Expiry, RotateCredential(c, e) PROVE BrokerInv'
  <2> DEFINE r == [version |-> credential[c].version + 1, expiresAt |-> e, revoked |-> FALSE]
  <2>1. r \in CredentialMetadata
      BY <1>00 DEF CredentialMetadata, Expiry
  <2>2. credential' = [credential EXCEPT ![c] = r]
      BY <1>5, <1>0 DEF RotateCredential, BrokerTypeOK
  <2> QED BY <1>5, <2>1, <2>2, <1>4 DEF RotateCredential
<1>6. ASSUME NEW c \in Credential, RevokeCredential(c) PROVE BrokerInv'
  <2> DEFINE r == [credential[c] EXCEPT !.revoked = TRUE]
  <2>1. r \in CredentialMetadata
      BY <1>00 DEF CredentialMetadata
  <2>2. credential' = [credential EXCEPT ![c] = r]
      BY <1>6, <1>0 DEF RevokeCredential, BrokerTypeOK
  <2> QED BY <1>6, <2>1, <2>2, <1>4 DEF RevokeCredential
<1>7. ASSUME NEW c \in Credential, NEW e \in Expiry, NEW g \in Grant, NEW w \in Workload,
             IssueGrant(g, w, c, e)
      PROVE  BrokerInv'
  <2> DEFINE r == [credential |-> c, version |-> credential[c].version, workload |-> w,
                   issuedAt |-> now, expiresAt |-> e, revoked |-> FALSE]
  <2>1. r \in GrantRecord
      BY <1>0, <1>00 DEF GrantRecord, Expiry, CredentialMetadata, BrokerTypeOK
  <2>2. /\ grant' = [grant EXCEPT ![g] = r]
        /\ UNCHANGED <<now, credential, receipt, inactive, bpc, use, effects>>
      BY <1>7 DEF IssueGrant, brokerCallVars
  <2>3. BrokerTypeOK'
      BY <1>0, <2>1, <2>2 DEF BrokerTypeOK
  <2>4. /\ grant'[g] = r /\ Issued(g)'
        /\ \A h \in Grant \ {g} : grant'[h] = grant[h] /\ (Issued(h)' = Issued(h))
      BY <1>0, <1>7, <2>2 DEF IssueGrant, Registered, Issued, BrokerTypeOK
  <2>5. /\ e <= identityExpiresAt[w] /\ e <= credential[c].expiresAt
        /\ ~credential[c].revoked
      BY <1>7 DEF IssueGrant, WithinLifetimes, CredentialUsable
  <2>6. LiveGrantsAreCovered'
    <3> SUFFICES ASSUME NEW h \in Grant, Issued(h)', ~grant'[h].revoked
                 PROVE  /\ grant'[h].version = credential[grant'[h].credential].version
                        /\ ~credential[grant'[h].credential].revoked
                        /\ grant'[h].expiresAt <= credential[grant'[h].credential].expiresAt
        BY <2>2 DEF LiveGrantsAreCovered, VersionMatches
    <3>1. CASE h = g
        BY <3>1, <2>4, <2>5
    <3>2. CASE h # g
        BY <3>2, <2>4, <1>0 DEF LiveGrantsAreCovered, VersionMatches
    <3> QED BY <3>1, <3>2
  <2>7. GrantsWithinIdentities'
      BY <1>0, <2>4, <2>5 DEF GrantsWithinIdentities
  <2>8. \A h \in Grant : Issued(h) => Issued(h)'
      BY <2>4
  <2> QED BY <2>2, <2>3, <2>6, <2>7, <2>8, SameCalls DEF BrokerInv
<1> QED BY <1>1, <1>2, <1>3, <1>5, <1>6, <1>7 DEF Manage

\* A call moves and writes nothing: out of the handler, or on without having to say
\* more about the provider than before.
LEMMA MoveInv ==
    ASSUME BrokerInv, NEW k \in Call, NEW p \in Position, Goto(k, p), KeepStore,
           UNCHANGED effects,
           \/ p = "idle"
           \/ /\ bpc[k] \in Begun /\ p \in Begun
              /\ p = "unknown" \/ (p # "performed" /\ bpc[k] \notin {"performed", "unknown"})
    PROVE  BrokerInv'
<1> USE BrokerAssumption
<1>1. BrokerTypeOK /\ CallsHaveGrants /\ BegunIsExecuting /\ ReceiptsTellTheTruth
    BY DEF BrokerInv
<1>2. UNCHANGED <<now, credential, grant, receipt, inactive, effects>>
    BY DEF KeepStore
<1>3. /\ bpc'[k] = p
      /\ \A j \in Call \ {k} : bpc'[j] = bpc[j] /\ use'[j] = use[j]
      /\ p # "idle" => use'[k] = use[k]
    BY <1>1 DEF Goto, BrokerTypeOK
<1>4. BrokerTypeOK'
    BY <1>1, <1>2 DEF Goto, BrokerTypeOK
<1>5. \A g \in Grant : Issued(g)' = Issued(g)
    BY <1>2 DEF Issued
<1>6. CallsHaveGrants'
    BY <1>1, <1>3, <1>5 DEF CallsHaveGrants, Begun
<1>7. ASSUME NEW j \in Call, bpc'[j] \in Begun PROVE bpc[j] \in Begun /\ use'[j] = use[j]
    BY <1>3, <1>7 DEF Begun
<1>8. BegunIsExecuting'
  <2> SUFFICES ASSUME NEW j \in Call, bpc'[j] \in Begun
               PROVE  /\ receipt[use[j]] = "executing"
                      /\ \A i \in Call : bpc'[i] \in Begun /\ use'[i] = use[j] => i = j
                      /\ bpc'[j] \notin {"performed", "unknown"} => effects[use[j]] = 0
                      /\ bpc'[j] = "performed" => effects[use[j]] = 1
      BY <1>2, <1>7 DEF BegunIsExecuting, Begun
  <2>1. receipt[use[j]] = "executing"
      BY <1>1, <1>7 DEF BegunIsExecuting
  <2>2. \A i \in Call : bpc'[i] \in Begun /\ use'[i] = use[j] => i = j
      BY <1>1, <1>7 DEF BegunIsExecuting
  <2>3. CASE j = k
      BY <2>1, <2>2, <2>3, <1>1, <1>3 DEF BegunIsExecuting, Begun
  <2>4. CASE j # k
      BY <2>1, <2>2, <2>4, <1>1, <1>3 DEF BegunIsExecuting
  <2> QED BY <2>3, <2>4
<1>9. ReceiptsTellTheTruth'
    BY <1>1, <1>2 DEF ReceiptsTellTheTruth
<1> QED BY <1>2, <1>4, <1>6, <1>8, <1>9, SameGrants DEF BrokerInv

\* The steps of a call preserve the invariant.
LEMMA UseInv == ASSUME BrokerInv, NEW k \in Call, Use(k) PROVE BrokerInv'
<1> USE BrokerAssumption
<1>0. BrokerTypeOK /\ CallsHaveGrants /\ BegunIsExecuting /\ ReceiptsTellTheTruth
    BY DEF BrokerInv
<1>1. ASSUME NEW g \in Grant, ExecuteServerSide(k, g) PROVE BrokerInv'
  <2>1. /\ bpc' = [bpc EXCEPT ![k] = "called"] /\ use' = [use EXCEPT ![k] = g]
        /\ UNCHANGED <<now, credential, grant, receipt, inactive, effects>> /\ Issued(g)
      BY <1>1 DEF ExecuteServerSide, KeepStore
  <2>2. BrokerTypeOK'
      BY <1>0, <2>1 DEF BrokerTypeOK, Position
  <2>3. /\ bpc'[k] = "called" /\ use'[k] = g
        /\ \A j \in Call \ {k} : bpc'[j] = bpc[j] /\ use'[j] = use[j]
      BY <1>0, <2>1 DEF BrokerTypeOK
  <2>4. CallsHaveGrants'
      BY <1>0, <2>1, <2>3 DEF CallsHaveGrants, Issued
  <2>5. BegunIsExecuting'
      BY <1>0, <2>1, <2>3 DEF BegunIsExecuting, Begun
  <2>6. ReceiptsTellTheTruth'
      BY <1>0, <2>1 DEF ReceiptsTellTheTruth
  <2> QED BY <2>1, <2>2, <2>4, <2>5, <2>6, SameGrants DEF BrokerInv
<1>2. CASE Start(k)
  <2> DEFINE g == use[k]
  <2>1. g \in Grant /\ receipt[g] = "none" /\ bpc[k] = "called"
      BY <1>0, <1>2 DEF Start, Startable, CallsHaveGrants
  <2>2. /\ receipt' = [receipt EXCEPT ![g] = "executing"]
        /\ bpc' = [bpc EXCEPT ![k] = "reading"] /\ use' = use
        /\ UNCHANGED <<now, credential, grant, inactive, effects>>
      BY <1>2 DEF Start, Goto
  <2>3. BrokerTypeOK'
      BY <1>0, <2>1, <2>2 DEF BrokerTypeOK, Position, ReceiptStatus
  <2>4. /\ bpc'[k] = "reading" /\ receipt'[g] = "executing"
        /\ \A j \in Call \ {k} : bpc'[j] = bpc[j]
        /\ \A h \in Grant \ {g} : receipt'[h] = receipt[h]
      BY <1>0, <2>1, <2>2 DEF BrokerTypeOK
  <2>5. CallsHaveGrants'
      BY <1>0, <2>1, <2>2, <2>4 DEF CallsHaveGrants, Issued
  <2>6. effects[g] = 0
      BY <1>0, <2>1 DEF ReceiptsTellTheTruth
  <2>7. \A j \in Call : bpc[j] \in Begun => use[j] \in Grant /\ use[j] # g
      BY <1>0, <2>1 DEF BegunIsExecuting, CallsHaveGrants, Begun
  <2>8. BegunIsExecuting'
      BY <1>0, <2>2, <2>4, <2>6, <2>7 DEF BegunIsExecuting, Begun
  <2>9. ReceiptsTellTheTruth'
      BY <1>0, <2>1, <2>2, <2>4, <2>6 DEF ReceiptsTellTheTruth
  <2> QED BY <2>2, <2>3, <2>5, <2>8, <2>9, SameGrants DEF BrokerInv
<1>3. CASE Perform(k)
  <2> DEFINE g == use[k]
  <2>1. /\ g \in Grant /\ bpc[k] = "armed" /\ bpc[k] \in Begun
        /\ receipt[g] = "executing" /\ effects[g] = 0
      BY <1>0, <1>3 DEF Perform, CallsHaveGrants, BegunIsExecuting, Begun, Position
  <2>2. PICK p \in {"performed", "unknown"} : bpc' = [bpc EXCEPT ![k] = p] /\ use' = use
      BY <1>3 DEF Perform, Goto
  <2>3. /\ effects' = [effects EXCEPT ![g] = effects[g] + 1]
        /\ UNCHANGED <<now, credential, grant, receipt, inactive>>
      BY <1>3 DEF Perform, KeepStore
  <2>4. BrokerTypeOK'
      BY <1>0, <2>1, <2>2, <2>3 DEF BrokerTypeOK, Position
  <2>5. /\ bpc'[k] = p /\ effects'[g] = 1
        /\ \A j \in Call \ {k} : bpc'[j] = bpc[j]
        /\ \A h \in Grant \ {g} : effects'[h] = effects[h]
      BY <1>0, <2>1, <2>2, <2>3 DEF BrokerTypeOK
  <2>6. CallsHaveGrants'
      BY <1>0, <2>1, <2>2, <2>3, <2>5 DEF CallsHaveGrants, Issued
  <2>7. \A j \in Call \ {k} : bpc[j] \in Begun => use[j] \in Grant /\ use[j] # g
      BY <1>0, <2>1 DEF BegunIsExecuting, CallsHaveGrants, Begun
  <2>8. BegunIsExecuting'
      BY <1>0, <2>1, <2>2, <2>3, <2>5, <2>7 DEF BegunIsExecuting, Begun
  <2>9. ReceiptsTellTheTruth'
      BY <1>0, <2>1, <2>3, <2>5 DEF ReceiptsTellTheTruth
  <2> QED BY <2>3, <2>4, <2>6, <2>8, <2>9, SameGrants DEF BrokerInv
<1>4. CASE CompleteExecution(k)
  <2> DEFINE g == use[k]
             s == CompletedStatus[bpc[k]]
  <2>1. /\ g \in Grant /\ bpc[k] \in {"performed", "failing", "unknown"} /\ bpc[k] \in Begun
      BY <1>0, <1>4 DEF CompleteExecution, CallsHaveGrants, Begun, Position
  <2>2. /\ s \in {"executed", "failed", "unknown"}
        /\ s = "executed" => bpc[k] = "performed"
        /\ s = "failed" => bpc[k] = "failing"
      BY <2>1 DEF CompletedStatus
  <2>3. /\ receipt' = [receipt EXCEPT ![g] = s]
        /\ bpc' = [bpc EXCEPT ![k] = "idle"] /\ use' = [use EXCEPT ![k] = NoGrant]
        /\ UNCHANGED <<now, credential, grant, inactive, effects>>
      BY <1>4 DEF CompleteExecution, Goto
  <2>4. BrokerTypeOK'
      BY <1>0, <2>1, <2>2, <2>3 DEF BrokerTypeOK, Position, ReceiptStatus
  <2>5. /\ bpc'[k] = "idle" /\ receipt'[g] = s
        /\ \A j \in Call \ {k} : bpc'[j] = bpc[j] /\ use'[j] = use[j]
        /\ \A h \in Grant \ {g} : receipt'[h] = receipt[h]
      BY <1>0, <2>1, <2>3 DEF BrokerTypeOK
  <2>6. CallsHaveGrants'
      BY <1>0, <2>3, <2>5 DEF CallsHaveGrants, Issued
  <2>7. \A j \in Call \ {k} : bpc[j] \in Begun => use[j] \in Grant /\ use[j] # g
      BY <1>0, <2>1 DEF BegunIsExecuting, CallsHaveGrants, Begun
  <2>8. BegunIsExecuting'
      BY <1>0, <2>3, <2>5, <2>7 DEF BegunIsExecuting, Begun
  <2>9. ReceiptsTellTheTruth'
      BY <1>0, <2>1, <2>2, <2>3, <2>5 DEF ReceiptsTellTheTruth, BegunIsExecuting
  <2> QED BY <2>3, <2>4, <2>6, <2>8, <2>9, SameGrants DEF BrokerInv
<1>5. CASE Refuse(k) \/ Die(k)
    BY <1>5, MoveInv DEF Refuse, Die, Position
<1>6. CASE ReadSecret(k) \/ AuthenticateAgain(k) \/ AssertActive(k)
  <2>1. PICK p \in {"recheck", "failing", "recheckLocked", "guardLocked", "guard", "armed"} :
            /\ Goto(k, p) /\ KeepStore /\ UNCHANGED effects
            /\ bpc[k] \in {"reading", "recheck", "guard", "recheckLocked", "guardLocked"}
      BY <1>6 DEF ReadSecret, AuthenticateAgain, AssertActive
  <2> QED BY <2>1, MoveInv DEF Begun, Position
<1>7. CASE Deny(k) \/ ExecutorThrows(k)
  <2>1. PICK p \in {"failing", "unknown"} :
            /\ Goto(k, p) /\ KeepStore /\ UNCHANGED effects
            /\ bpc[k] \in {"recheck", "guard", "recheckLocked", "guardLocked", "armed"}
      BY <1>7 DEF Deny, ExecutorThrows
  <2> QED BY <2>1, MoveInv DEF Begun, Position
<1>8. CASE CompletionThrows(k)
  <2>1. PICK p \in {"unknown", "idle"} :
            /\ Goto(k, p) /\ KeepStore /\ UNCHANGED effects
            /\ bpc[k] \in {"performed", "failing", "unknown"}
      BY <1>8 DEF CompletionThrows
  <2> QED BY <2>1, MoveInv DEF Begun, Position
<1> QED BY <1>1, <1>2, <1>3, <1>4, <1>5, <1>6, <1>7, <1>8 DEF Use

\* Steps and stuttering preserve the invariant.
LEMMA BrokerStepInv == BrokerInv /\ [BrokerNext]_brokerVars => BrokerInv'
<1> SUFFICES ASSUME BrokerInv, [BrokerNext]_brokerVars PROVE BrokerInv'
    OBVIOUS
<1>1. CASE BrokerTick \/ Manage
    BY <1>1, ManageInv
<1>2. ASSUME NEW k \in Call, Use(k) PROVE BrokerInv'
    BY <1>2, UseInv
<1>3. CASE UNCHANGED brokerVars
  <2>1. UNCHANGED <<now, credential, grant, receipt, inactive, bpc, use, effects>>
      BY <1>3 DEF brokerVars
  <2>2. BrokerTypeOK'
      BY <2>1 DEF BrokerInv, BrokerTypeOK
  <2> QED BY <2>1, <2>2, SameGrants, SameCalls DEF BrokerInv
<1> QED BY <1>1, <1>2, <1>3 DEF BrokerNext

\* The broker keeps its invariant, for any credentials, grants and calls.
THEOREM BrokerInvariance == BrokerSpec => []BrokerInv
BY BrokerInitInv, BrokerStepInv, PTL DEF BrokerSpec

\* The variables of the broker keep their types.
THEOREM BrokerTypeCorrect == BrokerSpec => []BrokerTypeOK
<1>1. BrokerInv => BrokerTypeOK
    BY DEF BrokerInv
<1> QED BY BrokerInvariance, <1>1, PTL

\* Receipts are true: a grant acts at the provider at most once, and what its
\* receipt says of it happened or did not happen.
THEOREM ReceiptsAreTrue == BrokerSpec => []ReceiptsTellTheTruth
<1>1. BrokerInv => ReceiptsTellTheTruth
    BY DEF BrokerInv
<1> QED BY BrokerInvariance, <1>1, PTL

\* Rotation and revocation leave no live grant behind.
THEOREM NoStaleGrants == BrokerSpec => []LiveGrantsAreCovered
<1>1. BrokerInv => LiveGrantsAreCovered
    BY DEF BrokerInv
<1> QED BY BrokerInvariance, <1>1, PTL

\* A call keeps its grant while it goes on.
LEMMA UseStays ==
    ASSUME BrokerInv, [BrokerNext]_brokerVars, NEW k \in Call, bpc[k] # "idle", bpc'[k] # "idle"
    PROVE  use'[k] = use[k]
<1>1. ASSUME NEW j \in Call, Use(j) PROVE use'[k] = use[k]
    BY <1>1 DEF BrokerInv, BrokerTypeOK, Use, ExecuteServerSide, Start, Refuse,
        ReadSecret, AuthenticateAgain, AssertActive, Deny, Perform, ExecutorThrows,
        CompleteExecution, CompletionThrows, Die, Goto
<1>2. BrokerTick \/ Manage \/ UNCHANGED brokerVars => use'[k] = use[k]
    BY DEF BrokerTick, Manage, RegisterCredential, RotateCredential,
        RevokeCredential, IssueGrant, Deactivate, brokerCallVars, brokerVars
<1> QED BY <1>1, <1>2 DEF BrokerNext

\* Withdrawals reach the calls that are under way: a call gets to its side effect only
\* through the final check, which a withdrawn grant does not pass, and to that check only
\* through the verifier, which does not accept a deactivated workload.
THEOREM WithdrawalsReachUses == BrokerSpec => WithdrawnUsesWindDown
<1> DEFINE Locked == {"guardLocked", "armed"}
           P == \A g \in Grant :
                  /\ Withdrawn(g) => At(g, {"armed"})' \subseteq At(g, {"armed"})
                  /\ grant[g].workload \in inactive =>
                        At(g, {"guardLocked", "armed"})' \subseteq At(g, {"guardLocked", "armed"})
<1>1. ASSUME BrokerInv, [BrokerNext]_brokerVars, NEW k \in Call, bpc'[k] \in Locked,
             ~(bpc[k] \in Locked /\ bpc'[k] = bpc[k])
      PROVE  /\ use'[k] = use[k] /\ use[k] \in Grant /\ Issued(use[k])
             /\ \/ AssertActive(k) /\ bpc[k] = "guardLocked"
                \/ AuthenticateAgain(k) /\ bpc'[k] = "guardLocked"
  <2>1. /\ use'[k] = use[k]
        /\ \/ AssertActive(k) /\ bpc[k] = "guardLocked"
           \/ AuthenticateAgain(k) /\ bpc'[k] = "guardLocked"
    <3>1. ASSUME NEW j \in Call, Use(j)
          PROVE  /\ use'[k] = use[k]
                 /\ \/ AssertActive(k) /\ bpc[k] = "guardLocked"
                    \/ AuthenticateAgain(k) /\ bpc'[k] = "guardLocked"
        BY <1>1, <3>1 DEF BrokerInv, BrokerTypeOK, Use, ExecuteServerSide, Start, Refuse,
            ReadSecret, AuthenticateAgain, AssertActive, Deny, Perform, ExecutorThrows,
            CompleteExecution, CompletionThrows, Die, Goto
    <3>2. ~(BrokerTick \/ Manage \/ UNCHANGED brokerVars)
        BY <1>1 DEF BrokerTick, Manage, RegisterCredential, RotateCredential,
            RevokeCredential, IssueGrant, Deactivate, brokerCallVars, brokerVars
    <3> QED BY <1>1, <3>1, <3>2 DEF BrokerNext
  <2>2. use[k] \in Grant /\ Issued(use[k])
      BY <1>1, <2>1 DEF BrokerInv, CallsHaveGrants, AssertActive, AuthenticateAgain
  <2> QED BY <2>1, <2>2
<1>2. ASSUME BrokerInv, NEW g \in Grant, Issued(g), StillActive(g) PROVE ~Withdrawn(g)
  <2>1. now \in Nat /\ grant[g] \in GrantRecord
      BY <1>2, ClockAssumption DEF BrokerInv, BrokerTypeOK
  <2>2. identityExpiresAt[grant[g].workload] \in Nat
      BY <2>1, BrokerAssumption DEF GrantRecord
  <2>3. grant[g].expiresAt <= identityExpiresAt[grant[g].workload]
      BY <1>2 DEF BrokerInv, GrantsWithinIdentities
  <2>4. now < identityExpiresAt[grant[g].workload]
      BY <1>2, <2>1, <2>2, <2>3 DEF StillActive, GrantUsable, GrantRecord
  <2> QED BY <1>2, <2>1, <2>2, <2>4 DEF StillActive, Withdrawn
<1>3. ASSUME BrokerInv, [BrokerNext]_brokerVars, NEW g \in Grant, Withdrawn(g)
      PROVE  At(g, {"armed"})' \subseteq At(g, {"armed"})
  <2> SUFFICES ASSUME NEW k \in Call, use'[k] = g, bpc'[k] = "armed",
                      ~(use[k] = g /\ bpc[k] = "armed")
               PROVE  FALSE
      BY DEF At
  <2>1. CASE bpc[k] = "armed"
      BY <1>3, <2>1, UseStays
  <2>2. CASE bpc[k] # "armed"
    <3>1. AssertActive(k) /\ use[k] = g /\ Issued(g)
        BY <1>1, <1>3, <2>2
    <3> QED BY <1>2, <1>3, <3>1 DEF AssertActive
  <2> QED BY <2>1, <2>2
<1>4. ASSUME BrokerInv, [BrokerNext]_brokerVars, NEW g \in Grant, grant[g].workload \in inactive
      PROVE  At(g, {"guardLocked", "armed"})' \subseteq At(g, {"guardLocked", "armed"})
  <2> SUFFICES ASSUME NEW k \in Call, use'[k] = g, bpc'[k] \in Locked,
                      ~(use[k] = g /\ bpc[k] \in Locked)
               PROVE  FALSE
      BY DEF At
  <2>1. CASE bpc[k] \in Locked
      BY <1>4, <2>1, UseStays
  <2>2. CASE bpc[k] \notin Locked
    <3>1. AuthenticateAgain(k) /\ use[k] = g
        BY <1>1, <1>4, <2>2
    <3> QED BY <1>4, <3>1 DEF AuthenticateAgain, Authenticated
  <2> QED BY <2>1, <2>2
<1>5. BrokerInv /\ [BrokerNext]_brokerVars => [P]_brokerVars
    BY <1>3, <1>4
<1> HIDE DEF P
<1>6. BrokerSpec => [][P]_brokerVars
    BY <1>5, BrokerInvariance, PTL DEF BrokerSpec
<1> QED BY <1>6, PTL DEF WithdrawnUsesWindDown, P
-----------------------------------------------------------------------------
(***************************************************************************)
(* The trust ladder                                                        *)
(***************************************************************************)
Record == [event : AuditEvent, target : Target, from : Supported, to : Supported]
\* The outcomes of a canary run.
Outcome == {"success", "violation", "error"}

\* The inductive invariant of types and stop conditions.
LadderInv == LadderTypeOK /\ StopConditionsHold

\* The records that an outcome appends are records.
LEMMA OutcomeRecordsType ==
    ASSUME LadderTypeOK, NEW t \in Target, NEW demoted \in BOOLEAN, NEW opened \in BOOLEAN
    PROVE  OutcomeRecords(t, demoted, opened) \in Seq(Record)
<1> DEFINE l == IF demoted THEN "approve" ELSE level[t]
           first == <<Note("canary.outcome", t)>>
           second == IF demoted THEN <<AuditRecord("trust.auto_demoted", t, level[t], "approve")>>
                     ELSE <<>>
           third == IF opened THEN <<AuditRecord("canary.circuit_opened", t, l, l)>> ELSE <<>>
<1>1. level[t] \in Supported /\ "approve" \in Supported
    BY DEF LadderTypeOK, Supported
<1>2. first \in Seq(Record)
    BY <1>1 DEF Note, AuditRecord, Record, AuditEvent
<1>3. second \in Seq(Record)
  <2>1. AuditRecord("trust.auto_demoted", t, level[t], "approve") \in Record
      BY <1>1 DEF AuditRecord, Record, AuditEvent
  <2>2. CASE demoted
      BY <2>1, <2>2
  <2>3. CASE ~demoted
      BY <2>3
  <2> QED BY <2>2, <2>3
<1>4. third \in Seq(Record)
  <2>1. l \in Supported
      BY <1>1
  <2> HIDE DEF l
  <2>2. AuditRecord("canary.circuit_opened", t, l, l) \in Record
      BY <2>1 DEF AuditRecord, Record, AuditEvent
  <2>3. CASE opened
      BY <2>2, <2>3
  <2>4. CASE ~opened
      BY <2>4
  <2> QED BY <2>3, <2>4
<1>5. OutcomeRecords(t, demoted, opened) = first \o second \o third
    BY DEF OutcomeRecords
<1> HIDE DEF first, second, third
<1> QED BY <1>2, <1>3, <1>4, <1>5

\* The empty store satisfies the invariant.
LEMMA LadderInitInv == LadderInit => LadderInv
BY ClockAssumption DEF LadderInit, LadderInv, LadderTypeOK, StopConditionsHold, Supported

\* A step that counts no outcome and closes no breaker keeps the stop conditions.
LEMMA SameOutcomes ==
    ASSUME StopConditionsHold, UNCHANGED <<breaker, violations, errors>>
    PROVE  StopConditionsHold'
BY DEF StopConditionsHold

\* What the steps other than outcomes do to the types.
LEMMA ChangeType ==
    ASSUME LadderTypeOK, NEW t \in Target, NEW m \in Supported, NEW r \in Record,
           known' = known \cup {t}, level' = [level EXCEPT ![t] = m],
           audit' = audit \o <<r>>, UNCHANGED <<now, breaker, violations, errors>>
    PROVE  LadderTypeOK'
<1>1. audit \in Seq(Record)
    BY DEF LadderTypeOK, Record
<1>2. audit' \in Seq(Record)
    BY <1>1
<1> QED BY <1>2 DEF LadderTypeOK, Record

\* A promotion counts no outcome: what the stop conditions are about stays.
LEMMA PromoteInv ==
    ASSUME LadderInv, NEW t \in Target, NEW m \in Level, NEW p \in Policy, NEW e \in Evidence,
           Promote(t, m, p, e)
    PROVE  LadderInv'
<1>1. m \in Supported /\ level[t] \in Supported
    BY DEF Promote, IsNextSupported, LadderInv, LadderTypeOK
<1>2. AuditRecord("trust.promoted", t, level[t], m) \in Record
    BY <1>1 DEF AuditRecord, Record, AuditEvent
<1>3. LadderTypeOK'
    BY <1>1, <1>2, ChangeType DEF Promote, AppendAudit, Touch, LadderInv
<1> QED BY <1>3, SameOutcomes DEF LadderInv, Promote

\* An outcome that meets a stop condition opens the breaker in the same mutation.
LEMMA OutcomeInv ==
    ASSUME LadderInv, NEW t \in Target, NEW p \in Policy, NEW o \in Outcome,
           RecordCanaryOutcome(t, p, o)
    PROVE  LadderInv'
<1> USE LadderAssumption DEF ValidPolicies
<1> DEFINE v == violations[t] + (IF o = "violation" THEN 1 ELSE 0)
           e == errors[t] + (IF o = "error" THEN 1 ELSE 0)
           demoted == o = "violation" /\ violationResponse[p] = "demote_to_approve"
           opened == \/ o = "violation" /\ violationResponse[p] = "open_circuit_breaker"
                     \/ StopBreached(p, v, e)
<1>0. LadderTypeOK /\ StopConditionsHold
    BY DEF LadderInv
<1>1. v \in Nat /\ e \in Nat
    BY <1>0 DEF LadderTypeOK
<1>2. /\ t \in inCanary[p]
      /\ known' = known \cup {t}
      /\ violations' = [violations EXCEPT ![t] = v]
      /\ errors' = [errors EXCEPT ![t] = e]
      /\ level' = IF demoted THEN [level EXCEPT ![t] = "approve"] ELSE level
      /\ breaker' = IF opened THEN [breaker EXCEPT ![t] = "open"] ELSE breaker
      /\ audit' = audit \o OutcomeRecords(t, demoted, opened)
      /\ now' = now
    BY DEF RecordCanaryOutcome, AppendAudit, Touch, CanaryAssigned
<1>3. demoted \in BOOLEAN /\ opened \in BOOLEAN
    BY DEF StopBreached
<1>4. ~opened => ~StopBreached(p, v, e)
    OBVIOUS
<1> HIDE DEF v, e, demoted, opened
<1>5. audit' \in Seq(Record)
  <2>1. OutcomeRecords(t, demoted, opened) \in Seq(Record)
      BY <1>0, <1>3, OutcomeRecordsType
  <2>2. audit \in Seq(Record)
      BY <1>0 DEF LadderTypeOK, Record
  <2> QED BY <2>1, <2>2, <1>2
<1>types. /\ now \in 0 .. MaxTime /\ known \subseteq Target
      /\ level \in [Target -> Supported] /\ breaker \in [Target -> {"closed", "open"}]
      /\ violations \in [Target -> Nat] /\ errors \in [Target -> Nat]
    BY <1>0 DEF LadderTypeOK
<1>6. LadderTypeOK'
  <2>1. known' \subseteq Target /\ now' \in 0 .. MaxTime
      BY <1>2, <1>types
  <2>2. level' \in [Target -> Supported]
      BY <1>2, <1>types DEF Supported
  <2>3. breaker' \in [Target -> {"closed", "open"}]
      BY <1>2, <1>types
  <2>4. violations' \in [Target -> Nat] /\ errors' \in [Target -> Nat]
      BY <1>1, <1>2, <1>types
  <2> QED BY <1>5, <2>1, <2>2, <2>3, <2>4 DEF LadderTypeOK, Record
<1>7. StopConditionsHold'
  <2> SUFFICES ASSUME NEW s \in Target, breaker'[s] = "closed", violations'[s] + errors'[s] > 0
               PROVE  \E q \in Policy :
                        /\ s \in inCanary[q]
                        /\ violations'[s] = 0 \/ violations'[s] < maxViolations[q]
                        /\ errors'[s] = 0 \/ errors'[s] < maxErrors[q]
      BY DEF StopConditionsHold
  <2>1. CASE s = t
    <3>1. ~opened
        BY <1>2, <1>types, <2>1
    <3>2. violations'[t] = v /\ errors'[t] = e
        BY <1>2, <1>types
    <3>3. maxViolations[p] \in Nat /\ maxErrors[p] \in Nat
        OBVIOUS
    <3>4. (v = 0 \/ v < maxViolations[p]) /\ (e = 0 \/ e < maxErrors[p])
        BY <1>1, <1>4, <3>1, <3>3 DEF StopBreached
    <3> QED BY <1>2, <2>1, <3>2, <3>4
  <2>2. CASE s # t
    <3>1. /\ violations'[s] = violations[s] /\ errors'[s] = errors[s]
          /\ breaker[s] = "closed"
        BY <1>2, <1>types, <2>2
    <3> QED BY <1>0, <3>1 DEF StopConditionsHold
  <2> QED BY <2>1, <2>2
<1> QED BY <1>6, <1>7 DEF LadderInv

\* Every operation, the clock and stuttering preserve the invariant.
LEMMA LadderStepInv == LadderInv /\ [LadderNext]_ladderVars => LadderInv'
<1> SUFFICES ASSUME LadderInv, [LadderNext]_ladderVars PROVE LadderInv'
    OBVIOUS
<1>0. LadderTypeOK /\ StopConditionsHold
    BY DEF LadderInv
<1>1. CASE LadderTick \/ UNCHANGED ladderVars
  <2>1. LadderTypeOK'
      BY <1>0, <1>1, ClockAssumption DEF LadderTick, Tick, ladderVars, LadderTypeOK
  <2>2. UNCHANGED <<breaker, violations, errors>>
      BY <1>1 DEF LadderTick, ladderVars
  <2> QED BY <1>0, <2>1, <2>2, SameOutcomes DEF LadderInv
<1>2. ASSUME NEW t \in Target, LadderStep(t) PROVE LadderInv'
  <2>1. CASE Inspect(t) \/ AssignCanary(t)
    <3>1. LadderTypeOK'
        BY <1>0, <2>1 DEF Inspect, AssignCanary, Touch, LadderTypeOK
    <3> QED BY <1>0, <2>1, <3>1, SameOutcomes DEF Inspect, AssignCanary, LadderInv
  <2>2. CASE RollbackToApproval(t)
    <3>1. "approve" \in Supported /\ level[t] \in Supported
        BY <1>0 DEF Supported, LadderTypeOK
    <3>2. AuditRecord("trust.rollback_to_approval", t, level[t], "approve") \in Record
        BY <3>1 DEF AuditRecord, Record, AuditEvent
    <3>3. LadderTypeOK'
        BY <1>0, <2>2, <3>1, <3>2, ChangeType DEF RollbackToApproval, AppendAudit, Touch
    <3> QED BY <1>0, <2>2, <3>3, SameOutcomes DEF RollbackToApproval, LadderInv
  <2>3. ASSUME NEW l \in Supported, NEW event \in AuditEvent, Compare(t, l, event) PROVE LadderInv'
    <3>1. level[t] \in Supported /\ level' = [level EXCEPT ![t] = level[t]]
        BY <1>0, <2>3 DEF LadderTypeOK, Compare
    <3>2. Note(event, t) \in Record
        BY <3>1 DEF Note, AuditRecord, Record, AuditEvent
    <3>3. LadderTypeOK'
        BY <1>0, <2>3, <3>1, <3>2, ChangeType DEF Compare, AppendAudit, Touch
    <3> QED BY <1>0, <2>3, <3>3, SameOutcomes DEF Compare, LadderInv
  <2>4. CASE \/ Compare(t, "shadow", "shadow.compared")
             \/ Compare(t, "bounded-auto", "bounded.outcome_compared")
      BY <2>3, <2>4 DEF Supported, AuditEvent
  <2>5. CASE \E p \in Policy, m \in Level, e \in Evidence : Promote(t, m, p, e)
      BY <2>5, PromoteInv
  <2>6. CASE \E p \in Policy, o \in Outcome : RecordCanaryOutcome(t, p, o)
      BY <2>6, OutcomeInv
  <2> QED BY <1>2, <2>1, <2>2, <2>4, <2>5, <2>6 DEF LadderStep, Outcome
<1> QED BY <1>1, <1>2 DEF LadderNext

\* The ladder keeps its invariant, for any targets and policies.
THEOREM LadderInvariance == LadderSpec => []LadderInv
BY LadderInitInv, LadderStepInv, PTL DEF LadderSpec

\* No target reaches a level that the ladder does not support.
THEOREM LadderTypeCorrect == LadderSpec => []LadderTypeOK
<1>1. LadderInv => LadderTypeOK
    BY DEF LadderInv
<1> QED BY LadderInvariance, <1>1, PTL

\* A canary never runs on past the stop conditions of every policy it is under.
THEOREM CanariesStopInTime == LadderSpec => []StopConditionsHold
<1>1. LadderInv => StopConditionsHold
    BY DEF LadderInv
<1> QED BY LadderInvariance, <1>1, PTL

\* An open breaker holds its target for ever.
THEOREM OpenBreakersHold == LadderSpec => OpenBreakerHolds
<1> DEFINE Held(t) == /\ breaker'[t] = "open"
                      /\ violations'[t] = violations[t] /\ errors'[t] = errors[t]
                      /\ level'[t] \in {level[t], "approve"}
<1>1. ASSUME LadderTypeOK, [LadderNext]_ladderVars, NEW t \in Target, breaker[t] = "open"
      PROVE  Held(t)
  <2>1. CASE LadderTick \/ UNCHANGED ladderVars
      BY <1>1, <2>1 DEF LadderTick, ladderVars
  <2>2. ASSUME NEW s \in Target, LadderStep(s) PROVE Held(t)
    <3>1. CASE Inspect(s) \/ AssignCanary(s)
        BY <1>1, <3>1 DEF Inspect, AssignCanary
    <3>2. CASE RollbackToApproval(s)
        BY <1>1, <3>2 DEF RollbackToApproval, LadderTypeOK
    <3>3. CASE \/ Compare(s, "shadow", "shadow.compared")
               \/ Compare(s, "bounded-auto", "bounded.outcome_compared")
        BY <1>1, <3>3 DEF Compare
    <3>4. ASSUME NEW p \in Policy, NEW m \in Level, NEW e \in Evidence, Promote(s, m, p, e)
          PROVE  Held(t)
        BY <1>1, <3>4 DEF Promote, LadderTypeOK
    <3>5. ASSUME NEW p \in Policy, NEW o \in Outcome, RecordCanaryOutcome(s, p, o)
          PROVE  Held(t)
      <4>1. s # t
          BY <1>1, <3>5 DEF RecordCanaryOutcome
      <4> QED BY <1>1, <3>5, <4>1 DEF RecordCanaryOutcome, LadderTypeOK
    <3> QED BY <2>2, <3>1, <3>2, <3>3, <3>4, <3>5 DEF LadderStep, Outcome
  <2> QED BY <1>1, <2>1, <2>2 DEF LadderNext
<1>2. LadderTypeOK /\ [LadderNext]_ladderVars =>
        [\A t \in Target : breaker[t] = "open" => Held(t)]_ladderVars
    BY <1>1
<1>3. LadderSpec => [][\A t \in Target : breaker[t] = "open" => Held(t)]_ladderVars
    BY <1>2, LadderTypeCorrect, PTL DEF LadderSpec
<1> QED BY <1>3 DEF OpenBreakerHolds

\* What a chain says of a target that is at level l.
Explains(s, t, l) ==
    /\ \A i \in DOMAIN s : s[i].target = t =>
        \/ \E j \in i + 1 .. Len(s) : s[j].target = t /\ s[j].from = s[i].to
                /\ \A k \in i + 1 .. j - 1 : ~(s[k].target = t)
        \/ s[i].to = l /\ \A j \in i + 1 .. Len(s) : ~(s[j].target = t)
    /\ (\A i \in DOMAIN s : ~(s[i].target = t)) => l = "simulate"

\* The trail tells that the breaker of a target opened.
SaysOpen(s, t) ==
    \E i \in DOMAIN s : s[i].target = t /\ s[i].event = "canary.circuit_opened"

\* A longer chain by one record.
LEMMA OneRecordMore ==
    ASSUME NEW s \in Seq(Record), NEW r \in Record
    PROVE  /\ s \o <<r>> \in Seq(Record)
           /\ Len(s \o <<r>>) = Len(s) + 1 /\ Len(s) \in Nat
           /\ DOMAIN s = 1 .. Len(s) /\ DOMAIN (s \o <<r>>) = 1 .. Len(s) + 1
           /\ \A i \in 1 .. Len(s) : (s \o <<r>>)[i] = s[i]
           /\ (s \o <<r>>)[Len(s) + 1] = r
OBVIOUS

\* A record that starts where its target is moves the target to where the record ends.
LEMMA RecordOfTarget ==
    ASSUME NEW s \in Seq(Record), NEW r \in Record, Explains(s, r.target, r.from)
    PROVE  Explains(s \o <<r>>, r.target, r.to)
<1> DEFINE u == s \o <<r>>
           t == r.target
<1>1. /\ Len(u) = Len(s) + 1 /\ Len(s) \in Nat
      /\ DOMAIN s = 1 .. Len(s) /\ DOMAIN u = 1 .. Len(s) + 1
      /\ \A i \in 1 .. Len(s) : u[i] = s[i]
      /\ u[Len(s) + 1] = r
    BY OneRecordMore
<1> HIDE DEF u
<1>2. ASSUME NEW i \in DOMAIN u, u[i].target = t
      PROVE  \/ \E j \in i + 1 .. Len(u) : u[j].target = t /\ u[j].from = u[i].to
                    /\ \A k \in i + 1 .. j - 1 : ~(u[k].target = t)
             \/ u[i].to = r.to /\ \A j \in i + 1 .. Len(u) : ~(u[j].target = t)
  <2>1. CASE i = Len(s) + 1
      BY <1>1, <2>1
  <2>2. CASE i \in 1 .. Len(s)
    <3>1. u[i] = s[i] /\ s[i].target = t
        BY <1>1, <1>2, <2>2
    <3>2. CASE \E j \in i + 1 .. Len(s) : s[j].target = t /\ s[j].from = s[i].to
                    /\ \A k \in i + 1 .. j - 1 : ~(s[k].target = t)
      <4>1. PICK j \in i + 1 .. Len(s) : /\ s[j].target = t /\ s[j].from = s[i].to
                                         /\ \A k \in i + 1 .. j - 1 : ~(s[k].target = t)
          BY <3>2
      <4>2. j \in i + 1 .. Len(u) /\ u[j] = s[j] /\ \A k \in i + 1 .. j - 1 : u[k] = s[k]
          BY <1>1, <2>2
      <4> QED BY <3>1, <4>1, <4>2
    <3>3. CASE s[i].to = r.from /\ \A j \in i + 1 .. Len(s) : ~(s[j].target = t)
      <4>1. Len(s) + 1 \in i + 1 .. Len(u) /\ u[Len(s) + 1] = r
          BY <1>1, <2>2
      <4>2. \A k \in i + 1 .. Len(s) + 1 - 1 : ~(u[k].target = t)
          BY <1>1, <2>2, <3>3
      <4> QED BY <3>1, <3>3, <4>1, <4>2
    <3> QED BY <1>1, <2>2, <3>1, <3>2, <3>3 DEF Explains
  <2> QED BY <1>1, <2>1, <2>2
<1>3. ~(\A i \in DOMAIN u : ~(u[i].target = t))
    BY <1>1
<1> QED BY <1>2, <1>3 DEF Explains, u

\* The records of other targets say nothing of this one.
LEMMA RecordOfOther ==
    ASSUME NEW s \in Seq(Record), NEW r \in Record, NEW t, NEW l, r.target # t,
           Explains(s, t, l)
    PROVE  Explains(s \o <<r>>, t, l)
<1> DEFINE u == s \o <<r>>
<1>1. /\ Len(u) = Len(s) + 1 /\ Len(s) \in Nat
      /\ DOMAIN s = 1 .. Len(s) /\ DOMAIN u = 1 .. Len(s) + 1
      /\ \A i \in 1 .. Len(s) : u[i] = s[i]
      /\ u[Len(s) + 1] = r
    BY OneRecordMore
<1> HIDE DEF u
<1>2. ASSUME NEW i \in DOMAIN u, u[i].target = t
      PROVE  \/ \E j \in i + 1 .. Len(u) : u[j].target = t /\ u[j].from = u[i].to
                    /\ \A k \in i + 1 .. j - 1 : ~(u[k].target = t)
             \/ u[i].to = l /\ \A j \in i + 1 .. Len(u) : ~(u[j].target = t)
  <2>1. i \in 1 .. Len(s)
      BY <1>1, <1>2
  <2>2. u[i] = s[i] /\ s[i].target = t
      BY <1>1, <1>2, <2>1
  <2>3. CASE \E j \in i + 1 .. Len(s) : s[j].target = t /\ s[j].from = s[i].to
                  /\ \A k \in i + 1 .. j - 1 : ~(s[k].target = t)
    <3>1. PICK j \in i + 1 .. Len(s) : /\ s[j].target = t /\ s[j].from = s[i].to
                                       /\ \A k \in i + 1 .. j - 1 : ~(s[k].target = t)
        BY <2>3
    <3>2. j \in i + 1 .. Len(u) /\ u[j] = s[j] /\ \A k \in i + 1 .. j - 1 : u[k] = s[k]
        BY <1>1, <2>1
    <3> QED BY <2>2, <3>1, <3>2
  <2>4. CASE s[i].to = l /\ \A j \in i + 1 .. Len(s) : ~(s[j].target = t)
    <3>1. \A j \in i + 1 .. Len(u) : ~(u[j].target = t)
        BY <1>1, <2>1, <2>4
    <3> QED BY <2>2, <2>4, <3>1
  <2> QED BY <1>1, <2>1, <2>2, <2>3, <2>4 DEF Explains
<1>3. (\A i \in DOMAIN u : ~(u[i].target = t)) => l = "simulate"
  <2> SUFFICES ASSUME \A i \in DOMAIN u : ~(u[i].target = t) PROVE l = "simulate"
      OBVIOUS
  <2>1. \A i \in DOMAIN s : ~(s[i].target = t)
      BY <1>1
  <2> QED BY <2>1 DEF Explains
<1> QED BY <1>2, <1>3 DEF Explains, u

\* Only a record of the opening says that a breaker is open.
LEMMA RecordOfOpening ==
    ASSUME NEW s \in Seq(Record), NEW r \in Record, NEW t
    PROVE  SaysOpen(s \o <<r>>, t)
            <=> SaysOpen(s, t) \/ (r.target = t /\ r.event = "canary.circuit_opened")
<1> DEFINE u == s \o <<r>>
<1>1. /\ Len(s) \in Nat /\ DOMAIN s = 1 .. Len(s) /\ DOMAIN u = 1 .. Len(s) + 1
      /\ \A i \in 1 .. Len(s) : u[i] = s[i]
      /\ u[Len(s) + 1] = r
    BY OneRecordMore
<1> HIDE DEF u
<1>2. SaysOpen(u, t) => SaysOpen(s, t) \/ (r.target = t /\ r.event = "canary.circuit_opened")
    BY <1>1 DEF SaysOpen
<1>3. SaysOpen(s, t) => SaysOpen(u, t)
    BY <1>1 DEF SaysOpen
<1>4. r.target = t /\ r.event = "canary.circuit_opened" => SaysOpen(u, t)
    BY <1>1 DEF SaysOpen
<1> QED BY <1>2, <1>3, <1>4 DEF u

\* The property, target by target.
LEMMA ExplainedTargets ==
    AuditExplainsState <=>
        \A t \in Target : Explains(audit, t, level[t]) /\ (breaker[t] = "open" <=> SaysOpen(audit, t))
BY DEF AuditExplainsState, Explains, SaysOpen

\* The same after a step.
LEMMA ExplainedTargetsNext ==
    ASSUME \A t \in Target : /\ Explains(audit', t, level'[t])
                             /\ breaker'[t] = "open" <=> SaysOpen(audit', t)
    PROVE  AuditExplainsState'
BY DEF AuditExplainsState, Explains, SaysOpen

\* One more record of t, which takes t from its level to that of the record.
LEMMA OneRecordExplains ==
    ASSUME LadderTypeOK, AuditExplainsState, NEW t \in Target, NEW event \in AuditEvent,
           NEW l \in Supported, event # "canary.circuit_opened",
           audit' = audit \o <<AuditRecord(event, t, level[t], l)>>,
           level' = [level EXCEPT ![t] = l], breaker' = breaker
    PROVE  AuditExplainsState'
<1> DEFINE r == AuditRecord(event, t, level[t], l)
<1>1. /\ r \in Record /\ r.target = t /\ r.from = level[t] /\ r.to = l /\ r.event = event
      /\ audit \in Seq(Record)
    BY DEF LadderTypeOK, AuditRecord, Record
<1> HIDE DEF r
<1>2. audit' = audit \o <<r>>
    BY DEF r
<1>3. ASSUME NEW s \in Target
      PROVE  Explains(audit', s, level'[s]) /\ (breaker'[s] = "open" <=> SaysOpen(audit', s))
  <2>1. Explains(audit, s, level[s]) /\ (breaker[s] = "open" <=> SaysOpen(audit, s))
      BY ExplainedTargets
  <2>2. SaysOpen(audit', s) <=> SaysOpen(audit, s)
      BY <1>1, <1>2, RecordOfOpening
  <2>3. CASE s = t
    <3>1. level'[s] = l
        BY <2>3 DEF LadderTypeOK
    <3> QED BY <1>1, <1>2, <2>1, <2>2, <2>3, <3>1, RecordOfTarget
  <2>4. CASE s # t
    <3>1. level'[s] = level[s]
        BY <2>4 DEF LadderTypeOK
    <3> QED BY <1>1, <1>2, <2>1, <2>2, <2>4, <3>1, RecordOfOther
  <2> QED BY <2>3, <2>4
<1> QED BY <1>3, ExplainedTargetsNext

\* Records may be appended one by one.
LEMMA Associative ==
    ASSUME NEW S, NEW a \in Seq(S), NEW b \in Seq(S), NEW c \in Seq(S), NEW d \in Seq(S)
    PROVE  a \o (b \o c \o d) = a \o b \o c \o d
<1>1. b \o c \in Seq(S)
    BY ConcatProperties, Zenon
<1>2. PICK e \in Seq(S) : e = b \o c
    BY <1>1, Zenon
<1>3. (a \o e) \o d = a \o (e \o d)
    BY ConcatAssociative, SMTT(30)
<1>4. (a \o b) \o c = a \o (b \o c)
    BY ConcatAssociative, SMTT(30)
<1> QED BY <1>2, <1>3, <1>4, Zenon

\* An outcome appends up to three records of its target, which lead from the level that
\* the target had to the one that it has now.
LEMMA OutcomeChain ==
    ASSUME LadderTypeOK, NEW t \in Target, NEW demoted \in BOOLEAN, NEW opened \in BOOLEAN,
           AuditExplainsState, NEW s \in Target, NEW l,
           l = IF demoted /\ s = t THEN "approve" ELSE level[s]
    PROVE  LET u == audit \o OutcomeRecords(t, demoted, opened)
           IN  /\ Explains(u, s, l)
               /\ SaysOpen(u, s) <=> breaker[s] = "open" \/ (s = t /\ opened)
<1> DEFINE m == IF demoted THEN "approve" ELSE level[t]
           first == Note("canary.outcome", t)
           second == AuditRecord("trust.auto_demoted", t, level[t], "approve")
           third == AuditRecord("canary.circuit_opened", t, m, m)
           w1 == audit \o <<first>>
           w2 == IF demoted THEN w1 \o <<second>> ELSE w1
           w3 == IF opened THEN w2 \o <<third>> ELSE w2
<1>1. /\ audit \in Seq(Record) /\ level[t] \in Supported /\ "approve" \in Supported
      /\ m \in Supported
    BY DEF LadderTypeOK, Record, Supported
<1>2. /\ Explains(audit, s, level[s])
      /\ SaysOpen(audit, s) <=> breaker[s] = "open"
    BY ExplainedTargets
<1>3. /\ first \in Record /\ first.target = t /\ first.from = level[t] /\ first.to = level[t]
      /\ first.event # "canary.circuit_opened"
    BY <1>1 DEF Note, AuditRecord, Record, AuditEvent
<1>4. /\ second \in Record /\ second.target = t /\ second.from = level[t]
      /\ second.to = "approve" /\ second.event # "canary.circuit_opened"
    BY <1>1 DEF AuditRecord, Record, AuditEvent
<1>5. /\ third \in Record /\ third.target = t /\ third.from = m /\ third.to = m
      /\ third.event = "canary.circuit_opened"
  <2> HIDE DEF m
  <2> QED BY <1>1 DEF AuditRecord, Record, AuditEvent
<1>6. audit \o OutcomeRecords(t, demoted, opened) = w3
  <2> DEFINE b1 == <<first>>
             b2 == IF demoted THEN <<second>> ELSE <<>>
             b3 == IF opened THEN <<third>> ELSE <<>>
  <2>1. OutcomeRecords(t, demoted, opened) = b1 \o b2 \o b3
      BY DEF OutcomeRecords
  <2>2. b1 \in Seq(Record) /\ b2 \in Seq(Record) /\ b3 \in Seq(Record)
    <3> HIDE DEF first, second, third
    <3> QED BY <1>3, <1>4, <1>5
  <2>3. audit \o (b1 \o b2 \o b3) = audit \o b1 \o b2 \o b3
    <3> HIDE DEF b1, b2, b3
    <3> QED BY <1>1, <2>2, Associative, SMTT(30)
  <2>4. w1 \in Seq(Record) /\ w1 \o b2 = w2
    <3> HIDE DEF first, second
    <3> QED BY <1>1, <1>3, <1>4
  <2>5. w2 \in Seq(Record)
    <3>1. w1 \o b2 \in Seq(Record)
      <4> HIDE DEF w1, b2
      <4> QED BY <2>2, <2>4
    <3> QED BY <2>4, <3>1
  <2>6. w2 \o b3 = w3
    <3> HIDE DEF w2, third
    <3> QED BY <2>5
  <2>7. audit \o b1 = w1
      OBVIOUS
  <2> HIDE DEF b1, b2, b3, w1, w2, w3
  <2> QED BY <2>1, <2>3, <2>4, <2>6, <2>7
<1> HIDE DEF first, second, third
<1>7. w1 \in Seq(Record) /\ w2 \in Seq(Record)
    BY <1>1, <1>3, <1>4
<1>8. /\ Explains(w1, s, level[s])
      /\ SaysOpen(w1, s) <=> breaker[s] = "open"
  <2>1. CASE s = t
      BY <1>1, <1>2, <1>3, <2>1, RecordOfTarget, RecordOfOpening
  <2>2. CASE s # t
      BY <1>1, <1>2, <1>3, <2>2, RecordOfOther, RecordOfOpening
  <2> QED BY <2>1, <2>2
<1> HIDE DEF w1
<1>9. /\ Explains(w2, s, l)
      /\ SaysOpen(w2, s) <=> breaker[s] = "open"
  <2>1. CASE demoted /\ s = t
    <3>1. w2 = w1 \o <<second>> /\ l = "approve"
        BY <2>1
    <3> QED BY <1>4, <1>7, <1>8, <2>1, <3>1, RecordOfTarget, RecordOfOpening
  <2>2. CASE demoted /\ s # t
    <3>1. w2 = w1 \o <<second>> /\ l = level[s]
        BY <2>2
    <3> QED BY <1>4, <1>7, <1>8, <2>2, <3>1, RecordOfOther, RecordOfOpening
  <2>3. CASE ~demoted
      BY <1>8, <2>3
  <2> QED BY <2>1, <2>2, <2>3
<1>10. s = t => l = m
    OBVIOUS
<1> HIDE DEF w2, m
<1>11. /\ Explains(w3, s, l)
       /\ SaysOpen(w3, s) <=> breaker[s] = "open" \/ (s = t /\ opened)
  <2>1. CASE opened /\ s = t
    <3>1. w3 = w2 \o <<third>>
        BY <2>1
    <3> QED BY <1>5, <1>7, <1>9, <1>10, <2>1, <3>1, RecordOfTarget, RecordOfOpening
  <2>2. CASE opened /\ s # t
    <3>1. w3 = w2 \o <<third>>
        BY <2>2
    <3> QED BY <1>5, <1>7, <1>9, <2>2, <3>1, RecordOfOther, RecordOfOpening
  <2>3. CASE ~opened
      BY <1>9, <2>3
  <2> QED BY <2>1, <2>2, <2>3
<1> QED BY <1>6, <1>11

\* Every operation keeps the chain an account of the state.
LEMMA AuditStep ==
    LadderTypeOK /\ AuditExplainsState /\ [LadderNext]_ladderVars => AuditExplainsState'
<1> SUFFICES ASSUME LadderTypeOK, AuditExplainsState, [LadderNext]_ladderVars
             PROVE  AuditExplainsState'
    OBVIOUS
<1>1. CASE UNCHANGED <<level, breaker, audit>>
    BY <1>1 DEF AuditExplainsState
<1>2. ASSUME NEW t \in Target, LadderStep(t) PROVE AuditExplainsState'
  <2>0. level[t] \in Supported /\ "approve" \in Supported
      BY DEF Supported, LadderTypeOK
  <2>1. CASE Inspect(t) \/ AssignCanary(t)
      BY <1>1, <2>1 DEF Inspect, AssignCanary
  <2>2. CASE RollbackToApproval(t)
      BY <2>0, <2>2, OneRecordExplains DEF RollbackToApproval, AppendAudit, AuditEvent
  <2>3. ASSUME NEW l, NEW event \in AuditEvent, event # "canary.circuit_opened",
               Compare(t, l, event)
        PROVE  AuditExplainsState'
    <3>1. level' = [level EXCEPT ![t] = level[t]]
        BY <2>3 DEF LadderTypeOK, Compare
    <3> QED BY <2>0, <2>3, <3>1, OneRecordExplains DEF Compare, AppendAudit, Note
  <2>4. CASE \/ Compare(t, "shadow", "shadow.compared")
             \/ Compare(t, "bounded-auto", "bounded.outcome_compared")
      BY <2>3, <2>4 DEF AuditEvent
  <2>5. ASSUME NEW p \in Policy, NEW m \in Level, NEW e \in Evidence, Promote(t, m, p, e)
        PROVE  AuditExplainsState'
    <3>1. m \in Supported /\ "trust.promoted" \in AuditEvent
        BY <2>5 DEF Promote, IsNextSupported, AuditEvent
    <3> QED BY <2>5, <3>1, OneRecordExplains DEF Promote, AppendAudit
  <2>6. ASSUME NEW p \in Policy, NEW o \in Outcome, RecordCanaryOutcome(t, p, o)
        PROVE  AuditExplainsState'
    <3> DEFINE v == violations[t] + (IF o = "violation" THEN 1 ELSE 0)
               e == errors[t] + (IF o = "error" THEN 1 ELSE 0)
               demoted == o = "violation" /\ violationResponse[p] = "demote_to_approve"
               opened == \/ o = "violation" /\ violationResponse[p] = "open_circuit_breaker"
                         \/ StopBreached(p, v, e)
    <3>1. /\ level' = IF demoted THEN [level EXCEPT ![t] = "approve"] ELSE level
          /\ breaker' = IF opened THEN [breaker EXCEPT ![t] = "open"] ELSE breaker
          /\ audit' = audit \o OutcomeRecords(t, demoted, opened)
          /\ demoted \in BOOLEAN /\ opened \in BOOLEAN
        BY <2>6 DEF RecordCanaryOutcome, AppendAudit, StopBreached
    <3> HIDE DEF demoted, opened
    <3>2. ASSUME NEW s \in Target
          PROVE  /\ Explains(audit', s, level'[s])
                 /\ breaker'[s] = "open" <=> SaysOpen(audit', s)
      <4>1. level'[s] = IF demoted /\ s = t THEN "approve" ELSE level[s]
          BY <3>1 DEF LadderTypeOK
      <4>2. breaker'[s] = "open" <=> breaker[s] = "open" \/ (s = t /\ opened)
          BY <3>1 DEF LadderTypeOK
      <4>3. PICK l : l = level'[s]
          OBVIOUS
      <4>4. /\ Explains(audit', s, l)
            /\ SaysOpen(audit', s) <=> breaker[s] = "open" \/ (s = t /\ opened)
          BY <3>1, <4>1, <4>3, OutcomeChain
      <4> QED BY <4>2, <4>3, <4>4
    <3> QED BY <3>2, ExplainedTargetsNext
  <2> QED BY <1>2, <2>1, <2>2, <2>4, <2>5, <2>6 DEF LadderStep, Outcome
<1> QED BY <1>1, <1>2 DEF LadderNext, LadderTick, ladderVars

\* Whatever is promoted, demoted, rolled back and stopped, under any policies: the audit
\* chain leads every target from simulate to the level that it has, and tells which
\* breakers are open.
THEOREM AuditExplains == LadderSpec => []AuditExplainsState
<1>1. LadderInit => AuditExplainsState
    BY DEF LadderInit, AuditExplainsState
<1> QED BY <1>1, AuditStep, LadderTypeCorrect, PTL DEF LadderSpec

(***************************************************************************)
(* The team control plane                                                  *)
(***************************************************************************)
Smaller == {p \in Nat \X Nat : p[1] < p[2]}

\* A set of numbers has a least one: this is how the proofs below do induction.
LEMMA LeastNumber ==
    ASSUME NEW S \in SUBSET Nat, S # {}
    PROVE  \E n \in S : \A m \in S : n <= m
<1>1. IsWellFoundedOn(Smaller, Nat)
    BY NatLessThanWellFounded DEF OpToRel, Smaller
<1>2. PICK n \in S : \A m \in S : ~(<<m, n>> \in Smaller)
    BY <1>1, WFMin
<1>3. ASSUME NEW m \in S PROVE n <= m
  <2>1. ~(<<m, n>> \in Smaller) /\ m \in Nat /\ n \in Nat
      BY <1>2
  <2>2. ~(m < n)
      BY <2>1 DEF Smaller
  <2> QED BY <2>1, <2>2
<1> QED BY <1>3

\* How many of the places are before i.
Before(places, i) == Cardinality({j \in places : j < i})

\* Counting the places up to each index.
LEMMA CountingPlaces ==
    ASSUME NEW N \in Nat, NEW places \in SUBSET (1 .. N)
    PROVE  /\ IsFiniteSet(places) /\ Cardinality(places) \in Nat
           /\ Before(places, 1) = 0 /\ Before(places, N + 1) = Cardinality(places)
           /\ \A i \in 1 .. N + 1 : Before(places, i) \in Nat
           /\ \A i \in 1 .. N :
                Before(places, i + 1) = Before(places, i) + IF i \in places THEN 1 ELSE 0
<1>n. \A j \in places : j \in Nat /\ 1 <= j /\ j <= N
    OBVIOUS
<1>1. IsFiniteSet(places)
  <2>1. IsFiniteSet(1 .. N)
      BY FS_Interval
  <2> QED BY <2>1, FS_Subset
<1>2. Cardinality(places) \in Nat
    BY <1>1, FS_CardinalityType
<1>3. Before(places, 1) = 0
  <2>0. \A j \in places : ~(j < 1)
      BY <1>n
  <2>1. {j \in places : j < 1} = {}
      BY <2>0, Zenon
  <2> QED BY <2>1, FS_EmptySet DEF Before
<1>4. Before(places, N + 1) = Cardinality(places)
  <2>1. \A j \in places : j < N + 1
      BY <1>n
  <2>2. {j \in places : j < N + 1} = places
      BY <2>1, Zenon
  <2> QED BY <2>2 DEF Before
<1>5. ASSUME NEW i \in 1 .. N + 1
      PROVE  Before(places, i) \in Nat /\ IsFiniteSet({j \in places : j < i})
  <2>1. {j \in places : j < i} \in SUBSET places
      OBVIOUS
  <2>2. IsFiniteSet({j \in places : j < i})
      BY <1>1, <2>1, FS_Subset
  <2> QED BY <2>2, FS_CardinalityType DEF Before
<1>6. ASSUME NEW i \in 1 .. N
      PROVE  Before(places, i + 1) = Before(places, i) + IF i \in places THEN 1 ELSE 0
  <2>1. PICK S : S = {j \in places : j < i}
      OBVIOUS
  <2>2. IsFiniteSet(S) /\ i \notin S /\ Cardinality(S) \in Nat
      BY <1>5, <2>1 DEF Before
  <2>3. CASE i \in places
    <3>0. \A j \in places : j < i + 1 <=> j < i \/ j = i
        BY <1>n
    <3>1. {j \in places : j < i + 1} = S \cup {i}
        BY <2>1, <2>3, <3>0, Zenon
    <3>2. Cardinality(S \cup {i}) = Cardinality(S) + 1
        BY <2>2, FS_AddElement
    <3> QED BY <2>1, <2>3, <3>1, <3>2 DEF Before
  <2>4. CASE i \notin places
    <3>0. \A j \in places : j < i + 1 <=> j < i
        BY <1>n, <2>4
    <3>1. {j \in places : j < i + 1} = S
        BY <2>1, <3>0, Zenon
    <3> QED BY <2>1, <2>2, <2>4, <3>1 DEF Before
  <2> QED BY <2>3, <2>4
<1> QED BY <1>1, <1>2, <1>3, <1>4, <1>5, <1>6

\* Every number up to how many there are is the rank of one of the places.
LEMMA RankedPlace ==
    ASSUME NEW N \in Nat, NEW places \in SUBSET (1 .. N), NEW n \in 1 .. Cardinality(places)
    PROVE  \E i \in places : Before(places, i) = n - 1
<1> DEFINE S == {i \in 0 .. N : Before(places, i + 1) >= n}
<1>1. N \in S
    BY CountingPlaces
<1>2. PICK i \in S : \A m \in S : i <= m
  <2>1. S \in SUBSET Nat /\ S # {}
      BY <1>1
  <2> HIDE DEF S
  <2> QED BY <2>1, LeastNumber
<1>3. i # 0
    BY CountingPlaces
<1>4. i \in 1 .. N /\ i - 1 \in 0 .. N /\ i - 1 \notin S
    BY <1>2, <1>3
<1>5. Before(places, i) < n
  <2>1. (i - 1) + 1 = i
      BY <1>4
  <2>2. Before(places, i) \in Nat
      BY <1>4, CountingPlaces
  <2> QED BY <1>4, <2>1, <2>2
<1>6. Before(places, i + 1) >= n
    BY <1>2
<1>7. Before(places, i + 1) = Before(places, i) + IF i \in places THEN 1 ELSE 0
    BY <1>4, CountingPlaces
<1>8. Before(places, i) \in Nat
    BY <1>4, CountingPlaces
<1> HIDE DEF S
<1>9. i \in places
    BY <1>5, <1>6, <1>7, <1>8
<1> QED BY <1>5, <1>6, <1>7, <1>8, <1>9

\* What a filter keeps: as many entries as places, each one that stood at a place.
LEMMA KeptEntries ==
    ASSUME NEW N \in Nat, NEW places \in SUBSET (1 .. N), NEW s
    PROVE  /\ Cardinality(places) \in Nat
           /\ Kept(s, places) = [n \in 1 .. Cardinality(places) |-> Kept(s, places)[n]]
           /\ \A n \in 1 .. Cardinality(places) :
                \E i \in places : Before(places, i) = n - 1 /\ Kept(s, places)[n] = s[i]
<1> DEFINE nth(n) == CHOOSE i \in places : Before(places, i) = n - 1
<1>1. Cardinality(places) \in Nat
    BY CountingPlaces
<1>2. Kept(s, places) = [n \in 1 .. Cardinality(places) |-> s[nth(n)]]
    BY Zenon DEF Kept, Before
<1>3. ASSUME NEW n \in 1 .. Cardinality(places)
      PROVE  nth(n) \in places /\ Before(places, nth(n)) = n - 1
  <2>1. \E i \in places : Before(places, i) = n - 1
      BY RankedPlace
  <2> QED BY <2>1, Zenon
<1> HIDE DEF nth
<1> QED BY <1>1, <1>2, <1>3

\* A filter of a sequence is a sequence of the same things.
LEMMA KeptSequence ==
    ASSUME NEW T, NEW s \in Seq(T), NEW places \in SUBSET DOMAIN s
    PROVE  /\ Kept(s, places) \in Seq(T) /\ Len(Kept(s, places)) = Cardinality(places)
           /\ \A n \in DOMAIN Kept(s, places) :
                \E i \in places : Before(places, i) = n - 1 /\ Kept(s, places)[n] = s[i]
<1>1. PICK N \in Nat : N = Len(s)
    OBVIOUS
<1>2. DOMAIN s = 1 .. N /\ \A i \in 1 .. N : s[i] \in T
    BY <1>1
<1>3. PICK k, c : k = Kept(s, places) /\ c = Cardinality(places)
    OBVIOUS
<1>4. /\ c \in Nat /\ k = [n \in 1 .. c |-> k[n]]
      /\ \A n \in 1 .. c : \E i \in places : Before(places, i) = n - 1 /\ k[n] = s[i]
    BY <1>2, <1>3, KeptEntries
<1>5. k \in Seq(T)
  <2>1. k \in [1 .. c -> T]
      BY <1>2, <1>4
  <2> QED BY <1>4, <2>1
<1>6. Len(k) = c /\ DOMAIN k = 1 .. c
    BY <1>4, <1>5
<1> QED BY <1>3, <1>4, <1>5, <1>6

\* A filter that keeps every later entry with an entry keeps an end of the sequence.
LEMMA KeptEnd ==
    ASSUME NEW T, NEW s \in Seq(T), NEW places \in SUBSET DOMAIN s,
           \A i \in places, j \in DOMAIN s : i <= j => j \in places
    PROVE  \E m \in 0 .. Len(s) :
                /\ Kept(s, places) \in Seq(T) /\ Len(Kept(s, places)) = Len(s) - m
                /\ \A n \in 1 .. Len(s) - m : Kept(s, places)[n] = s[m + n]
<1>1. PICK N \in Nat : N = Len(s) /\ DOMAIN s = 1 .. N
    OBVIOUS
<1>2. PICK m \in 0 .. N : \A i \in 1 .. N : i \in places <=> m < i
  <2>1. CASE places = {}
    <3>1. \A i \in 1 .. N : i \in places <=> N < i
        BY <2>1
    <3> QED BY <3>1
  <2>2. CASE places # {}
    <3>1. places \in SUBSET Nat
        BY <1>1
    <3>2. PICK l \in places : \A i \in places : l <= i
        BY <2>2, <3>1, LeastNumber
    <3>3. l \in 1 .. N /\ l - 1 \in 0 .. N
        BY <1>1
    <3>4. \A i \in 1 .. N : i \in places <=> l - 1 < i
        BY <1>1, <3>2, <3>3
    <3> QED BY <3>3, <3>4
  <2> QED BY <2>1, <2>2
<1>3. \A j \in places : j \in Nat /\ m < j /\ j <= N
    BY <1>1, <1>2
<1>4. ASSUME NEW i \in m + 1 .. N + 1 PROVE Before(places, i) = i - 1 - m
  <2>1. \A j : j \in {k \in places : k < i} <=> j \in m + 1 .. i - 1
      BY <1>1, <1>2, <1>3
  <2>2. {k \in places : k < i} = m + 1 .. i - 1
      BY <2>1, Zenon
  <2>3. Cardinality(m + 1 .. i - 1) = i - 1 - m
      BY FS_Interval
  <2> QED BY <2>2, <2>3 DEF Before
<1>5. PICK k, c : k = Kept(s, places) /\ c = Cardinality(places)
    OBVIOUS
<1>6. c = N - m
  <2>1. Before(places, N + 1) = N - m
      BY <1>4
  <2> QED BY <1>1, <1>5, <2>1, CountingPlaces
<1>7. /\ k \in Seq(T) /\ Len(k) = c
      /\ \A n \in DOMAIN k : \E i \in places : Before(places, i) = n - 1 /\ k[n] = s[i]
    BY <1>5, KeptSequence
<1>8. ASSUME NEW n \in 1 .. N - m PROVE k[n] = s[m + n]
  <2>0. n \in DOMAIN k
    <3>1. DOMAIN k = 1 .. Len(k)
        BY <1>7
    <3> QED BY <1>6, <1>7, <3>1
  <2>1. PICK i \in places : Before(places, i) = n - 1 /\ k[n] = s[i]
      BY <1>7, <2>0
  <2>2. i \in m + 1 .. N + 1
      BY <1>3
  <2>3. i - 1 - m = n - 1
      BY <1>4, <2>1, <2>2
  <2>4. i = m + n
      BY <2>2, <2>3
  <2> QED BY <2>1, <2>4
<1> QED BY <1>1, <1>5, <1>6, <1>7, <1>8

\* An audit trail that verifies, in the order of its instants, none after t.
TrailRuns(s, t) ==
    /\ s \in Seq(AuditEntry)
    /\ \A i \in DOMAIN s : s[i].sequence = i /\ s[i].at <= t
    /\ \A i, j \in DOMAIN s : i <= j => s[i].at <= s[j].at

\* appendAudit() continues the trail.
LEMMA TrailAppended ==
    ASSUME NEW s, now \in Nat, TrailRuns(s, now)
    PROVE  TrailRuns(AppendTrail(s), now)
<1>1. PICK N \in Nat : N = Len(s) /\ DOMAIN s = 1 .. N
    BY DEF TrailRuns
<1>2. s \in Seq(AuditEntry) /\ \A i \in 1 .. N : s[i] \in AuditEntry
    BY <1>1 DEF TrailRuns
<1>3. PICK e : e = [sequence |-> IF s = <<>> THEN 1 ELSE s[Len(s)].sequence + 1, at |-> now]
    OBVIOUS
<1>4. e = [sequence |-> N + 1, at |-> now]
  <2>1. CASE s = <<>>
    <3>1. N = 0
        BY <1>1, <2>1
    <3> QED BY <1>3, <2>1, <3>1
  <2>2. CASE s # <<>>
    <3>1. N \in DOMAIN s
        BY <1>1, <1>2, <2>2
    <3>2. s[N].sequence = N
        BY <3>1 DEF TrailRuns
    <3> QED BY <1>1, <1>3, <2>2, <3>2
  <2> QED BY <2>1, <2>2
<1>5. e \in AuditEntry
    BY <1>4 DEF AuditEntry
<1>6. PICK r : r = Append(s, e)
    OBVIOUS
<1>7. /\ r \in Seq(AuditEntry) /\ DOMAIN r = 1 .. N + 1 /\ r[N + 1] = e
      /\ \A i \in 1 .. N : r[i] = s[i]
    BY <1>1, <1>2, <1>5, <1>6
<1>8. \A i \in 1 .. N + 1 : i \in 1 .. N \/ i = N + 1
    OBVIOUS
<1>9. \A i \in DOMAIN r : r[i].sequence = i /\ r[i].at <= now
    BY <1>1, <1>4, <1>7, <1>8 DEF TrailRuns
<1>10. ASSUME NEW i \in DOMAIN r, NEW j \in DOMAIN r, i <= j PROVE r[i].at <= r[j].at
  <2>1. CASE j \in 1 .. N
    <3>1. i \in 1 .. N
        BY <1>7, <1>10, <2>1
    <3> QED BY <1>1, <1>7, <1>10, <2>1, <3>1 DEF TrailRuns
  <2>2. CASE j = N + 1
      BY <1>4, <1>7, <1>9, <2>2
  <2> QED BY <1>7, <1>8, <2>1, <2>2
<1> QED BY <1>3, <1>6, <1>7, <1>9, <1>10 DEF TrailRuns, AppendTrail

\* pruneAudit() removes a beginning of the trail and numbers the rest from the anchor.
LEMMA TrailPruned ==
    ASSUME NEW all, now \in Nat, TrailRuns(all, now)
    PROVE  TrailRuns(PruneAudit(all), now) /\ Len(PruneAudit(all)) <= MaxTrail
<1> DEFINE places == {i \in DOMAIN all : all[i].at + AuditRetention >= now}
           recent == Kept(all, places)
           kept == IF Len(recent) <= MaxTrail THEN recent
                   ELSE SubSeq(recent, Len(recent) - MaxTrail + 1, Len(recent))
           boundary == IF Len(kept) = Len(all) THEN 0 ELSE all[Len(all) - Len(kept)].sequence
           pruned == [i \in DOMAIN kept |-> [kept[i] EXCEPT !.sequence = kept[i].sequence - boundary]]
<1>1. PruneAudit(all) = pruned
    BY Zenon DEF PruneAudit
<1>2. PICK N \in Nat : N = Len(all) /\ DOMAIN all = 1 .. N
    BY DEF TrailRuns
<1>3. all \in Seq(AuditEntry) /\ \A i \in 1 .. N : all[i] \in AuditEntry
    BY <1>2 DEF TrailRuns
<1>4. /\ AuditRetention \in Nat /\ MaxTrail \in Nat
      /\ \A i \in 1 .. N : all[i].at \in Nat /\ all[i].sequence = i /\ all[i].at <= now
      /\ \A i, j \in 1 .. N : i <= j => all[i].at <= all[j].at
    BY <1>2, <1>3, TeamAssumption DEF TrailRuns, AuditEntry
<1>5. PICK m \in 0 .. N :
        /\ recent \in Seq(AuditEntry) /\ Len(recent) = N - m
        /\ \A n \in 1 .. N - m : recent[n] = all[m + n]
  <2>1. places \in SUBSET DOMAIN all
      OBVIOUS
  <2>2. \A i \in places, j \in DOMAIN all : i <= j => j \in places
      BY <1>2, <1>4
  <2>3. PICK q : q = places
      OBVIOUS
  <2> HIDE DEF places
  <2> QED BY <1>2, <1>3, <2>1, <2>2, KeptEnd
<1> HIDE DEF recent
<1>6. PICK K \in 0 .. N :
        /\ kept \in Seq(AuditEntry) /\ Len(kept) = K /\ K <= MaxTrail
        /\ \A n \in 1 .. K : kept[n] = all[N - K + n]
  <2>1. CASE N - m <= MaxTrail
    <3>1. kept = recent /\ N - m \in 0 .. N /\ N - (N - m) = m
        BY <1>5, <2>1
    <3> HIDE DEF kept
    <3> QED BY <1>5, <2>1, <3>1
  <2>2. CASE ~(N - m <= MaxTrail)
    <3>1. kept = SubSeq(recent, (N - m) - MaxTrail + 1, N - m)
        BY <1>5, <2>2
    <3>2. (N - m) - MaxTrail + 1 \in 1 .. N - m + 1 /\ N - m \in 0 .. Len(recent)
        BY <1>4, <1>5, <2>2
    <3> HIDE DEF kept
    <3>3. /\ kept \in Seq(AuditEntry) /\ Len(kept) = MaxTrail
          /\ \A n \in 1 .. MaxTrail : kept[n] = recent[(N - m) - MaxTrail + n]
        BY <1>4, <1>5, <2>2, <3>1, <3>2, SubSeqProperties
    <3>4. ASSUME NEW n \in 1 .. MaxTrail PROVE kept[n] = all[N - MaxTrail + n]
      <4>1. (N - m) - MaxTrail + n \in 1 .. N - m
          BY <1>4, <2>2
      <4>2. m + ((N - m) - MaxTrail + n) = N - MaxTrail + n
          BY <1>4
      <4> QED BY <1>5, <3>3, <4>1, <4>2
    <3>5. MaxTrail \in 0 .. N
        BY <1>4, <2>2
    <3>6. PICK K \in 0 .. N : K = MaxTrail
        BY <3>5
    <3>7. Len(kept) = K /\ K <= MaxTrail /\ kept \in Seq(AuditEntry)
        BY <3>3, <3>6, <1>4
    <3>8. \A n \in 1 .. K : kept[n] = all[N - K + n]
        BY <3>4, <3>6
    <3> QED BY <3>7, <3>8
  <2> QED BY <2>1, <2>2
<1>7. boundary = N - K
  <2>1. CASE K = N
      BY <1>2, <1>6, <2>1
  <2>2. CASE K # N
    <3>0. Len(kept) = K /\ Len(all) = N /\ N - K \in 1 .. N
        BY <1>2, <1>6, <2>2
    <3>1. boundary = all[N - K].sequence /\ N - K \in 1 .. N
        BY <2>2, <3>0, Zenon
    <3> HIDE DEF boundary
    <3> QED BY <1>4, <3>1
  <2> QED BY <2>1, <2>2
<1>8. DOMAIN kept = 1 .. K
    BY <1>6
<1> HIDE DEF kept, boundary
<1>9. ASSUME NEW i \in 1 .. K
      PROVE  /\ N - K + i \in 1 .. N
             /\ pruned[i] \in AuditEntry /\ pruned[i].sequence = i
             /\ pruned[i].at = all[N - K + i].at
  <2>1. N - K + i \in 1 .. N
      OBVIOUS
  <2>2. pruned[i] = [kept[i] EXCEPT !.sequence = kept[i].sequence - (N - K)]
      BY <1>7, <1>8
  <2>3. kept[i] = all[N - K + i] /\ kept[i].sequence = N - K + i /\ kept[i] \in AuditEntry
      BY <1>3, <1>4, <1>6, <2>1
  <2>4. kept[i].sequence - (N - K) = i
      BY <2>3
  <2>5. pruned[i] = [kept[i] EXCEPT !.sequence = i]
      BY <2>2, <2>4, Zenon
  <2> HIDE DEF pruned
  <2> QED BY <2>1, <2>3, <2>5 DEF AuditEntry
<1>10. pruned \in Seq(AuditEntry) /\ DOMAIN pruned = 1 .. K
  <2>1. DOMAIN pruned = 1 .. K /\ pruned = [i \in 1 .. K |-> pruned[i]]
      BY <1>8
  <2> HIDE DEF pruned
  <2>2. pruned \in [1 .. K -> AuditEntry]
      BY <1>9, <2>1
  <2> QED BY <2>1, <2>2
<1> HIDE DEF pruned
<1>11. ASSUME NEW i \in 1 .. K, NEW j \in 1 .. K, i <= j PROVE pruned[i].at <= pruned[j].at
  <2>1. N - K + i <= N - K + j
      BY <1>11
  <2> QED BY <1>4, <1>9, <2>1
<1>12. \A i \in 1 .. K : pruned[i].at <= now
    BY <1>4, <1>9
<1>13. Len(pruned) = K /\ K <= MaxTrail
    BY <1>6, <1>10
<1> QED BY <1>1, <1>9, <1>10, <1>11, <1>12, <1>13 DEF TrailRuns

\* Of evidence in any order, fewer than MaxEvidence entries are newer than one that is
\* kept: that is, at most MaxEvidence are kept.
LEMMA NewestAreFew ==
    ASSUME NEW s \in Seq(EvidenceRecord)
    PROVE  Cardinality({i \in DOMAIN s : Cardinality({j \in DOMAIN s : Newer(s, j, i)}) < MaxEvidence})
                <= MaxEvidence
<1> DEFINE newer(i) == {j \in DOMAIN s : Newer(s, j, i)}
           places == {i \in DOMAIN s : Cardinality(newer(i)) < MaxEvidence}
           rank == [i \in places |-> Cardinality(newer(i))]
<1>1. PICK N \in Nat : DOMAIN s = 1 .. N
    OBVIOUS
<1>2. \A i \in 1 .. N : s[i].uploadedAt \in Nat
  <2>1. \A i \in 1 .. N : s[i] \in EvidenceRecord
      BY <1>1
  <2> QED BY <2>1 DEF EvidenceRecord
<1>3. IsFiniteSet(1 .. N) /\ MaxEvidence \in Nat
    BY FS_Interval, TeamAssumption
<1>4. ASSUME NEW i \in 1 .. N
      PROVE  IsFiniteSet(newer(i)) /\ Cardinality(newer(i)) \in Nat
  <2>1. newer(i) \in SUBSET (1 .. N)
      BY <1>1
  <2>2. IsFiniteSet(newer(i))
      BY <1>3, <2>1, FS_Subset
  <2> QED BY <2>2, FS_CardinalityType
<1>5. ASSUME NEW i \in 1 .. N, NEW j \in 1 .. N, Newer(s, i, j)
      PROVE  Cardinality(newer(i)) < Cardinality(newer(j))
  <2>1. ASSUME NEW k \in 1 .. N, Newer(s, k, i) PROVE Newer(s, k, j)
      BY <1>2, <1>5, <2>1 DEF Newer
  <2>2. newer(i) \in SUBSET newer(j)
      BY <1>1, <2>1
  <2>3. i \in newer(j) /\ i \notin newer(i)
      BY <1>1, <1>2, <1>5 DEF Newer
  <2>4. PICK S, T : S = newer(i) /\ T = newer(j)
      OBVIOUS
  <2>5. Cardinality(S) <= Cardinality(T) /\ (Cardinality(T) = Cardinality(S) => T = S)
      BY <1>4, <2>2, <2>4, FS_Subset
  <2>6. Cardinality(S) \in Nat /\ Cardinality(T) \in Nat
      BY <1>4, <2>4
  <2>7. S # T
      BY <2>3, <2>4
  <2> QED BY <2>4, <2>5, <2>6, <2>7
<1> HIDE DEF newer
<1>6. ASSUME NEW i \in 1 .. N, NEW j \in 1 .. N, Cardinality(newer(i)) = Cardinality(newer(j))
      PROVE  i = j
  <2>1. CASE Newer(s, i, j)
      BY <1>4, <1>5, <1>6, <2>1
  <2>2. CASE Newer(s, j, i)
      BY <1>4, <1>5, <1>6, <2>2
  <2>3. CASE ~Newer(s, i, j) /\ ~Newer(s, j, i)
      BY <1>2, <2>3 DEF Newer
  <2> QED BY <2>1, <2>2, <2>3
<1>7. rank \in [places -> 0 .. MaxEvidence - 1]
  <2>1. \A i \in places : Cardinality(newer(i)) \in 0 .. MaxEvidence - 1
      BY <1>1, <1>3, <1>4
  <2> QED BY <2>1
<1>8. \A i, j \in places : rank[i] = rank[j] => i = j
    BY <1>1, <1>6
<1>9. rank \in Injection(places, 0 .. MaxEvidence - 1)
  <2> HIDE DEF rank, places
  <2> QED BY <1>7, <1>8 DEF Injection, IsInjective
<1>10. PICK r, S, T : r = rank /\ S = places /\ T = 0 .. MaxEvidence - 1
    OBVIOUS
<1>11. IsFiniteSet(T) /\ Cardinality(T) = MaxEvidence
    BY <1>3, <1>10, FS_Interval
<1>12. Cardinality(S) <= Cardinality(T)
    BY <1>9, <1>10, <1>11, FS_Injection
<1> QED BY <1>10, <1>11, <1>12 DEF newer

\* retain() keeps some of the evidence, not more than the limit.
LEMMA EvidenceRetained ==
    ASSUME NEW e \in Seq(EvidenceRecord)
    PROVE  /\ RetainEvidence(e) \in Seq(EvidenceRecord)
           /\ Len(RetainEvidence(e)) <= MaxEvidence
           /\ \A n \in DOMAIN RetainEvidence(e) : \E i \in DOMAIN e : RetainEvidence(e)[n] = e[i]
<1>1. PICK p : p = {i \in DOMAIN e : Unexpired(e[i])}
    OBVIOUS
<1>2. PICK f : f = Kept(e, p)
    OBVIOUS
<1>3. p \in SUBSET DOMAIN e
    BY <1>1
<1>4. f \in Seq(EvidenceRecord) /\ \A n \in DOMAIN f : \E i \in DOMAIN e : f[n] = e[i]
    BY <1>2, <1>3, KeptSequence
<1>5. PICK q : q = {i \in DOMAIN f : Cardinality({j \in DOMAIN f : Newer(f, j, i)}) < MaxEvidence}
    OBVIOUS
<1>6. q \in SUBSET DOMAIN f
    BY <1>5
<1>7. Cardinality(q) <= MaxEvidence
    BY <1>4, <1>5, NewestAreFew
<1>8. PICK g : g = Kept(f, q)
    OBVIOUS
<1>9. g \in Seq(EvidenceRecord) /\ Len(g) = Cardinality(q) /\ \A n \in DOMAIN g : \E i \in DOMAIN f : g[n] = f[i]
    BY <1>4, <1>6, <1>8, KeptSequence
<1>10. RetainEvidence(e) = g
    BY <1>1, <1>2, <1>5, <1>8, Zenon DEF RetainEvidence, Newest
<1>11. \A n \in DOMAIN g : \E i \in DOMAIN e : g[n] = e[i]
    BY <1>4, <1>9, Zenon
<1> QED BY <1>7, <1>9, <1>10, <1>11

\* Environments belong to projects, and scenario versions to environments.
PlacesHold ==
    /\ \A x \in environment : x[1] \in project
    /\ \A x \in published : <<x.project, x.environment>> \in environment

\* Evidence belongs to an environment of the registration under which it was uploaded.
EvidenceHolds ==
    \A i \in DOMAIN evidence :
        /\ <<evidence[i].project, evidence[i].environment>> \in environment
        /\ evidence[i].epoch = epoch[evidence[i].project]

\* A service token is that of an account, revoked when the account is disabled, and is
\* scoped to environments of the registrations that it was scoped under.
TokensHold ==
    \A t \in Token : token[t].kind = "service" =>
        /\ token[t].subject \in Account /\ account[token[t].subject] # "none"
        /\ account[token[t].subject] = "disabled" => token[t].revoked
        /\ \A s \in token[t].scope :
            /\ s[1] \in project /\ <<s[1], s[2]>> \in environment
            /\ token[t].epoch[s[1]] = epoch[s[1]]

\* The inductive invariant.
TeamInv ==
    /\ TeamTypeOK
    /\ PlacesHold
    /\ EvidenceHolds
    /\ TokensHold
    /\ TrailRuns(trail, now)

\* The empty store satisfies the invariant.
LEMMA TeamInitInv == TeamInit => TeamInv
<1> SUFFICES ASSUME TeamInit PROVE TeamInv
    OBVIOUS
<1> USE TeamAssumption, ClockAssumption DEF TeamInit
<1>1. NoToken \in TokenRecord /\ NoToken.kind = "none"
    BY DEF NoToken, TokenRecord
<1>2. TeamTypeOK
    BY <1>1 DEF TeamTypeOK, Role, AccountStatus
<1>3. PlacesHold /\ EvidenceHolds
    BY DEF PlacesHold, EvidenceHolds
<1>4. TokensHold
    BY <1>1 DEF TokensHold
<1>5. TrailRuns(trail, now)
    BY DEF TrailRuns
<1> QED BY <1>2, <1>3, <1>4, <1>5 DEF TeamInv

\* The next evidence is some of the entries of e.
EvidenceFrom(e) ==
    /\ evidence' \in Seq(EvidenceRecord) /\ Len(evidence') <= MaxEvidence
    /\ \A n \in DOMAIN evidence' : \E i \in DOMAIN e : evidence'[n] = e[i]

\* The next trail verifies and is not too long.
TrailGoesOn ==
    /\ now' = now
    /\ TrailRuns(trail', now) /\ Len(trail') <= MaxTrail

\* What the end of a mutation does to the evidence and to the trail.
LEMMA CommitKeeps ==
    ASSUME TeamInv, NEW e \in Seq(EvidenceRecord), Commit(e)
    PROVE  EvidenceFrom(e) /\ TrailGoesOn
<1>1. now \in Nat /\ TrailRuns(trail, now)
    BY ClockAssumption DEF TeamInv, TeamTypeOK
<1>2. evidence' = RetainEvidence(e) /\ trail' = PruneAudit(AppendTrail(trail)) /\ now' = now
    BY DEF Commit
<1>3. EvidenceFrom(e)
    BY <1>2, EvidenceRetained DEF EvidenceFrom
<1>4. PICK a, b : a = AppendTrail(trail) /\ b = PruneAudit(a)
    OBVIOUS
<1>5. TrailRuns(a, now)
    BY <1>1, <1>4, TrailAppended
<1>6. TrailRuns(b, now) /\ Len(b) <= MaxTrail
    BY <1>1, <1>4, <1>5, TrailPruned
<1> QED BY <1>2, <1>3, <1>4, <1>6 DEF TrailGoesOn

\* What retain() alone does, and retain() before and after an audit record.
LEMMA RetainKeeps ==
    ASSUME TeamInv, evidence' = RetainEvidence(evidence), UNCHANGED now,
           trail' = PruneAudit(trail) \/ trail' = PruneAudit(AppendTrail(PruneAudit(trail)))
    PROVE  EvidenceFrom(evidence) /\ TrailGoesOn
<1>1. now \in Nat /\ TrailRuns(trail, now) /\ evidence \in Seq(EvidenceRecord)
    BY ClockAssumption DEF TeamInv, TeamTypeOK
<1>2. EvidenceFrom(evidence)
    BY <1>1, EvidenceRetained DEF EvidenceFrom
<1>3. PICK a, b, c : a = PruneAudit(trail) /\ b = AppendTrail(a) /\ c = PruneAudit(b)
    OBVIOUS
<1>4. TrailRuns(a, now) /\ Len(a) <= MaxTrail
    BY <1>1, <1>3, TrailPruned
<1>5. TrailRuns(b, now)
    BY <1>1, <1>3, <1>4, TrailAppended
<1>6. TrailRuns(c, now) /\ Len(c) <= MaxTrail
    BY <1>1, <1>3, <1>5, TrailPruned
<1>7. trail' = a \/ trail' = c
    BY <1>3
<1> QED BY <1>2, <1>4, <1>6, <1>7 DEF TrailGoesOn

\* Evidence stays that of its environment when no project is registered anew.
LEMMA EvidenceStays ==
    ASSUME TeamInv, EvidenceFrom(evidence), environment \subseteq environment',
           \A p \in project : epoch'[p] = epoch[p]
    PROVE  EvidenceHolds'
<1> SUFFICES ASSUME NEW n \in DOMAIN evidence'
             PROVE  /\ <<evidence'[n].project, evidence'[n].environment>> \in environment'
                    /\ evidence'[n].epoch = epoch'[evidence'[n].project]
    BY Zenon DEF EvidenceHolds
<1>1. PICK i \in DOMAIN evidence : evidence'[n] = evidence[i]
    BY DEF EvidenceFrom
<1>2. /\ <<evidence[i].project, evidence[i].environment>> \in environment
      /\ evidence[i].epoch = epoch[evidence[i].project]
    BY DEF TeamInv, EvidenceHolds
<1>3. evidence[i].project \in project
  <2>1. PICK x \in environment : x = <<evidence[i].project, evidence[i].environment>>
      BY <1>2
  <2>2. x[1] \in project
      BY DEF TeamInv, PlacesHold
  <2> QED BY <2>1, <2>2
<1> QED BY <1>1, <1>2, <1>3

\* Tokens keep their subjects and scopes when none is issued, no account disabled and
\* no project deleted or registered anew.
LEMMA TokensStay ==
    ASSUME TeamInv, token' = token, environment \subseteq environment', project \subseteq project',
           \A a \in Account : account[a] # "none" => account'[a] = account[a],
           \A p \in project : epoch'[p] = epoch[p]
    PROVE  TokensHold'
BY DEF TeamInv, TokensHold

\* The steps that end with the places, tokens, accounts and registrations as they are.
LEMMA PlainSteps ==
    ASSUME TeamInv, EvidenceFrom(evidence), TrailGoesOn,
           UNCHANGED <<account, project, environment, token, published, epoch>>,
           role' \in [Member -> Role], session' \subseteq Token, policies' \subseteq PolicyVersion
    PROVE  TeamInv'
<1>1. TeamTypeOK'
    BY DEF TeamInv, TeamTypeOK, EvidenceFrom, TrailGoesOn, TrailRuns
<1>2. PlacesHold' /\ TokensHold'
    BY TokensStay DEF TeamInv, PlacesHold
<1>3. EvidenceHolds'
    BY EvidenceStays
<1> QED BY <1>1, <1>2, <1>3 DEF TeamInv, TrailGoesOn

\* Members, policies, sessions and retention.
LEMMA MembersInv ==
    ASSUME TeamInv,
           \/ BootstrapOrganization
           \/ \E m, new \in Member, r \in {"admin", "developer", "viewer"} : AddMember(m, new, r)
           \/ \E m \in Member, v \in 1 .. MaxScenarioVersion : DistributePolicy(m, v)
           \/ \E m \in Member, a \in Account : DisableAgain(m, a)
           \/ \E m \in Member : PruneRetention(m)
    PROVE  TeamInv'
<1>t. /\ role \in [Member -> Role] /\ policies \subseteq PolicyVersion /\ session \subseteq Token
      /\ evidence \in Seq(EvidenceRecord)
    BY DEF TeamInv, TeamTypeOK
<1>1. CASE BootstrapOrganization
  <2>1. EvidenceFrom(evidence) /\ TrailGoesOn
      BY <1>t, <1>1, CommitKeeps DEF BootstrapOrganization
  <2>2. role' \in [Member -> Role]
      BY <1>t, <1>1 DEF BootstrapOrganization, Role
  <2> QED BY <1>t, <1>1, <2>1, <2>2, PlainSteps DEF BootstrapOrganization
<1>2. CASE \E m, new \in Member, r \in {"admin", "developer", "viewer"} : AddMember(m, new, r)
  <2>1. PICK m \in Member, new \in Member, r \in {"admin", "developer", "viewer"} : AddMember(m, new, r)
      BY <1>2
  <2>2. EvidenceFrom(evidence) /\ TrailGoesOn
      BY <1>t, <2>1, CommitKeeps DEF AddMember
  <2>3. role' \in [Member -> Role]
      BY <1>t, <2>1 DEF AddMember, Role
  <2> QED BY <1>t, <2>1, <2>2, <2>3, PlainSteps DEF AddMember
<1>3. CASE \E m \in Member, v \in 1 .. MaxScenarioVersion : DistributePolicy(m, v)
  <2>1. PICK m \in Member, v \in 1 .. MaxScenarioVersion : DistributePolicy(m, v)
      BY <1>3
  <2>2. EvidenceFrom(evidence) /\ TrailGoesOn
      BY <1>t, <2>1, CommitKeeps DEF DistributePolicy
  <2>3. policies' \subseteq PolicyVersion
      BY <1>t, <2>1 DEF DistributePolicy, PolicyVersion
  <2> QED BY <1>t, <2>1, <2>2, <2>3, PlainSteps DEF DistributePolicy
<1>4. CASE \E m \in Member, a \in Account : DisableAgain(m, a)
  <2>1. EvidenceFrom(evidence) /\ TrailGoesOn
      BY <1>4, RetainKeeps DEF DisableAgain
  <2> QED BY <1>t, <1>4, <2>1, PlainSteps DEF DisableAgain
<1>5. CASE \E m \in Member : PruneRetention(m)
  <2>1. EvidenceFrom(evidence) /\ TrailGoesOn
      BY <1>5, RetainKeeps DEF PruneRetention
  <2> QED BY <1>t, <1>5, <2>1, PlainSteps DEF PruneRetention
<1> QED BY <1>1, <1>2, <1>3, <1>4, <1>5

\* Service accounts.
LEMMA AccountsInv ==
    ASSUME TeamInv, NEW m \in Member, NEW a \in Account,
           CreateServiceAccount(m, a) \/ DisableServiceAccount(m, a)
    PROVE  TeamInv'
<1>t. /\ evidence \in Seq(EvidenceRecord) /\ account \in [Account -> AccountStatus]
      /\ token \in [Token -> TokenRecord]
    BY DEF TeamInv, TeamTypeOK
<1>1. EvidenceFrom(evidence) /\ TrailGoesOn
    BY <1>t, CommitKeeps DEF CreateServiceAccount, DisableServiceAccount
<1>2. UNCHANGED <<role, project, environment, session, published, policies, epoch>>
    BY DEF CreateServiceAccount, DisableServiceAccount
<1>3. account' \in [Account -> AccountStatus]
    BY <1>t DEF CreateServiceAccount, DisableServiceAccount, AccountStatus
<1>4. /\ token' \in [Token -> TokenRecord]
      /\ \A t \in Token :
            /\ token'[t].kind = token[t].kind /\ token'[t].subject = token[t].subject
            /\ token'[t].scope = token[t].scope /\ token'[t].epoch = token[t].epoch
  <2>1. CASE CreateServiceAccount(m, a)
      BY <1>t, <2>1 DEF CreateServiceAccount
  <2>2. CASE DisableServiceAccount(m, a)
    <3>1. \A t \in Token : token'[t] = token[t] \/ token'[t] = [token[t] EXCEPT !.revoked = TRUE]
        BY <2>2, Zenon DEF DisableServiceAccount
    <3>2. token' = [t \in Token |-> token'[t]]
        BY <2>2, Zenon DEF DisableServiceAccount
    <3>3. ASSUME NEW t \in Token
          PROVE  /\ token'[t] \in TokenRecord
                 /\ token'[t].kind = token[t].kind /\ token'[t].subject = token[t].subject
                 /\ token'[t].scope = token[t].scope /\ token'[t].epoch = token[t].epoch
      <4>1. token[t] \in TokenRecord
          BY <1>t
      <4>2. token'[t] = token[t] \/ token'[t] = [token[t] EXCEPT !.revoked = TRUE]
          BY <3>1
      <4> QED BY <4>1, <4>2 DEF TokenRecord
    <3> QED BY <3>2, <3>3
  <2> QED BY <2>1, <2>2
<1>5. TeamTypeOK'
    BY <1>1, <1>2, <1>3, <1>4 DEF TeamInv, TeamTypeOK, EvidenceFrom, TrailGoesOn, TrailRuns
<1>6. PlacesHold'
    BY <1>2 DEF TeamInv, PlacesHold
<1>7. EvidenceHolds'
    BY <1>1, <1>2, EvidenceStays
<1>8. TokensHold'
  <2>1. CASE CreateServiceAccount(m, a)
    <3>1. token' = token /\ \A x \in Account : account[x] # "none" => account'[x] = account[x]
        BY <1>t, <2>1 DEF CreateServiceAccount
    <3> QED BY <1>2, <3>1, TokensStay
  <2>2. CASE DisableServiceAccount(m, a)
    <3> SUFFICES ASSUME NEW t \in Token, token'[t].kind = "service"
                 PROVE  /\ token'[t].subject \in Account /\ account'[token'[t].subject] # "none"
                        /\ account'[token'[t].subject] = "disabled" => token'[t].revoked
                        /\ \A s \in token'[t].scope :
                            /\ s[1] \in project' /\ <<s[1], s[2]>> \in environment'
                            /\ token'[t].epoch[s[1]] = epoch'[s[1]]
        BY Zenon DEF TokensHold
    <3>1. token[t].kind = "service"
        BY <1>4
    <3>2. /\ token[t].subject \in Account /\ account[token[t].subject] # "none"
          /\ account[token[t].subject] = "disabled" => token[t].revoked
          /\ \A s \in token[t].scope :
                /\ s[1] \in project /\ <<s[1], s[2]>> \in environment
                /\ token[t].epoch[s[1]] = epoch[s[1]]
        BY <3>1 DEF TeamInv, TokensHold
    <3>3. /\ token[t].subject = a => token'[t] = [token[t] EXCEPT !.revoked = TRUE]
          /\ token[t].subject # a => token'[t] = token[t]
        BY <2>2, <3>1, Zenon DEF DisableServiceAccount
    <3>4. token[t] \in TokenRecord
        BY <1>t
    <3>5. token[t].subject = a => token'[t].revoked = TRUE
        BY <3>3, <3>4 DEF TokenRecord
    <3>6. \A x \in Account : x # a => account'[x] = account[x]
        BY <1>t, <2>2 DEF DisableServiceAccount
    <3>7. account'[a] = "disabled"
        BY <1>t, <2>2 DEF DisableServiceAccount
    <3>8. CASE token[t].subject = a
        BY <1>2, <1>4, <3>2, <3>5, <3>7, <3>8
    <3>9. CASE token[t].subject # a
        BY <1>2, <1>4, <3>2, <3>3, <3>6, <3>9
    <3> QED BY <3>8, <3>9
  <2> QED BY <2>1, <2>2
<1> QED BY <1>1, <1>5, <1>6, <1>7, <1>8 DEF TeamInv, TrailGoesOn

\* Projects and environments come into being.
LEMMA PlacesInv ==
    ASSUME TeamInv, NEW m \in Member, NEW p \in Project,
           RegisterProject(m, p) \/ \E e \in Environment : CreateEnvironment(m, p, e)
    PROVE  TeamInv'
<1>t. /\ evidence \in Seq(EvidenceRecord) /\ project \subseteq Project
      /\ environment \subseteq Project \X Environment /\ epoch \in [Project -> Nat]
    BY DEF TeamInv, TeamTypeOK
<1>1. EvidenceFrom(evidence) /\ TrailGoesOn
    BY <1>t, CommitKeeps DEF RegisterProject, CreateEnvironment
<1>2. UNCHANGED <<role, account, token, session, published, policies>>
    BY DEF RegisterProject, CreateEnvironment
<1>3. /\ project' \subseteq Project /\ project \subseteq project'
      /\ environment' \subseteq Project \X Environment /\ environment \subseteq environment'
      /\ \A x \in environment' : x[1] \in project'
  <2>1. \A x \in environment : x[1] \in project
      BY DEF TeamInv, PlacesHold
  <2>2. CASE RegisterProject(m, p)
      BY <1>t, <2>1, <2>2 DEF RegisterProject
  <2>3. CASE \E e \in Environment : CreateEnvironment(m, p, e)
      BY <1>t, <2>1, <2>3 DEF CreateEnvironment
  <2> QED BY <2>2, <2>3
<1>4. epoch' \in [Project -> Nat] /\ \A q \in project : epoch'[q] = epoch[q]
  <2>1. CASE RegisterProject(m, p)
      BY <1>t, <2>1 DEF RegisterProject
  <2>2. CASE \E e \in Environment : CreateEnvironment(m, p, e)
      BY <1>t, <2>2 DEF CreateEnvironment
  <2> QED BY <2>1, <2>2
<1>5. TeamTypeOK'
    BY <1>1, <1>2, <1>3, <1>4 DEF TeamInv, TeamTypeOK, EvidenceFrom, TrailGoesOn, TrailRuns
<1>6. PlacesHold'
    BY <1>2, <1>3 DEF TeamInv, PlacesHold
<1>7. EvidenceHolds' /\ TokensHold'
    BY <1>1, <1>2, <1>3, <1>4, EvidenceStays, TokensStay
<1> QED BY <1>1, <1>5, <1>6, <1>7 DEF TeamInv, TrailGoesOn

\* Deletion: with a project go its environments, scenario versions, evidence and every
\* service token that is scoped to it.
LEMMA DeleteProjectInv ==
    ASSUME TeamInv, NEW m \in Member, NEW p \in Project, DeleteProject(m, p)
    PROVE  TeamInv'
<1>t. /\ evidence \in Seq(EvidenceRecord) /\ project \subseteq Project
      /\ environment \subseteq Project \X Environment /\ token \in [Token -> TokenRecord]
      /\ published \subseteq ScenarioVersion
    BY DEF TeamInv, TeamTypeOK
<1>1. /\ project' = project \ {p} /\ environment' = {x \in environment : x[1] # p}
      /\ published' = {x \in published : x.project # p}
      /\ UNCHANGED <<role, account, session, policies, epoch>>
    BY DEF DeleteProject
<1>2. PICK q : q = {i \in DOMAIN evidence : evidence[i].project # p}
    OBVIOUS
<1>3. PICK w : w = Kept(evidence, q)
    OBVIOUS
<1>4. w \in Seq(EvidenceRecord) /\ \A n \in DOMAIN w : \E i \in q : w[n] = evidence[i]
  <2>1. q \in SUBSET DOMAIN evidence
      BY <1>2
  <2> QED BY <1>t, <1>3, <2>1, KeptSequence
<1>5. Commit(w)
    BY <1>2, <1>3, Zenon DEF DeleteProject, Without
<1>6. EvidenceFrom(w) /\ TrailGoesOn
    BY <1>4, <1>5, CommitKeeps
<1>7. NoToken \in TokenRecord /\ NoToken.kind = "none"
    BY DEF NoToken, TokenRecord
<1>8. /\ token' = [t \in Token |-> token'[t]]
      /\ \A t \in Token :
            \/ token'[t] = NoToken
            \/ token'[t] = token[t] /\ ~(token[t].kind = "service" /\ \E s \in token[t].scope : s[1] = p)
    BY Zenon DEF DeleteProject
<1>9. token' \in [Token -> TokenRecord]
    BY <1>t, <1>7, <1>8
<1>10. TeamTypeOK'
    BY <1>t, <1>1, <1>6, <1>9 DEF TeamInv, TeamTypeOK, EvidenceFrom, TrailGoesOn, TrailRuns
<1>11. PlacesHold'
  <2>1. \A x \in environment' : x[1] \in project'
      BY <1>1 DEF TeamInv, PlacesHold
  <2>2. ASSUME NEW x \in published' PROVE <<x.project, x.environment>> \in environment'
    <3>1. x \in published /\ x.project # p
        BY <1>1
    <3>2. <<x.project, x.environment>> \in environment
        BY <3>1 DEF TeamInv, PlacesHold
    <3> QED BY <1>1, <3>1, <3>2
  <2> QED BY <2>1, <2>2 DEF PlacesHold
<1>12. EvidenceHolds'
  <2> SUFFICES ASSUME NEW n \in DOMAIN evidence'
               PROVE  /\ <<evidence'[n].project, evidence'[n].environment>> \in environment'
                      /\ evidence'[n].epoch = epoch'[evidence'[n].project]
      BY Zenon DEF EvidenceHolds
  <2>1. PICK k \in DOMAIN w : evidence'[n] = w[k]
      BY <1>6 DEF EvidenceFrom
  <2>2. PICK i \in q : w[k] = evidence[i]
      BY <1>4
  <2>3. i \in DOMAIN evidence /\ evidence[i].project # p
      BY <1>2
  <2>4. /\ <<evidence[i].project, evidence[i].environment>> \in environment
        /\ evidence[i].epoch = epoch[evidence[i].project]
      BY <2>3 DEF TeamInv, EvidenceHolds
  <2> QED BY <1>1, <2>1, <2>2, <2>3, <2>4
<1>13. TokensHold'
  <2> SUFFICES ASSUME NEW t \in Token, token'[t].kind = "service"
               PROVE  /\ token'[t].subject \in Account /\ account'[token'[t].subject] # "none"
                      /\ account'[token'[t].subject] = "disabled" => token'[t].revoked
                      /\ \A s \in token'[t].scope :
                          /\ s[1] \in project' /\ <<s[1], s[2]>> \in environment'
                          /\ token'[t].epoch[s[1]] = epoch'[s[1]]
      BY Zenon DEF TokensHold
  <2>1. token'[t] = token[t] /\ ~(token[t].kind = "service" /\ \E s \in token[t].scope : s[1] = p)
      BY <1>7, <1>8
  <2>2. /\ token[t].subject \in Account /\ account[token[t].subject] # "none"
        /\ account[token[t].subject] = "disabled" => token[t].revoked
        /\ \A s \in token[t].scope :
              /\ s[1] \in project /\ <<s[1], s[2]>> \in environment
              /\ token[t].epoch[s[1]] = epoch[s[1]]
      BY <2>1 DEF TeamInv, TokensHold
  <2>3. \A s \in token[t].scope : s[1] # p
      BY <2>1
  <2> QED BY <1>1, <2>1, <2>2, <2>3
<1> QED BY <1>6, <1>10, <1>11, <1>12, <1>13 DEF TeamInv, TrailGoesOn

\* Deleting and uploading evidence.
LEMMA EvidenceInv ==
    ASSUME TeamInv,
           \/ \E m \in Member, p \in Project, id \in EvidenceId : DeleteEvidence(m, p, id)
           \/ \E actor \in Member \cup Token, p \in Project, e \in Environment, id \in EvidenceId :
                UploadEvidence(actor, p, e, id)
    PROVE  TeamInv'
<1>t. /\ evidence \in Seq(EvidenceRecord) /\ role \in [Member -> Role]
      /\ policies \subseteq PolicyVersion /\ session \subseteq Token
      /\ now \in Nat /\ epoch \in [Project -> Nat]
    BY ClockAssumption DEF TeamInv, TeamTypeOK
<1>1. CASE \E m \in Member, p \in Project, id \in EvidenceId : DeleteEvidence(m, p, id)
  <2>1. PICK m \in Member, p \in Project, id \in EvidenceId : DeleteEvidence(m, p, id)
      BY <1>1
  <2>2. PICK q : q = {i \in DOMAIN evidence : ~(evidence[i].project = p /\ evidence[i].id = id)}
      OBVIOUS
  <2>3. PICK w : w = Kept(evidence, q)
      OBVIOUS
  <2>4. w \in Seq(EvidenceRecord) /\ \A n \in DOMAIN w : \E i \in DOMAIN evidence : w[n] = evidence[i]
    <3>1. q \in SUBSET DOMAIN evidence
        BY <2>2
    <3> QED BY <1>t, <2>3, <3>1, KeptSequence
  <2>5. Commit(w)
      BY <2>1, <2>2, <2>3, Zenon DEF DeleteEvidence
  <2>6. EvidenceFrom(w) /\ TrailGoesOn
      BY <2>4, <2>5, CommitKeeps
  <2>7. EvidenceFrom(evidence)
      BY <2>4, <2>6 DEF EvidenceFrom
  <2>8. UNCHANGED <<role, account, project, environment, token, session, published, policies, epoch>>
      BY <2>1 DEF DeleteEvidence
  <2> QED BY <1>t, <2>6, <2>7, <2>8, PlainSteps
<1>2. CASE \E actor \in Member \cup Token, p \in Project, e \in Environment, id \in EvidenceId :
                UploadEvidence(actor, p, e, id)
  <2>1. PICK actor \in Member \cup Token, p \in Project, e \in Environment, id \in EvidenceId :
            UploadEvidence(actor, p, e, id)
      BY <1>2
  <2>2. PICK x : x = [id |-> id, project |-> p, environment |-> e, uploadedAt |-> now, epoch |-> epoch[p]]
      OBVIOUS
  <2>3. PICK w : w = Append(evidence, x)
      OBVIOUS
  <2>4. x \in EvidenceRecord
      BY <1>t, <2>2 DEF EvidenceRecord
  <2>5. /\ w \in Seq(EvidenceRecord)
        /\ \A n \in DOMAIN w : w[n] = x \/ \E i \in DOMAIN evidence : w[n] = evidence[i]
      BY <1>t, <2>3, <2>4
  <2>6. Commit(w)
      BY <2>1, <2>2, <2>3, Zenon DEF UploadEvidence
  <2>7. EvidenceFrom(w) /\ TrailGoesOn
      BY <2>5, <2>6, CommitKeeps
  <2>8. /\ UNCHANGED <<role, account, project, environment, token, session, published, policies, epoch>>
        /\ <<p, e>> \in environment
      BY <2>1 DEF UploadEvidence
  <2>9. TeamTypeOK'
      BY <2>7, <2>8 DEF TeamInv, TeamTypeOK, EvidenceFrom, TrailGoesOn, TrailRuns
  <2>10. PlacesHold' /\ TokensHold'
      BY <2>8, TokensStay DEF TeamInv, PlacesHold
  <2>11. EvidenceHolds'
    <3> SUFFICES ASSUME NEW n \in DOMAIN evidence'
                 PROVE  /\ <<evidence'[n].project, evidence'[n].environment>> \in environment'
                        /\ evidence'[n].epoch = epoch'[evidence'[n].project]
        BY Zenon DEF EvidenceHolds
    <3>1. PICK k \in DOMAIN w : evidence'[n] = w[k]
        BY <2>7 DEF EvidenceFrom
    <3>2. CASE w[k] = x
        BY <2>2, <2>8, <3>1, <3>2
    <3>3. CASE w[k] # x
      <4>1. PICK i \in DOMAIN evidence : w[k] = evidence[i]
          BY <2>5, <3>3
      <4>2. /\ <<evidence[i].project, evidence[i].environment>> \in environment
            /\ evidence[i].epoch = epoch[evidence[i].project]
          BY DEF TeamInv, EvidenceHolds
      <4> QED BY <2>8, <3>1, <4>1, <4>2
    <3> QED BY <3>2, <3>3
  <2> QED BY <2>7, <2>9, <2>10, <2>11 DEF TeamInv, TrailGoesOn
<1> QED BY <1>1, <1>2

\* A token that holds: of an account that is known, not live when the account is
\* disabled, and scoped to registrations that stand.
TokenHolds(x) ==
    x.kind = "service" =>
        /\ x.subject \in Account /\ account[x.subject] # "none"
        /\ account[x.subject] = "disabled" => x.revoked
        /\ \A s \in x.scope :
            /\ s[1] \in project /\ <<s[1], s[2]>> \in environment
            /\ x.epoch[s[1]] = epoch[s[1]]

\* The steps that change tokens alone, each to one that holds.
LEMMA TokenSteps ==
    ASSUME TeamInv, Commit(evidence), token' \in [Token -> TokenRecord],
           \A t \in Token : TokenHolds(token'[t]),
           UNCHANGED <<role, account, project, environment, session, published, policies, epoch>>
    PROVE  TeamInv'
<1>1. EvidenceFrom(evidence) /\ TrailGoesOn
  <2>1. evidence \in Seq(EvidenceRecord)
      BY DEF TeamInv, TeamTypeOK
  <2> QED BY <2>1, CommitKeeps
<1>2. TeamTypeOK'
    BY <1>1 DEF TeamInv, TeamTypeOK, EvidenceFrom, TrailGoesOn, TrailRuns
<1>3. PlacesHold' /\ EvidenceHolds'
    BY <1>1, EvidenceStays DEF TeamInv, PlacesHold
<1>4. TokensHold'
    BY DEF TokensHold, TokenHolds
<1> QED BY <1>1, <1>2, <1>3, <1>4 DEF TeamInv, TrailGoesOn

\* Tokens are issued, rotated and revoked.
LEMMA TokensInv ==
    ASSUME TeamInv, NEW m \in Member, ManageTokens(m)
    PROVE  TeamInv'
<1>t. /\ token \in [Token -> TokenRecord] /\ epoch \in [Project -> Nat]
      /\ account \in [Account -> AccountStatus] /\ MaxTime \in Nat
    BY ClockAssumption DEF TeamInv, TeamTypeOK
<1>h. \A t \in Token : TokenHolds(token[t])
    BY DEF TeamInv, TokensHold, TokenHolds
<1>1. PICK t \in Token :
        \/ RevokeToken(m, t)
        \/ \E x \in 1 .. MaxTime + 1 :
            \/ \E subject \in Member : IssueToken(m, subject, t, x)
            \/ \E a \in Account, scope \in Scopes : IssueServiceToken(m, a, t, x, scope)
            \/ \E old \in Token : RotateToken(m, old, t, x)
    BY DEF ManageTokens
<1>2. CASE RevokeToken(m, t)
  <2>1. PICK n : n = [token[t] EXCEPT !.revoked = TRUE]
      OBVIOUS
  <2>2. /\ token' = [token EXCEPT ![t] = n] /\ Commit(evidence)
        /\ UNCHANGED <<role, account, project, environment, session, published, policies, epoch>>
      BY <1>2, <2>1 DEF RevokeToken
  <2>3. token[t] \in TokenRecord /\ TokenHolds(token[t])
      BY <1>t, <1>h
  <2>4. n \in TokenRecord /\ TokenHolds(n)
    <3>1. /\ n \in TokenRecord /\ n.kind = token[t].kind /\ n.subject = token[t].subject
          /\ n.scope = token[t].scope /\ n.epoch = token[t].epoch /\ n.revoked = TRUE
        BY <2>1, <2>3 DEF TokenRecord
    <3> QED BY <2>3, <3>1 DEF TokenHolds
  <2>5. token' \in [Token -> TokenRecord] /\ \A u \in Token : token'[u] = n \/ token'[u] = token[u]
      BY <1>t, <2>2, <2>4
  <2>6. \A u \in Token : TokenHolds(token'[u])
      BY <1>h, <2>4, <2>5, Zenon
  <2> QED BY <2>2, <2>5, <2>6, TokenSteps
<1>3. CASE \E x \in 1 .. MaxTime + 1, subject \in Member : IssueToken(m, subject, t, x)
  <2>1. PICK x \in 1 .. MaxTime + 1, subject \in Member : IssueToken(m, subject, t, x)
      BY <1>3
  <2>2. PICK n : n = [kind |-> "user", subject |-> subject, expiresAt |-> x, scope |-> {},
                      revoked |-> FALSE, epoch |-> epoch]
      OBVIOUS
  <2>3. /\ token' = [token EXCEPT ![t] = n] /\ Commit(evidence)
        /\ UNCHANGED <<role, account, project, environment, session, published, policies, epoch>>
      BY <2>1, <2>2 DEF IssueToken
  <2>4. n \in TokenRecord
      BY <1>t, <2>2 DEF TokenRecord
  <2>5. TokenHolds(n)
      BY <2>2 DEF TokenHolds
  <2>6. token' \in [Token -> TokenRecord] /\ \A u \in Token : token'[u] = n \/ token'[u] = token[u]
      BY <1>t, <2>3, <2>4
  <2>7. \A u \in Token : TokenHolds(token'[u])
      BY <1>h, <2>5, <2>6, Zenon
  <2> QED BY <2>3, <2>6, <2>7, TokenSteps
<1>4. CASE \E x \in 1 .. MaxTime + 1, a \in Account, scope \in Scopes : IssueServiceToken(m, a, t, x, scope)
  <2>1. PICK x \in 1 .. MaxTime + 1, a \in Account, scope \in Scopes : IssueServiceToken(m, a, t, x, scope)
      BY <1>4
  <2>2. PICK n : n = [kind |-> "service", subject |-> a, expiresAt |-> x, scope |-> scope,
                      revoked |-> FALSE, epoch |-> epoch]
      OBVIOUS
  <2>3. /\ token' = [token EXCEPT ![t] = n] /\ Commit(evidence)
        /\ UNCHANGED <<role, account, project, environment, session, published, policies, epoch>>
        /\ account[a] = "enabled" /\ ScopeExists(scope)
      BY <2>1, <2>2 DEF IssueServiceToken
  <2>4. n \in TokenRecord
    <3>1. scope \in SUBSET ScopeEntry
        BY TeamAssumption
    <3> QED BY <1>t, <2>2, <3>1 DEF TokenRecord
  <2>5. TokenHolds(n)
      BY <2>2, <2>3 DEF TokenHolds, ScopeExists
  <2>6. token' \in [Token -> TokenRecord] /\ \A u \in Token : token'[u] = n \/ token'[u] = token[u]
      BY <1>t, <2>3, <2>4
  <2>7. \A u \in Token : TokenHolds(token'[u])
      BY <1>h, <2>5, <2>6, Zenon
  <2> QED BY <2>3, <2>6, <2>7, TokenSteps
<1>5. CASE \E x \in 1 .. MaxTime + 1, old \in Token : RotateToken(m, old, t, x)
  <2>1. PICK x \in 1 .. MaxTime + 1, old \in Token : RotateToken(m, old, t, x)
      BY <1>5
  <2>2. PICK r, n : r = [token[old] EXCEPT !.revoked = TRUE] /\ n = [token[old] EXCEPT !.expiresAt = x]
      OBVIOUS
  <2>3. /\ token' = [token EXCEPT ![old] = r, ![t] = n] /\ Commit(evidence)
        /\ UNCHANGED <<role, account, project, environment, session, published, policies, epoch>>
      BY <2>1, <2>2 DEF RotateToken
  <2>4. token[old] \in TokenRecord /\ TokenHolds(token[old]) /\ x \in Nat
      BY <1>t, <1>h
  <2>5. r \in TokenRecord /\ TokenHolds(r)
    <3>1. /\ r \in TokenRecord /\ r.kind = token[old].kind /\ r.subject = token[old].subject
          /\ r.scope = token[old].scope /\ r.epoch = token[old].epoch /\ r.revoked = TRUE
        BY <2>2, <2>4 DEF TokenRecord
    <3> QED BY <2>4, <3>1 DEF TokenHolds
  <2>6. n \in TokenRecord /\ TokenHolds(n)
    <3>1. /\ n \in TokenRecord /\ n.kind = token[old].kind /\ n.subject = token[old].subject
          /\ n.scope = token[old].scope /\ n.epoch = token[old].epoch /\ n.revoked = token[old].revoked
        BY <2>2, <2>4 DEF TokenRecord
    <3> QED BY <2>4, <3>1 DEF TokenHolds
  <2>7. /\ token' \in [Token -> TokenRecord]
        /\ \A u \in Token : token'[u] = r \/ token'[u] = n \/ token'[u] = token[u]
      BY <1>t, <2>3, <2>5, <2>6
  <2>8. \A u \in Token : TokenHolds(token'[u])
      BY <1>h, <2>5, <2>6, <2>7, Zenon
  <2> QED BY <2>3, <2>7, <2>8, TokenSteps
<1> QED BY <1>1, <1>2, <1>3, <1>4, <1>5

\* Scenario versions are published.
LEMMA PublishInv ==
    ASSUME TeamInv, NEW actor, NEW p \in Project, NEW e \in Environment, NEW s \in Scenario,
           NEW v \in 1 .. MaxScenarioVersion, PublishScenario(actor, p, e, s, v)
    PROVE  TeamInv'
<1>1. PICK x : x = [project |-> p, environment |-> e, scenario |-> s, version |-> v]
    OBVIOUS
<1>2. /\ published' = published \cup {x} /\ Commit(evidence) /\ <<p, e>> \in environment
      /\ UNCHANGED <<role, account, project, environment, token, session, policies, epoch>>
    BY <1>1 DEF PublishScenario
<1>3. EvidenceFrom(evidence) /\ TrailGoesOn
  <2>1. evidence \in Seq(EvidenceRecord)
      BY DEF TeamInv, TeamTypeOK
  <2> QED BY <1>2, <2>1, CommitKeeps
<1>4. x \in ScenarioVersion
    BY <1>1 DEF ScenarioVersion
<1>5. TeamTypeOK'
    BY <1>2, <1>3, <1>4 DEF TeamInv, TeamTypeOK, EvidenceFrom, TrailGoesOn, TrailRuns
<1>6. PlacesHold'
    BY <1>1, <1>2 DEF TeamInv, PlacesHold
<1>7. EvidenceHolds' /\ TokensHold'
    BY <1>2, <1>3, EvidenceStays, TokensStay
<1> QED BY <1>3, <1>5, <1>6, <1>7 DEF TeamInv, TrailGoesOn

\* Every step of the control plane preserves the invariant.
LEMMA TeamStepInv == TeamInv /\ [TeamNext]_teamVars => TeamInv'
<1> SUFFICES ASSUME TeamInv, [TeamNext]_teamVars PROVE TeamInv'
    OBVIOUS
<1>1. CASE UNCHANGED teamVars
    BY <1>1 DEF teamVars, teamOnly, TeamInv, TeamTypeOK, PlacesHold, EvidenceHolds, TokensHold, TrailRuns
<1>2. CASE TeamTick
  <2>1. /\ now < MaxTime /\ now' = now + 1
        /\ UNCHANGED <<role, account, project, environment, token, session,
                       published, evidence, policies, trail, epoch>>
      BY <1>2 DEF TeamTick, Tick
  <2>2. now \in 0 .. MaxTime /\ MaxTime \in Nat
      BY ClockAssumption DEF TeamInv, TeamTypeOK
  <2>3. TeamTypeOK'
      BY <2>1, <2>2 DEF TeamInv, TeamTypeOK
  <2>4. PlacesHold' /\ EvidenceHolds' /\ TokensHold'
      BY <2>1 DEF TeamInv, PlacesHold, EvidenceHolds, TokensHold
  <2>5. TrailRuns(trail', now')
    <3>0. trail \in Seq(AuditEntry)
        BY DEF TeamInv, TrailRuns
    <3>1. \A i \in DOMAIN trail : trail[i].at \in Nat
      <4>1. \A i \in DOMAIN trail : trail[i] \in AuditEntry
          BY <3>0
      <4> QED BY <4>1 DEF AuditEntry
    <3> QED BY <2>1, <2>2, <3>0, <3>1 DEF TeamInv, TrailRuns
  <2> QED BY <2>3, <2>4, <2>5 DEF TeamInv
<1>3. CASE BootstrapOrganization
    BY <1>3, MembersInv
<1>4. ASSUME NEW m \in Member, ManageTokens(m) PROVE TeamInv'
    BY <1>4, TokensInv
<1>5. ASSUME NEW m \in Member, ManageTeam(m) PROVE TeamInv'
    BY <1>5, MembersInv, AccountsInv, PlacesInv, DeleteProjectInv, EvidenceInv DEF ManageTeam
<1>6. ASSUME NEW t \in Token, AuthenticateToken(t) PROVE TeamInv'
    BY <1>6 DEF AuthenticateToken, TeamInv, TeamTypeOK, PlacesHold, EvidenceHolds, TokensHold, TrailRuns
<1>7. ASSUME NEW actor \in Member \cup Token, PublishAs(actor) PROVE TeamInv'
    BY <1>7, PublishInv, EvidenceInv DEF PublishAs
<1> QED BY <1>1, <1>2, <1>3, <1>4, <1>5, <1>6, <1>7 DEF TeamNext

\* The types, the references and the trail hold in every state of the control plane,
\* for any members, projects, scopes, retention times and limits.
THEOREM TeamInvariance == TeamSpec => []TeamInv
BY TeamInitInv, TeamStepInv, PTL DEF TeamSpec

\* What the invariant says of references and of the trail.
LEMMA TeamStateIsValid == TeamInv => StateStaysValid
<1> SUFFICES ASSUME TeamInv PROVE ReferencesHold /\ AuditVerifies
    BY DEF StateStaysValid
<1>1. AuditVerifies
    BY DEF TeamInv, TrailRuns, AuditVerifies
<1>2. ReferencesHold
    BY DEF TeamInv, PlacesHold, EvidenceHolds, TokensHold, ReferencesHold, ScopeExists
<1> QED BY <1>1, <1>2

\* validateState() accepts every state that the operations of the control plane reach:
\* no reference is into the void and the audit trail verifies, whatever is deleted,
\* disabled and retained in whatever order.
THEOREM TeamStateStaysValid == TeamSpec => []StateStaysValid
BY TeamInvariance, TeamStateIsValid, PTL

\* What the invariant says of tokens and evidence of an earlier registration.
LEMMA TeamInvSeparates == TeamInv => NoSecondLife
<1> SUFFICES ASSUME TeamInv, NEW t \in session
             PROVE  /\ \A s \in ServiceScopes(t) : token[t].epoch[s[1]] = epoch[s[1]]
                    /\ \A i \in VisibleEvidence(t) :
                        evidence[i].epoch = token[t].epoch[evidence[i].project]
    BY DEF NoSecondLife
<1>1. t \in Token
    BY DEF TeamInv, TeamTypeOK
<1>2. \A s \in ServiceScopes(t) : token[t].epoch[s[1]] = epoch[s[1]]
    BY <1>1 DEF ServiceScopes, TeamInv, TokensHold
<1>3. ASSUME NEW i \in VisibleEvidence(t)
      PROVE  evidence[i].epoch = token[t].epoch[evidence[i].project]
  <2>1. /\ i \in DOMAIN evidence
        /\ <<evidence[i].project, evidence[i].environment, "evidence.read">> \in ServiceScopes(t)
      BY DEF VisibleEvidence
  <2>2. PICK s \in ServiceScopes(t) :
            s = <<evidence[i].project, evidence[i].environment, "evidence.read">>
      BY <2>1
  <2>3. s[1] = evidence[i].project
      BY <2>2
  <2>4. evidence[i].epoch = epoch[evidence[i].project]
      BY <2>1 DEF TeamInv, EvidenceHolds
  <2> QED BY <1>2, <2>2, <2>3, <2>4
<1> QED BY <1>2, <1>3

\* No token of a project's earlier registration, and none rotated from one, reads or
\* writes in a later one, for any number of registrations.
THEOREM RegistrationsAreSeparate == TeamSpec => []NoSecondLife
BY TeamInvariance, TeamInvSeparates, PTL

(***************************************************************************)
(* The agent inventory                                                     *)
(***************************************************************************)
\* A remediation that was proposed, with a place in the file.
IsRemediation(r) ==
    /\ r = [tenant |-> r.tenant, status |-> r.status, kind |-> r.kind, finding |-> r.finding,
            target |-> r.target, owner |-> r.owner, rights |-> r.rights, order |-> r.order]
    /\ r.status \in {"proposed", "applied", "rejected"} /\ r.order \in Nat

\* Remediations keep their form.
RemediationsKept ==
    /\ remediation = [m \in RemediationId |-> remediation[m]]
    /\ \A m \in RemediationId : remediation[m] = NoRemediation \/ IsRemediation(remediation[m])

\* A finding that is resolved names a remediation that was applied to it.
FindingsTell ==
    /\ findings = [t \in Tenant |-> findings[t]]
    /\ \A t \in Tenant : \A f \in findings[t] :
        f.status = "resolved" => f.by \in Applied(t, f)

\* The inductive invariant.
ResolutionInv == RemediationsKept /\ FindingsTell

\* The empty inventory satisfies the invariant.
LEMMA ResolutionInitInv == InventoryInit => ResolutionInv
BY DEF InventoryInit, ResolutionInv, RemediationsKept, FindingsTell

\* The first of some remediations in the file is one of them.
LEMMA FirstIsApplied ==
    ASSUME ResolutionInv, NEW S \in SUBSET RemediationId, S # {},
           \A m \in S : remediation[m].status # "none"
    PROVE  FirstOf(S) \in S
<1>1. \A m \in S : remediation[m].order \in Nat
    BY DEF ResolutionInv, RemediationsKept, NoRemediation, IsRemediation
<1>2. PICK orders : orders = {n \in Nat : \E m \in S : n = remediation[m].order}
    OBVIOUS
<1>3. orders \in SUBSET Nat /\ orders # {}
    BY <1>1, <1>2
<1>4. PICK n \in orders : \A k \in orders : n <= k
    BY <1>3, LeastNumber
<1>5. PICK m \in S : n = remediation[m].order
    BY <1>2, <1>4
<1>6. \A k \in S : remediation[m].order <= remediation[k].order
    BY <1>1, <1>2, <1>4, <1>5
<1>7. \E x \in S : \A k \in S : remediation[x].order <= remediation[k].order
    BY <1>6
<1> QED BY <1>7, Zenon DEF FirstOf

\* What an analysis leaves of a finding: it is open, or resolved by a remediation
\* that was applied and has its effect.
LEMMA ReassessedFinding ==
    ASSUME ResolutionInv, NEW t \in Tenant, NEW f, NEW g,
           g = Reassess(t, f, IF Applied(t, f) = {} THEN Absent ELSE FirstOf(Applied(t, f)))
    PROVE  g.status = "resolved" => g.by \in Applied(t, g) /\ Effective(t, g.by)
<1>1. CASE Applied(t, f) # {}
  <2>1. PICK m : m = FirstOf(Applied(t, f))
      OBVIOUS
  <2>2. m \in Applied(t, f)
    <3>1. PICK S : S = Applied(t, f)
        OBVIOUS
    <3>2. S \in SUBSET RemediationId /\ S # {} /\ \A k \in S : remediation[k].status # "none"
        BY <1>1, <3>1 DEF Applied
    <3> QED BY <2>1, <3>1, <3>2, FirstIsApplied
  <2>3. g = IF Effective(t, m) THEN Resolved(f, m) ELSE Open(f)
      BY <1>1, <2>1, Zenon DEF Reassess
  <2>4. CASE Effective(t, m)
    <3>1. g = Resolved(f, m)
        BY <2>3, <2>4
    <3>2. g.kind = f.kind /\ g.target = f.target /\ g.by = m
        BY <3>1 DEF Resolved
    <3>3. g.by \in Applied(t, g)
        BY <2>2, <3>2 DEF Applied
    <3> QED BY <2>4, <3>2, <3>3
  <2>5. CASE ~Effective(t, m)
    <3>1. g = Open(f)
        BY <2>3, <2>5
    <3> QED BY <3>1 DEF Open
  <2> QED BY <2>4, <2>5
<1>2. CASE Applied(t, f) = {}
  <2>1. PICK prior : prior = {h \in findings[t] : h.kind = f.kind /\ h.target = f.target}
      OBVIOUS
  <2>2. ASSUME NEW h \in prior PROVE h.status # "resolved"
    <3>1. h \in findings[t] /\ h.kind = f.kind /\ h.target = f.target
        BY <2>1
    <3>2. Applied(t, h) = Applied(t, f)
        BY <3>1 DEF Applied
    <3> QED BY <1>2, <3>1, <3>2 DEF ResolutionInv, FindingsTell
  <2>3. g = IF \E h \in prior : h.status = "resolved"
            THEN CHOOSE h \in prior : h.status = "resolved" ELSE Open(f)
      BY <1>2, <2>1, Zenon DEF Reassess
  <2>4. g = Open(f)
      BY <2>2, <2>3, Zenon
  <2> QED BY <2>4 DEF Open
<1> QED BY <1>1, <1>2

\* What an analysis writes.
LEMMA AnalyzeShows ==
    ASSUME ResolutionInv, NEW t \in Tenant, NEW at, Analyze(t, at)
    PROVE  /\ remediation' = remediation /\ findings' = [u \in Tenant |-> findings'[u]]
           /\ \A u \in Tenant : u # t => findings'[u] = findings[u]
           /\ \A g \in findings'[t] :
                g.status = "resolved" => g.by \in Applied(t, g) /\ Effective(t, g.by)
<1>1. PICK new : new = {Reassess(t, f, IF Applied(t, f) = {} THEN Absent ELSE FirstOf(Applied(t, f))) :
                            f \in ComputeFindings(t, at)}
    OBVIOUS
<1>2. remediation' = remediation /\ findings' = [findings EXCEPT ![t] = new]
    BY <1>1, Zenon DEF Analyze
<1>3. /\ findings' = [u \in Tenant |-> findings'[u]] /\ findings'[t] = new
      /\ \A u \in Tenant : u # t => findings'[u] = findings[u]
    BY <1>2 DEF ResolutionInv, FindingsTell
<1>4. ASSUME NEW g \in new
      PROVE  g.status = "resolved" => g.by \in Applied(t, g) /\ Effective(t, g.by)
  <2>1. PICK f \in ComputeFindings(t, at) :
            g = Reassess(t, f, IF Applied(t, f) = {} THEN Absent ELSE FirstOf(Applied(t, f)))
      BY <1>1, Zenon
  <2> QED BY <2>1, ReassessedFinding
<1> QED BY <1>2, <1>3, <1>4

\* Every step of the inventory preserves the invariant.
LEMMA ResolutionStepInv == ResolutionInv /\ [InventoryNext]_inventoryVars => ResolutionInv'
<1> SUFFICES ASSUME ResolutionInv, [InventoryNext]_inventoryVars PROVE ResolutionInv'
    OBVIOUS
<1>s. ASSUME UNCHANGED <<findings, remediation>> PROVE ResolutionInv'
    BY <1>s DEF ResolutionInv, RemediationsKept, FindingsTell, Applied
<1>1. CASE UNCHANGED inventoryVars
    BY <1>1, <1>s DEF inventoryVars
<1>2. CASE InventoryTick
    BY <1>2, <1>s DEF InventoryTick
<1>3. ASSUME NEW t \in Tenant, NEW at \in Called, NEW p \in Payloads, Import(t, p, at)
      PROVE  ResolutionInv'
  <2>1. UNCHANGED <<findings, remediation>>
      BY <1>3, Zenon DEF Import
  <2> QED BY <2>1, <1>s
<1>4. ASSUME NEW t \in Tenant, NEW at \in Called, Analyze(t, at) PROVE ResolutionInv'
  <2>1. /\ remediation' = remediation /\ findings' = [u \in Tenant |-> findings'[u]]
        /\ \A u \in Tenant : u # t => findings'[u] = findings[u]
        /\ \A g \in findings'[t] : g.status = "resolved" => g.by \in Applied(t, g)
      BY <1>4, AnalyzeShows
  <2> QED BY <2>1 DEF ResolutionInv, RemediationsKept, FindingsTell, Applied
<1>5. ASSUME NEW t \in Tenant, NEW m \in RemediationId, NEW f \in findings[t], NEW says \in Proposals,
             ProposeRemediation(t, m, f, says)
      PROVE  ResolutionInv'
  <2>1. PICK n : n = [tenant |-> t, status |-> "proposed", kind |-> says.kind, finding |-> f.kind,
                      target |-> f.target, owner |-> says.owner, rights |-> says.rights, order |-> Order]
      OBVIOUS
  <2>2. /\ remediation[m].status = "none" /\ remediation' = [remediation EXCEPT ![m] = n]
        /\ findings' = findings
      BY <1>5, <2>1 DEF ProposeRemediation
  <2>3. Order \in Nat
    <3>1. PICK S : S = {k \in RemediationId : remediation[k].status # "none"}
        OBVIOUS
    <3>2. IsFiniteSet(S)
        BY <3>1, InventoryAssumption, FS_Subset
    <3> QED BY <3>1, <3>2, FS_CardinalityType DEF Order
  <2>4. IsRemediation(n)
      BY <2>1, <2>3 DEF IsRemediation
  <2>5. RemediationsKept'
      BY <2>2, <2>4 DEF ResolutionInv, RemediationsKept
  <2>6. \A k \in RemediationId : remediation[k].status = "applied" => remediation'[k] = remediation[k]
      BY <2>2 DEF ResolutionInv, RemediationsKept
  <2>7. FindingsTell'
      BY <2>2, <2>6 DEF ResolutionInv, FindingsTell, Applied
  <2> QED BY <2>5, <2>7 DEF ResolutionInv
<1>6. ASSUME NEW t \in Tenant, NEW m \in RemediationId, RejectRemediation(t, m) PROVE ResolutionInv'
  <2>1. PICK n : n = [remediation[m] EXCEPT !.status = "rejected"]
      OBVIOUS
  <2>2. /\ remediation[m].status \in {"proposed", "rejected"}
        /\ remediation' = [remediation EXCEPT ![m] = n] /\ findings' = findings
      BY <1>6, <2>1 DEF RejectRemediation
  <2>3. IsRemediation(remediation[m])
      BY <2>2 DEF ResolutionInv, RemediationsKept, NoRemediation
  <2>4. IsRemediation(n)
      BY <2>1, <2>3 DEF IsRemediation
  <2>5. RemediationsKept'
      BY <2>2, <2>4 DEF ResolutionInv, RemediationsKept
  <2>6. \A k \in RemediationId : remediation[k].status = "applied" => remediation'[k] = remediation[k]
      BY <2>2 DEF ResolutionInv, RemediationsKept
  <2>7. FindingsTell'
      BY <2>2, <2>6 DEF ResolutionInv, FindingsTell, Applied
  <2> QED BY <2>5, <2>7 DEF ResolutionInv
<1>7. ASSUME NEW t \in Tenant, NEW m \in RemediationId, ApplyRemediation(t, m) PROVE ResolutionInv'
  <2>1. PICK r, n : r = remediation[m] /\ n = [r EXCEPT !.status = "applied"]
      OBVIOUS
  <2>2. PICK new : new = {IF f.kind = r.finding /\ f.target = r.target THEN Resolved(f, m) ELSE f :
                            f \in findings[t]}
      OBVIOUS
  <2>3. /\ r.status = "proposed" /\ r.tenant = t /\ remediation' = [remediation EXCEPT ![m] = n]
        /\ findings' = [findings EXCEPT ![t] = new]
      BY <1>7, <2>1, <2>2, Zenon DEF ApplyRemediation
  <2>4. IsRemediation(r)
      BY <2>1, <2>3 DEF ResolutionInv, RemediationsKept, NoRemediation
  <2>5. /\ IsRemediation(n) /\ n.status = "applied" /\ n.tenant = t
        /\ n.finding = r.finding /\ n.target = r.target
      BY <2>1, <2>3, <2>4 DEF IsRemediation
  <2>6. RemediationsKept' /\ remediation'[m] = n
      BY <2>3, <2>5 DEF ResolutionInv, RemediationsKept
  <2>7. \A k \in RemediationId : remediation[k].status = "applied" => remediation'[k] = remediation[k]
      BY <2>1, <2>3 DEF ResolutionInv, RemediationsKept
  <2>8. /\ findings' = [u \in Tenant |-> findings'[u]] /\ findings'[t] = new
        /\ \A u \in Tenant : u # t => findings'[u] = findings[u]
      BY <2>3 DEF ResolutionInv, FindingsTell
  <2>9. ASSUME NEW g \in new, g.status = "resolved" PROVE g.by \in Applied(t, g)'
    <3>1. PICK f \in findings[t] :
            g = IF f.kind = r.finding /\ f.target = r.target THEN Resolved(f, m) ELSE f
        BY <2>2, Zenon
    <3>2. CASE f.kind = r.finding /\ f.target = r.target
      <4>1. g.kind = f.kind /\ g.target = f.target /\ g.by = m
          BY <3>1, <3>2 DEF Resolved
      <4> QED BY <2>5, <2>6, <3>2, <4>1 DEF Applied
    <3>3. CASE ~(f.kind = r.finding /\ f.target = r.target)
      <4>1. g \in findings[t]
          BY <3>1, <3>3
      <4>2. g.by \in Applied(t, g)
          BY <2>9, <4>1 DEF ResolutionInv, FindingsTell
      <4> QED BY <2>7, <4>2 DEF Applied
    <3> QED BY <3>2, <3>3
  <2>10. ASSUME NEW u \in Tenant, u # t, NEW g \in findings'[u], g.status = "resolved"
         PROVE  g.by \in Applied(u, g)'
    <3>1. g.by \in Applied(u, g)
        BY <2>8, <2>10 DEF ResolutionInv, FindingsTell
    <3> QED BY <2>7, <3>1 DEF Applied
  <2>11. FindingsTell'
      BY <2>8, <2>9, <2>10 DEF FindingsTell
  <2> QED BY <2>6, <2>11 DEF ResolutionInv
<1> QED BY <1>1, <1>2, <1>3, <1>4, <1>5, <1>6, <1>7 DEF InventoryNext, InventoryStep

\* A finding that is resolved was resolved by a remediation that was applied to it.
THEOREM ResolutionInvariance == InventorySpec => []ResolutionInv
BY ResolutionInitInv, ResolutionStepInv, PTL DEF InventorySpec

\* What a step that rewrites the findings and no remediation shows.
LEMMA ResolutionStep ==
    ASSUME ResolutionInv, InventoryNext, NEW t \in Tenant, findings'[t] # findings[t],
           remediation' = remediation, NEW f \in findings'[t], f.status = "resolved"
    PROVE  f.by \in Applied(t, f) /\ Effective(t, f.by)
<1>1. PICK u \in Tenant : InventoryStep(u)
    BY DEF InventoryNext, InventoryTick
<1>2. CASE \E at \in Called : Analyze(u, at)
  <2>1. PICK at : Analyze(u, at)
      BY <1>2
  <2>2. u = t
      BY <2>1, AnalyzeShows
  <2> QED BY <2>1, <2>2, AnalyzeShows
<1>3. CASE \E at \in Called, p \in Payloads : Import(u, p, at)
  <2>1. findings' = findings
      BY <1>3, Zenon DEF Import
  <2> QED BY <2>1
<1>4. CASE \E m \in RemediationId : ApplyRemediation(u, m)
  <2>1. PICK m \in RemediationId : ApplyRemediation(u, m)
      BY <1>4
  <2>2. PICK r, n : r = remediation[m] /\ n = [r EXCEPT !.status = "applied"]
      OBVIOUS
  <2>3. r.status = "proposed" /\ remediation' = [remediation EXCEPT ![m] = n]
      BY <2>1, <2>2, Zenon DEF ApplyRemediation
  <2>4. IsRemediation(r)
      BY <2>2, <2>3 DEF ResolutionInv, RemediationsKept, NoRemediation
  <2>5. n.status = "applied"
      BY <2>2, <2>4 DEF IsRemediation
  <2>6. remediation'[m] = n
      BY <2>3 DEF ResolutionInv, RemediationsKept
  <2> QED BY <2>2, <2>3, <2>5, <2>6
<1>5. CASE \/ \E m \in RemediationId : RejectRemediation(u, m)
           \/ \E m \in RemediationId, x \in findings[u], says \in Proposals : ProposeRemediation(u, m, x, says)
  <2>1. findings' = findings
      BY <1>5 DEF RejectRemediation, ProposeRemediation
  <2> QED BY <2>1
<1> QED BY <1>1, <1>2, <1>3, <1>4, <1>5 DEF InventoryStep

\* An analysis never shows as resolved what an import has undone, for any tenants,
\* payloads, remediations and delays.
THEOREM AnalysisNotices == InventorySpec => ResolvedIsEffective
<1>1. ResolutionInv /\ [InventoryNext]_inventoryVars =>
        [\A t \in Tenant : findings'[t] # findings[t] /\ remediation' = remediation =>
            \A f \in findings'[t] : f.status = "resolved" => f.by \in Applied(t, f) /\ Effective(t, f.by)
        ]_inventoryVars
    BY ResolutionStep
<1> QED BY <1>1, ResolutionInvariance, PTL DEF InventorySpec, ResolvedIsEffective

\* The inventory of a tenant, as the file keeps it.
IsInventory(i) ==
    i = [agents |-> i.agents, identities |-> i.identities, tools |-> i.tools,
         providers |-> i.providers, resources |-> i.resources, sideEffects |-> i.sideEffects,
         credentials |-> i.credentials, policies |-> i.policies]

\* What a remediation is to change fits the records.
Fits(r) == r = NoRemediation \/ (r.owner \in OwnerRef /\ r.rights \subseteq Right)

\* The inductive invariant of the records.
InventoryInv ==
    /\ inventory = [t \in Tenant |-> inventory[t]]
    /\ \A t \in Tenant : IsInventory(inventory[t])
    /\ InventoryTypeOK
    /\ \A m \in RemediationId : Fits(remediation[m])

\* A record that replaces another, or is added, leaves a collection.
LEMMA MergedCollection ==
    ASSUME NEW ids, NEW records, NEW f, NEW g,
           IsCollection(f, ids, records), IsCollection(g, ids, records)
    PROVE  IsCollection(Merge(f, g), ids, records)
BY DEF IsCollection, Merge

\* A record that is changed leaves a collection of the same identifiers.
LEMMA ChangedCollection ==
    ASSUME NEW ids, NEW records, NEW f, IsCollection(f, ids, records), NEW x \in DOMAIN f,
           NEW y \in records
    PROVE  /\ IsCollection([f EXCEPT ![x] = y], ids, records)
           /\ DOMAIN [f EXCEPT ![x] = y] = DOMAIN f
BY DEF IsCollection

\* An import leaves valid records.
LEMMA MergedInventory ==
    ASSUME NEW i, NEW new, ValidInventory(i), ValidInventory(new)
    PROVE  ValidInventory(Merged(i, new)) /\ IsInventory(Merged(i, new))
<1>1. PICK j : j = Merged(i, new)
    OBVIOUS
<1>2. /\ j.agents = Merge(i.agents, new.agents) /\ j.identities = Merge(i.identities, new.identities)
      /\ j.tools = Merge(i.tools, new.tools) /\ j.providers = Merge(i.providers, new.providers)
      /\ j.resources = Merge(i.resources, new.resources)
      /\ j.sideEffects = Merge(i.sideEffects, new.sideEffects)
      /\ j.credentials = Merge(i.credentials, new.credentials)
      /\ j.policies = Merge(i.policies, new.policies)
    BY <1>1 DEF Merged
<1>3. IsInventory(j)
    BY <1>1 DEF Merged, IsInventory
<1>4. ValidInventory(j)
    BY <1>2, MergedCollection DEF ValidInventory, ValidAgents, ValidIdentities, ValidTools,
       ValidProviders, ValidResources, ValidSideEffects, ValidCredentials, ValidPolicyHashes
<1> QED BY <1>1, <1>3, <1>4

\* Records that are valid and whose references resolve.
GoodInventory(i) == IsInventory(i) /\ ValidInventory(i) /\ CrossReferencesHold(i)

\* Agents may change as long as they keep their identities.
LEMMA OtherAgents ==
    ASSUME NEW i, GoodInventory(i), NEW g, ValidAgents(g), DOMAIN g = DOMAIN i.agents,
           \A x \in DOMAIN g : g[x].identities = i.agents[x].identities
    PROVE  GoodInventory([i EXCEPT !.agents = g])
<1>1. PICK j : j = [i EXCEPT !.agents = g]
    OBVIOUS
<1>2. /\ j.agents = g /\ j.identities = i.identities /\ j.tools = i.tools
      /\ j.providers = i.providers /\ j.resources = i.resources
      /\ j.sideEffects = i.sideEffects /\ j.credentials = i.credentials
      /\ j.policies = i.policies /\ IsInventory(j)
    BY <1>1 DEF GoodInventory, IsInventory
<1>3. ValidInventory(j)
    BY <1>2, Zenon DEF GoodInventory, ValidInventory
<1>4. CrossReferencesHold(j)
    BY <1>2 DEF GoodInventory, CrossReferencesHold
<1> QED BY <1>1, <1>2, <1>3, <1>4, Zenon DEF GoodInventory

\* Providers may change as long as they keep their resources.
LEMMA OtherProviders ==
    ASSUME NEW i, GoodInventory(i), NEW g, ValidProviders(g), DOMAIN g = DOMAIN i.providers,
           \A x \in DOMAIN g : g[x].resources = i.providers[x].resources
    PROVE  GoodInventory([i EXCEPT !.providers = g])
<1>1. PICK j : j = [i EXCEPT !.providers = g]
    OBVIOUS
<1>2. /\ j.agents = i.agents /\ j.identities = i.identities /\ j.tools = i.tools
      /\ j.providers = g /\ j.resources = i.resources
      /\ j.sideEffects = i.sideEffects /\ j.credentials = i.credentials
      /\ j.policies = i.policies /\ IsInventory(j)
    BY <1>1 DEF GoodInventory, IsInventory
<1>3. ValidInventory(j)
    BY <1>2, Zenon DEF GoodInventory, ValidInventory
<1>4. CrossReferencesHold(j)
    BY <1>2 DEF GoodInventory, CrossReferencesHold
<1> QED BY <1>1, <1>2, <1>3, <1>4, Zenon DEF GoodInventory

\* Resources may change as long as they keep their side effects.
LEMMA OtherResources ==
    ASSUME NEW i, GoodInventory(i), NEW g, ValidResources(g), DOMAIN g = DOMAIN i.resources,
           \A x \in DOMAIN g : g[x].sideEffects = i.resources[x].sideEffects
    PROVE  GoodInventory([i EXCEPT !.resources = g])
<1>1. PICK j : j = [i EXCEPT !.resources = g]
    OBVIOUS
<1>2. /\ j.agents = i.agents /\ j.identities = i.identities /\ j.tools = i.tools
      /\ j.providers = i.providers /\ j.resources = g
      /\ j.sideEffects = i.sideEffects /\ j.credentials = i.credentials
      /\ j.policies = i.policies /\ IsInventory(j)
    BY <1>1 DEF GoodInventory, IsInventory
<1>3. ValidInventory(j)
    BY <1>2, Zenon DEF GoodInventory, ValidInventory
<1>4. CrossReferencesHold(j)
    BY <1>2 DEF GoodInventory, CrossReferencesHold
<1> QED BY <1>1, <1>2, <1>3, <1>4, Zenon DEF GoodInventory

\* Credentials may change as long as they keep their provider and tools.
LEMMA OtherCredentials ==
    ASSUME NEW i, GoodInventory(i), NEW g, ValidCredentials(g), DOMAIN g = DOMAIN i.credentials,
           \A x \in DOMAIN g : /\ g[x].provider = i.credentials[x].provider
                               /\ g[x].tools = i.credentials[x].tools
    PROVE  GoodInventory([i EXCEPT !.credentials = g])
<1>1. PICK j : j = [i EXCEPT !.credentials = g]
    OBVIOUS
<1>2. /\ j.agents = i.agents /\ j.identities = i.identities /\ j.tools = i.tools
      /\ j.providers = i.providers /\ j.resources = i.resources
      /\ j.sideEffects = i.sideEffects /\ j.credentials = g
      /\ j.policies = i.policies /\ IsInventory(j)
    BY <1>1 DEF GoodInventory, IsInventory
<1>3. ValidInventory(j)
    BY <1>2, Zenon DEF GoodInventory, ValidInventory
<1>4. CrossReferencesHold(j)
    BY <1>2 DEF GoodInventory, CrossReferencesHold
<1> QED BY <1>1, <1>2, <1>3, <1>4, Zenon DEF GoodInventory

\* A new owner for an agent, and an agent that is put behind the gateway.
LEMMA AgentChanges ==
    ASSUME NEW i, GoodInventory(i), NEW x \in DOMAIN i.agents, NEW o \in OwnerRef,
           NEW y, y = [i.agents[x] EXCEPT !.owner = o] \/ y = [i.agents[x] EXCEPT !.managed = TRUE]
    PROVE  GoodInventory([i EXCEPT !.agents = [i.agents EXCEPT ![x] = y]])
<1>1. PICK f, g : f = i.agents /\ g = [f EXCEPT ![x] = y]
    OBVIOUS
<1>2. IsCollection(f, AgentId, AgentRecord) /\ f[x] \in AgentRecord
    BY <1>1 DEF GoodInventory, ValidInventory, ValidAgents, IsCollection
<1>3. y \in AgentRecord /\ y.identities = f[x].identities
    BY <1>1, <1>2 DEF AgentRecord
<1>4. IsCollection(g, AgentId, AgentRecord) /\ DOMAIN g = DOMAIN f
    BY <1>1, <1>2, <1>3, ChangedCollection
<1>5. \A z \in DOMAIN g : g[z].identities = f[z].identities
    BY <1>1, <1>3
<1> QED BY <1>1, <1>4, <1>5, OtherAgents DEF ValidAgents

\* A new owner for a provider.
LEMMA ProviderChanges ==
    ASSUME NEW i, GoodInventory(i), NEW x \in DOMAIN i.providers, NEW o \in OwnerRef,
           NEW y, y = [i.providers[x] EXCEPT !.owner = o]
    PROVE  GoodInventory([i EXCEPT !.providers = [i.providers EXCEPT ![x] = y]])
<1>1. PICK f, g : f = i.providers /\ g = [f EXCEPT ![x] = y]
    OBVIOUS
<1>2. IsCollection(f, ProviderId, ProviderRecord) /\ f[x] \in ProviderRecord
    BY <1>1 DEF GoodInventory, ValidInventory, ValidProviders, IsCollection
<1>3. y \in ProviderRecord /\ y.resources = f[x].resources
    BY <1>1, <1>2 DEF ProviderRecord
<1>4. IsCollection(g, ProviderId, ProviderRecord) /\ DOMAIN g = DOMAIN f
    BY <1>1, <1>2, <1>3, ChangedCollection
<1>5. \A z \in DOMAIN g : g[z].resources = f[z].resources
    BY <1>1, <1>3
<1> QED BY <1>1, <1>4, <1>5, OtherProviders DEF ValidProviders

\* A new owner for a resource.
LEMMA ResourceChanges ==
    ASSUME NEW i, GoodInventory(i), NEW x \in DOMAIN i.resources, NEW o \in OwnerRef,
           NEW y, y = [i.resources[x] EXCEPT !.owner = o]
    PROVE  GoodInventory([i EXCEPT !.resources = [i.resources EXCEPT ![x] = y]])
<1>1. PICK f, g : f = i.resources /\ g = [f EXCEPT ![x] = y]
    OBVIOUS
<1>2. IsCollection(f, ResourceId, ResourceRecord) /\ f[x] \in ResourceRecord
    BY <1>1 DEF GoodInventory, ValidInventory, ValidResources, IsCollection
<1>3. y \in ResourceRecord /\ y.sideEffects = f[x].sideEffects
    BY <1>1, <1>2 DEF ResourceRecord
<1>4. IsCollection(g, ResourceId, ResourceRecord) /\ DOMAIN g = DOMAIN f
    BY <1>1, <1>2, <1>3, ChangedCollection
<1>5. \A z \in DOMAIN g : g[z].sideEffects = f[z].sideEffects
    BY <1>1, <1>3
<1> QED BY <1>1, <1>4, <1>5, OtherResources DEF ValidResources

\* A credential that gets another owner, keeps fewer rights or is revoked.
LEMMA CredentialChanges ==
    ASSUME NEW i, GoodInventory(i), NEW x \in DOMAIN i.credentials, NEW o \in OwnerRef,
           NEW rights \in SUBSET Right, NEW y,
           \/ y = [i.credentials[x] EXCEPT !.owner = o]
           \/ y = [i.credentials[x] EXCEPT !.rights = rights]
           \/ y = [i.credentials[x] EXCEPT !.status = "revoked"]
    PROVE  GoodInventory([i EXCEPT !.credentials = [i.credentials EXCEPT ![x] = y]])
<1>1. PICK f, g : f = i.credentials /\ g = [f EXCEPT ![x] = y]
    OBVIOUS
<1>2. IsCollection(f, CredentialId, CredentialRecord) /\ f[x] \in CredentialRecord
    BY <1>1 DEF GoodInventory, ValidInventory, ValidCredentials, IsCollection
<1>3. y \in CredentialRecord /\ y.provider = f[x].provider /\ y.tools = f[x].tools
    BY <1>1, <1>2 DEF CredentialRecord
<1>4. IsCollection(g, CredentialId, CredentialRecord) /\ DOMAIN g = DOMAIN f
    BY <1>1, <1>2, <1>3, ChangedCollection
<1>5. \A z \in DOMAIN g : g[z].provider = f[z].provider /\ g[z].tools = f[z].tools
    BY <1>1, <1>3
<1> QED BY <1>1, <1>4, <1>5, OtherCredentials DEF ValidCredentials

\* What a remediation does to the records leaves them valid.
LEMMA EffectIsGood ==
    ASSUME NEW i, GoodInventory(i), NEW r, Supports(i, r), r.owner \in OwnerRef,
           r.rights \subseteq Right
    PROVE  GoodInventory(EffectOn(i, r))
<1>1. PICK x : x = r.target
    OBVIOUS
<1>2. PICK j : j = EffectOn(i, r)
    OBVIOUS
<1>d. /\ DOMAIN i.agents \subseteq AgentId /\ DOMAIN i.providers \subseteq ProviderId
      /\ DOMAIN i.resources \subseteq ResourceId /\ DOMAIN i.credentials \subseteq CredentialId
    BY DEF GoodInventory, ValidInventory, ValidAgents, ValidProviders, ValidResources,
       ValidCredentials, IsCollection
<1>3. CASE r.kind = "assign_owner" /\ x \in DOMAIN i.agents
  <2>a. PICK y : y = [i.agents[x] EXCEPT !.owner = r.owner]
      OBVIOUS
  <2>b. j = [i EXCEPT !.agents = [i.agents EXCEPT ![x] = y]]
      BY <1>1, <1>2, <1>3, <2>a, <1>d, IdentifierAssumption DEF EffectOn
  <2>c. GoodInventory([i EXCEPT !.agents = [i.agents EXCEPT ![x] = y]])
      BY <1>3, AgentChanges, <2>a
  <2> QED BY <1>2, <2>b, <2>c
<1>4. CASE r.kind = "assign_owner" /\ x \notin DOMAIN i.agents /\ x \in DOMAIN i.providers
  <2>a. PICK y : y = [i.providers[x] EXCEPT !.owner = r.owner]
      OBVIOUS
  <2>b. j = [i EXCEPT !.providers = [i.providers EXCEPT ![x] = y]]
      BY <1>1, <1>2, <1>4, <2>a, <1>d, IdentifierAssumption DEF EffectOn
  <2>c. GoodInventory([i EXCEPT !.providers = [i.providers EXCEPT ![x] = y]])
      BY <1>4, ProviderChanges, <2>a
  <2> QED BY <1>2, <2>b, <2>c
<1>5. CASE r.kind = "assign_owner" /\ x \notin DOMAIN i.agents \cup DOMAIN i.providers
            /\ x \in DOMAIN i.resources
  <2>a. PICK y : y = [i.resources[x] EXCEPT !.owner = r.owner]
      OBVIOUS
  <2>b. j = [i EXCEPT !.resources = [i.resources EXCEPT ![x] = y]]
      BY <1>1, <1>2, <1>5, <2>a, <1>d, IdentifierAssumption DEF EffectOn
  <2>c. GoodInventory([i EXCEPT !.resources = [i.resources EXCEPT ![x] = y]])
      BY <1>5, ResourceChanges, <2>a
  <2> QED BY <1>2, <2>b, <2>c
<1>6. CASE r.kind = "assign_owner" /\ x \notin DOMAIN i.agents \cup DOMAIN i.providers \cup DOMAIN i.resources
  <2>1. x \in DOMAIN i.credentials
      BY <1>1, <1>6 DEF Supports
  <2>a. PICK y : y = [i.credentials[x] EXCEPT !.owner = r.owner]
      OBVIOUS
  <2>b. j = [i EXCEPT !.credentials = [i.credentials EXCEPT ![x] = y]]
      BY <1>1, <1>2, <1>6, <2>1, <2>a, <1>d, IdentifierAssumption DEF EffectOn
  <2>c. GoodInventory([i EXCEPT !.credentials = [i.credentials EXCEPT ![x] = y]])
      BY <2>1, CredentialChanges, <2>a
  <2> QED BY <1>2, <2>b, <2>c
<1>7. CASE r.kind = "reduce_scope"
  <2>1. x \in DOMAIN i.credentials
      BY <1>1, <1>7 DEF Supports, Reduces
  <2>a. PICK y : y = [i.credentials[x] EXCEPT !.rights = r.rights]
      OBVIOUS
  <2>b. j = [i EXCEPT !.credentials = [i.credentials EXCEPT ![x] = y]]
      BY <1>1, <1>2, <1>7, <2>a, <1>d, IdentifierAssumption DEF EffectOn
  <2>c. GoodInventory([i EXCEPT !.credentials = [i.credentials EXCEPT ![x] = y]])
      BY <2>1, CredentialChanges, <2>a
  <2> QED BY <1>2, <2>b, <2>c
<1>8. CASE r.kind = "revoke"
  <2>1. x \in DOMAIN i.credentials
      BY <1>1, <1>8 DEF Supports
  <2>a. PICK y : y = [i.credentials[x] EXCEPT !.status = "revoked"]
      OBVIOUS
  <2>b. j = [i EXCEPT !.credentials = [i.credentials EXCEPT ![x] = y]]
      BY <1>1, <1>2, <1>8, <2>a, <1>d, IdentifierAssumption DEF EffectOn
  <2>c. GoodInventory([i EXCEPT !.credentials = [i.credentials EXCEPT ![x] = y]])
      BY <2>1, CredentialChanges, <2>a
  <2> QED BY <1>2, <2>b, <2>c
<1>9. CASE r.kind = "onboard_through_gateway"
  <2>1. x \in DOMAIN i.agents
      BY <1>1, <1>9 DEF Supports
  <2>a. PICK y : y = [i.agents[x] EXCEPT !.managed = TRUE]
      OBVIOUS
  <2>b. j = [i EXCEPT !.agents = [i.agents EXCEPT ![x] = y]]
      BY <1>1, <1>2, <1>9, <2>a, <1>d, IdentifierAssumption DEF EffectOn
  <2>c. GoodInventory([i EXCEPT !.agents = [i.agents EXCEPT ![x] = y]])
      BY <2>1, AgentChanges, <2>a
  <2> QED BY <1>2, <2>b, <2>c
<1>10. CASE r.kind \notin {"assign_owner", "reduce_scope", "revoke", "onboard_through_gateway"}
  <2>1. j = i
      BY <1>1, <1>2, <1>10 DEF EffectOn
  <2> QED BY <1>2, <2>1
<1> QED BY <1>3, <1>4, <1>5, <1>6, <1>7, <1>8, <1>9, <1>10

\* The empty inventory is valid.
LEMMA InventoryInitially == InventoryInit => InventoryInv
<1> SUFFICES ASSUME InventoryInit PROVE InventoryInv
    OBVIOUS
<1>1. PICK i : i = EmptyInventory
    OBVIOUS
<1>2. /\ i.agents = None /\ i.identities = None /\ i.tools = None /\ i.providers = None
      /\ i.resources = None /\ i.sideEffects = None /\ i.credentials = None /\ i.policies = None
    BY <1>1 DEF EmptyInventory
<1>3. IsInventory(i)
    BY <1>1 DEF EmptyInventory, IsInventory
<1>4. DOMAIN None = {}
    BY DEF None
<1>5. ValidInventory(i)
    BY <1>2, <1>4 DEF ValidInventory, ValidAgents, ValidIdentities, ValidTools, ValidProviders,
       ValidResources, ValidSideEffects, ValidCredentials, ValidPolicyHashes, IsCollection
<1>6. CrossReferencesHold(i)
    BY <1>2, <1>4 DEF CrossReferencesHold
<1>7. /\ inventory = [t \in Tenant |-> inventory[t]]
      /\ \A t \in Tenant : inventory[t] = i
    BY <1>1 DEF InventoryInit
<1>8. Len(importRuns) <= MaxImports
    BY InventoryAssumption DEF InventoryInit
<1>9. \A m \in RemediationId : Fits(remediation[m])
    BY DEF InventoryInit, Fits
<1> QED BY <1>3, <1>5, <1>6, <1>7, <1>8, <1>9 DEF InventoryInv, InventoryTypeOK

\* The step of one tenant that leaves it a good inventory.
LEMMA GoodStep ==
    ASSUME InventoryInv, NEW t \in Tenant, NEW i, GoodInventory(i),
           inventory' = [inventory EXCEPT ![t] = i]
    PROVE  /\ inventory' = [u \in Tenant |-> inventory'[u]] /\ \A u \in Tenant : IsInventory(inventory'[u])
           /\ \A u \in Tenant : ValidInventory(inventory'[u]) /\ CrossReferencesHold(inventory'[u])
<1>1. /\ inventory' = [u \in Tenant |-> inventory'[u]] /\ inventory'[t] = i
      /\ \A u \in Tenant : u # t => inventory'[u] = inventory[u]
    BY DEF InventoryInv
<1>2. ASSUME NEW u \in Tenant
      PROVE  IsInventory(inventory'[u]) /\ ValidInventory(inventory'[u]) /\ CrossReferencesHold(inventory'[u])
  <2>1. CASE u = t
      BY <1>1, <2>1 DEF GoodInventory
  <2>2. CASE u # t
    <3>1. IsInventory(inventory[u]) /\ ValidInventory(inventory[u]) /\ CrossReferencesHold(inventory[u])
        BY DEF InventoryInv, InventoryTypeOK
    <3> QED BY <1>1, <2>2, <3>1
  <2> QED BY <2>1, <2>2
<1> QED BY <1>1, <1>2

\* An import merges valid records and is refused when a reference does not resolve.
LEMMA ImportStep ==
    ASSUME InventoryInv, NEW t \in Tenant, NEW at, NEW p \in Payloads, Import(t, p, at)
    PROVE  InventoryInv'
<1>1. PICK i : i = Merged(inventory[t], p.new)
    OBVIOUS
<1>2. /\ inventory' = [inventory EXCEPT ![t] = i] /\ CrossReferencesHold([inventory EXCEPT ![t] = i][t])
      /\ Len(importRuns') <= MaxImports /\ remediation' = remediation
    BY <1>1, Zenon DEF Import
<1>3. CrossReferencesHold(i)
    BY <1>2 DEF InventoryInv
<1>4. ValidInventory(inventory[t]) /\ ValidInventory(p.new)
    BY InventoryAssumption DEF InventoryInv, InventoryTypeOK, ValidPayload
<1>5. ValidInventory(i) /\ IsInventory(i)
    BY <1>1, <1>4, MergedInventory
<1>6. GoodInventory(i)
    BY <1>3, <1>5 DEF GoodInventory
<1>7. /\ inventory' = [u \in Tenant |-> inventory'[u]] /\ \A u \in Tenant : IsInventory(inventory'[u])
      /\ \A u \in Tenant : ValidInventory(inventory'[u]) /\ CrossReferencesHold(inventory'[u])
  <2>1. inventory' = [inventory EXCEPT ![t] = i]
      BY <1>2
  <2> QED BY <1>6, <2>1, GoodStep
<1>8. \A m \in RemediationId : Fits(remediation'[m])
    BY <1>2 DEF InventoryInv
<1> QED BY <1>2, <1>7, <1>8 DEF InventoryInv, InventoryTypeOK

\* A remediation changes what its kind names, in the record it supports.
LEMMA ApplyStep ==
    ASSUME ResolutionInv, InventoryInv, NEW t \in Tenant, NEW m \in RemediationId,
           ApplyRemediation(t, m)
    PROVE  InventoryInv'
<1>1. PICK r, i : r = remediation[m] /\ i = EffectOn(inventory[t], r)
    OBVIOUS
<1>2. PICK s : s = [r EXCEPT !.status = "applied"]
    OBVIOUS
<1>3. /\ r.status = "proposed" /\ Supports(inventory[t], r)
      /\ inventory' = [inventory EXCEPT ![t] = i]
      /\ remediation' = [remediation EXCEPT ![m] = s] /\ importRuns' = importRuns
    BY <1>1, <1>2, Zenon DEF ApplyRemediation
<1>4. r.owner \in OwnerRef /\ r.rights \subseteq Right /\ IsRemediation(r)
    BY <1>1, <1>3 DEF InventoryInv, Fits, NoRemediation, ResolutionInv, RemediationsKept
<1>5. GoodInventory(inventory[t])
    BY DEF InventoryInv, InventoryTypeOK, GoodInventory
<1>6. GoodInventory(i)
    BY <1>1, <1>3, <1>4, <1>5, EffectIsGood
<1>7. /\ inventory' = [u \in Tenant |-> inventory'[u]] /\ \A u \in Tenant : IsInventory(inventory'[u])
      /\ \A u \in Tenant : ValidInventory(inventory'[u]) /\ CrossReferencesHold(inventory'[u])
  <2>1. inventory' = [inventory EXCEPT ![t] = i]
      BY <1>3
  <2> QED BY <1>6, <2>1, GoodStep
<1>8. Fits(s)
    BY <1>2, <1>4 DEF Fits, IsRemediation
<1>9. \A k \in RemediationId : Fits(remediation'[k])
    BY <1>3, <1>8 DEF InventoryInv, ResolutionInv, RemediationsKept
<1> QED BY <1>3, <1>7, <1>9 DEF InventoryInv, InventoryTypeOK

\* Every step keeps the records valid.
LEMMA InventoryStepInv ==
    ResolutionInv /\ InventoryInv /\ [InventoryNext]_inventoryVars => InventoryInv'
<1> SUFFICES ASSUME ResolutionInv, InventoryInv, [InventoryNext]_inventoryVars PROVE InventoryInv'
    OBVIOUS
<1>0. ASSUME UNCHANGED <<inventory, importRuns>>, \A m \in RemediationId : Fits(remediation'[m])
      PROVE  InventoryInv'
    BY <1>0 DEF InventoryInv, InventoryTypeOK
<1>s. ASSUME UNCHANGED <<inventory, importRuns, remediation>> PROVE InventoryInv'
    BY <1>0, <1>s DEF InventoryInv
<1>1. CASE UNCHANGED inventoryVars
    BY <1>1, <1>s DEF inventoryVars
<1>2. CASE InventoryTick
    BY <1>2, <1>s DEF InventoryTick
<1>3. ASSUME NEW t \in Tenant, NEW at \in Called, NEW p \in Payloads, Import(t, p, at)
      PROVE  InventoryInv'
    BY <1>3, ImportStep
<1>4. ASSUME NEW t \in Tenant, NEW at \in Called, Analyze(t, at) PROVE InventoryInv'
  <2>1. UNCHANGED <<inventory, importRuns, remediation>>
      BY <1>4, Zenon DEF Analyze
  <2> QED BY <1>s, <2>1
<1>5. ASSUME NEW t \in Tenant, NEW m \in RemediationId, NEW f \in findings[t], NEW says \in Proposals,
             ProposeRemediation(t, m, f, says)
      PROVE  InventoryInv'
  <2>1. PICK r : r = [tenant |-> t, status |-> "proposed", kind |-> says.kind, finding |-> f.kind,
                      target |-> f.target, owner |-> says.owner, rights |-> says.rights, order |-> Order]
      OBVIOUS
  <2>2. remediation' = [remediation EXCEPT ![m] = r] /\ UNCHANGED <<inventory, importRuns>>
      BY <1>5, <2>1 DEF ProposeRemediation
  <2>3. says.owner \in OwnerRef /\ says.rights \subseteq Right
      BY InventoryAssumption DEF Proposals, OwnerRef
  <2>4. Fits(r)
      BY <2>1, <2>3 DEF Fits
  <2>5. \A k \in RemediationId : Fits(remediation'[k])
      BY <2>2, <2>4 DEF InventoryInv, ResolutionInv, RemediationsKept
  <2> QED BY <1>0, <2>2, <2>5
<1>6. ASSUME NEW t \in Tenant, NEW m \in RemediationId, RejectRemediation(t, m) PROVE InventoryInv'
  <2>1. PICK r, s : r = remediation[m] /\ s = [r EXCEPT !.status = "rejected"]
      OBVIOUS
  <2>2. /\ r.status \in {"proposed", "rejected"} /\ remediation' = [remediation EXCEPT ![m] = s]
        /\ UNCHANGED <<inventory, importRuns>>
      BY <1>6, <2>1 DEF RejectRemediation
  <2>3. r.owner \in OwnerRef /\ r.rights \subseteq Right /\ IsRemediation(r)
      BY <2>1, <2>2 DEF InventoryInv, Fits, NoRemediation, ResolutionInv, RemediationsKept
  <2>4. Fits(s)
      BY <2>1, <2>3 DEF Fits, IsRemediation
  <2>5. \A k \in RemediationId : Fits(remediation'[k])
      BY <2>2, <2>4 DEF InventoryInv, ResolutionInv, RemediationsKept
  <2> QED BY <1>0, <2>2, <2>5
<1>7. ASSUME NEW t \in Tenant, NEW m \in RemediationId, ApplyRemediation(t, m) PROVE InventoryInv'
    BY <1>7, ApplyStep
<1> QED BY <1>1, <1>2, <1>3, <1>4, <1>5, <1>6, <1>7 DEF InventoryNext, InventoryStep

\* The records of every tenant are of their kinds and refer to records that exist, whatever
\* is imported, remediated and imported again over a remediation.
THEOREM InventoryTypes == InventorySpec => []InventoryTypeOK
<1>1. InventoryInv => InventoryTypeOK
    BY DEF InventoryInv
<1> QED BY <1>1, ResolutionInvariance, InventoryInitially, InventoryStepInv, PTL DEF InventorySpec

(***************************************************************************)
(* The reports of the inventory                                            *)
(***************************************************************************)
\* Some tenant reported a link at the time that its edge tells, and the tenant that the
\* edge belongs to has reported it too, then or at another time.
WasReported(e, link, rep) ==
    /\ e = [tenant |-> e.tenant, lastSeenAt |-> e.lastSeenAt]
    /\ e.tenant \in Tenant /\ e.lastSeenAt \in Nat /\ rep[e.tenant][link] \in Nat
    /\ \E u \in Tenant : rep[u][link] = e.lastSeenAt

\* The edges are those of the tenants, and what an edge says of the last time is what an
\* import has reported.
EdgesAreReported ==
    /\ reported = [t \in Tenant |-> reported[t]]
    /\ edges = [link \in Link |-> edges[link]]
    /\ \A link \in Link : edges[link] = NoEdge \/ WasReported(edges[link], link, reported)

\* What upsertEdges() and pruneStaleEdges() leave of one edge.
LEMMA EdgeAfter ==
    ASSUME EdgesAreReported, NEW t \in Tenant, NEW at \in Nat, NEW new, NEW link \in Link,
           edges' = EdgesAfter(t, Links(new), at),
           reported' = [reported EXCEPT ![t] =
                [l \in Link |-> IF l \in Links(new) THEN at ELSE reported[t][l]]]
    PROVE  edges'[link] = NoEdge \/ WasReported(edges'[link], link, reported')
<1>1. PICK links : links = Links(new)
    OBVIOUS
<1>2. /\ reported'[t][link] = IF link \in links THEN at ELSE reported[t][link]
      /\ \A u \in Tenant : u # t => reported'[u] = reported[u]
    BY <1>1 DEF EdgesAreReported
<1>3. PICK e : e = IF link \notin links THEN edges[link]
                   ELSE IF edges[link] = NoEdge THEN [tenant |-> t, lastSeenAt |-> at]
                   ELSE [edges[link] EXCEPT !.lastSeenAt = at]
    OBVIOUS
<1>4. edges'[link] = IF e.tenant = t /\ Stale(e.lastSeenAt, EdgeStale, at) THEN NoEdge ELSE e
    BY <1>1, <1>3 DEF EdgesAfter
<1>5. CASE link \notin links
  <2>1. e = edges[link]
      BY <1>3, <1>5
  <2>2. \A u \in Tenant : reported'[u][link] = reported[u][link]
      BY <1>2, <1>5
  <2> QED BY <1>4, <2>1, <2>2 DEF EdgesAreReported, WasReported
<1>6. CASE link \in links /\ edges[link] = NoEdge
  <2>1. e = [tenant |-> t, lastSeenAt |-> at]
      BY <1>3, <1>6
  <2> QED BY <1>2, <1>4, <1>6, <2>1 DEF WasReported
<1>7. CASE link \in links /\ edges[link] # NoEdge
  <2>1. PICK u \in Tenant : /\ edges[link] = [tenant |-> u, lastSeenAt |-> edges[link].lastSeenAt]
                            /\ reported[u][link] \in Nat
      BY <1>7 DEF EdgesAreReported, WasReported
  <2>2. e = [tenant |-> u, lastSeenAt |-> at]
      BY <1>3, <1>7, <2>1
  <2>3. reported'[u][link] \in Nat /\ reported'[t][link] = at
      BY <1>2, <1>7, <2>1
  <2> QED BY <1>4, <2>2, <2>3 DEF WasReported
<1> QED BY <1>5, <1>6, <1>7

\* The edges start from nothing.
LEMMA EdgesInitially == InventoryInit => EdgesAreReported
BY DEF InventoryInit, EdgesAreReported

\* Every step of every tenant keeps the edges reported.
LEMMA EdgesStep ==
    ASSUME EdgesAreReported, InventoryNext \/ UNCHANGED inventoryVars
    PROVE  EdgesAreReported'
<1>s. ASSUME UNCHANGED <<edges, reported>> PROVE EdgesAreReported'
    BY <1>s DEF EdgesAreReported, WasReported
<1>1. CASE UNCHANGED inventoryVars
    BY <1>1, <1>s DEF inventoryVars
<1>2. CASE InventoryTick
    BY <1>2, <1>s DEF InventoryTick
<1>3. ASSUME NEW t \in Tenant, NEW at \in Called, NEW p \in Payloads, Import(t, p, at)
      PROVE  EdgesAreReported'
  <2>1. PICK new : new = p.new
      OBVIOUS
  <2>2. /\ edges' = EdgesAfter(t, Links(new), at)
        /\ reported' = [reported EXCEPT ![t] =
                [l \in Link |-> IF l \in Links(new) THEN at ELSE reported[t][l]]]
      BY <1>3, <2>1, Zenon DEF Import
  <2>3. at \in Nat
      BY ClockAssumption DEF Called, Instant
  <2>4. edges' = [link \in Link |-> edges'[link]]
      BY <2>2, Zenon DEF EdgesAfter
  <2>5. reported' = [u \in Tenant |-> reported'[u]]
    <3>1. PICK x : reported' = [reported EXCEPT ![t] = x]
        BY <2>2
    <3> QED BY <3>1 DEF EdgesAreReported
  <2>6. ASSUME NEW link \in Link
        PROVE  edges'[link] = NoEdge \/ WasReported(edges'[link], link, reported')
      BY <2>2, <2>3, EdgeAfter, Zenon
  <2> QED BY <2>4, <2>5, <2>6, Zenon DEF EdgesAreReported
<1>4. ASSUME NEW t \in Tenant, NEW at \in Called, Analyze(t, at) PROVE EdgesAreReported'
  <2>1. UNCHANGED <<edges, reported>>
      BY <1>4, Zenon DEF Analyze
  <2> QED BY <1>s, <2>1
<1>5. ASSUME NEW t \in Tenant, NEW m \in RemediationId,
             \/ ApplyRemediation(t, m) \/ RejectRemediation(t, m)
             \/ \E f \in findings[t], says \in Proposals : ProposeRemediation(t, m, f, says)
      PROVE  EdgesAreReported'
  <2>1. UNCHANGED <<edges, reported>>
      BY <1>5, Zenon DEF ApplyRemediation, RejectRemediation, ProposeRemediation
  <2> QED BY <1>s, <2>1
<1> QED BY <1>1, <1>2, <1>3, <1>4, <1>5 DEF InventoryNext, InventoryStep

\* A link of a path is one that an edge can join.
LEMMA PathLinks ==
    ASSUME InventoryInv, NEW t \in Tenant, NEW a \in AgentId, NEW path \in AttackPaths(t, a),
           NEW k \in 2 .. 5
    PROVE  <<path[k], path[k + 1]>> \in Link
<1>1. /\ path[2] \in DOMAIN inventory[t].identities /\ path[3] \in DOMAIN inventory[t].tools
      /\ path[4] \in DOMAIN inventory[t].providers /\ path[5] \in DOMAIN inventory[t].resources
      /\ path[6] \in DOMAIN inventory[t].sideEffects
    BY DEF AttackPaths
<1>2. ValidInventory(inventory[t])
    BY DEF InventoryInv, InventoryTypeOK
<1>3. /\ path[2] \in IdentityId /\ path[3] \in ToolId /\ path[4] \in ProviderId
      /\ path[5] \in ResourceId /\ path[6] \in SideEffectId
    BY <1>1, <1>2 DEF ValidInventory, ValidIdentities, ValidTools, ValidProviders, ValidResources,
       ValidSideEffects, IsCollection
<1>4. k = 2 \/ k = 3 \/ k = 4 \/ k = 5
    OBVIOUS
<1> QED BY <1>3, <1>4 DEF Link

\* Paths cite what was reported in time.
LEMMA CitationsHold ==
    ASSUME InventoryInv, EdgesAreReported
    PROVE  CitedEdgesWereSeen
<1> SUFFICES ASSUME NEW t \in Tenant, NEW a \in AgentId, NEW path \in AttackPaths(t, a),
                    NEW link \in CitedEdges(t, path, now)
             PROVE  /\ reported[t][link] # Never
                    /\ \E u \in Tenant :
                        reported[u][link] # Never /\ ~Stale(reported[u][link], EdgeStale, now)
    BY Zenon DEF CitedEdgesWereSeen
<1>1. PICK k \in 2 .. 5 : /\ link = <<path[k], path[k + 1]>>
                          /\ edges[<<path[k], path[k + 1]>>].tenant = t
                          /\ ~Stale(edges[<<path[k], path[k + 1]>>].lastSeenAt, EdgeStale, now)
    BY Zenon DEF CitedEdges
<1>2. link \in Link
    BY <1>1, PathLinks
<1>3. edges[link].tenant = t /\ ~Stale(edges[link].lastSeenAt, EdgeStale, now)
    BY <1>1
<1>4. edges[link] # NoEdge
    BY <1>3, IdentifierAssumption DEF NoEdge
<1>5. PICK u \in Tenant : /\ reported[u][link] = edges[link].lastSeenAt
                          /\ edges[link].lastSeenAt \in Nat /\ reported[t][link] \in Nat
    BY <1>2, <1>3, <1>4 DEF EdgesAreReported, WasReported
<1>6. reported[t][link] # Never /\ reported[u][link] # Never
    BY <1>5 DEF Never
<1> QED BY <1>3, <1>5, <1>6

\* The finding of one kind about one target.
Row(kind, x) == [kind |-> kind, target |-> x]

\* A row is in the findings of a kind about its targets.
LEMMA RowOf ==
    ASSUME NEW kind, NEW targets, NEW k, NEW x
    PROVE  Row(k, x) \in Finding(kind, targets) <=> k = kind /\ x \in targets
BY DEF Row, Finding

\* Findings are rows.
LEMMA RowsOnly ==
    ASSUME NEW kind, NEW targets, NEW f \in Finding(kind, targets)
    PROVE  f = Row(f.kind, f.target)
BY DEF Row, Finding

\* The findings F of kind k about ids are those about S.
About(F, k, ids) == {f \in F : f.kind = k /\ f.target \in ids}
Shows(F, k, ids, S) ==
    /\ \A f \in F : f = Row(f.kind, f.target)
    /\ S \subseteq ids /\ \A x \in ids : Row(k, x) \in F <=> x \in S

\* A count of findings is a count of their targets.
LEMMA Counted ==
    ASSUME NEW F, NEW k, NEW ids, NEW S, IsFiniteSet(S), Shows(F, k, ids, S)
    PROVE  IsFiniteSet(About(F, k, ids)) /\ Cardinality(About(F, k, ids)) = Cardinality(S)
<1> USE DEF Shows
<1>1. PICK G : G = About(F, k, ids) /\ G = {f \in F : f.kind = k /\ f.target \in ids}
    BY DEF About
<1>2. PICK row : row = [x \in S |-> Row(k, x)]
    OBVIOUS
<1>3. \A x \in S : row[x] = Row(k, x) /\ row[x] \in G /\ row[x].target = x
    BY <1>1, <1>2 DEF Row
<1>4. \A f \in G : \E x \in S : row[x] = f
  <2> SUFFICES ASSUME NEW f \in G PROVE \E x \in S : row[x] = f
      OBVIOUS
  <2>1. f = Row(k, f.target) /\ f.target \in ids
      BY <1>1
  <2>2. f.target \in S
      BY <1>1, <2>1
  <2> QED BY <1>3, <2>1, <2>2
<1>5. row \in Bijection(S, G)
  <2>1. row \in [S -> G]
      BY <1>2, <1>3
  <2>2. \A x, y \in S : row[x] = row[y] => x = y
      BY <1>3
  <2> QED BY <1>4, <2>1, <2>2 DEF Bijection, Injection, Surjection, IsInjective
<1>6. IsFiniteSet(G) /\ Cardinality(S) = Cardinality(G)
    BY <1>5, FS_Bijection, Zenon DEF ExistsBijection
<1> QED BY <1>1, <1>6

\* Two parts of a finite set that make it up have its size together.
LEMMA PartsMakeUp ==
    ASSUME NEW S, IsFiniteSet(S), NEW A, NEW B, S = A \cup B, A \cap B = {}
    PROVE  /\ Cardinality(A) + Cardinality(B) = Cardinality(S)
           /\ Cardinality(A) \in Nat /\ Cardinality(B) \in Nat /\ Cardinality(S) \in Nat
<1>1. IsFiniteSet(A) /\ IsFiniteSet(B)
    BY FS_Subset
<1>2. Cardinality(A \cap B) = 0
    BY FS_EmptySet
<1>3. Cardinality(A \cup B) = Cardinality(A) + Cardinality(B) - Cardinality(A \cap B)
    BY <1>1, FS_Union
<1>4. Cardinality(A) \in Nat /\ Cardinality(B) \in Nat
    BY <1>1, FS_CardinalityType
<1>5. Cardinality(S) = Cardinality(A) + Cardinality(B) - 0
    BY <1>2, <1>3, Zenon
<1> QED BY <1>4, <1>5

\* The targets that coverage counts, or that it leaves out.
Outside(i) == {a \in DOMAIN i.agents : ~i.agents[a].managed}
NoEvidence(i, at) == {a \in DOMAIN i.agents : EvidenceMissing(i.agents[a], at)}
NoSwitch(i) == {p \in InProduction(i.providers) : ~i.providers[p].killSwitch}
UnownedProviders(i) == {p \in InProduction(i.providers) : i.providers[p].owner = Unowned}
UnownedResources(i) == {r \in InProduction(i.resources) : i.resources[r].owner = Unowned}
Uncovered(i) ==
    {e \in UNION {i.agents[a].places : a \in DOMAIN i.agents} :
        {q \in DOMAIN i.policies : e \in i.policies[q].places} = {}}

\* The findings of an analysis, by their kinds.
FindingsByKind(found, i, at, A, B, C, D, E) ==
    /\ B \subseteq DOMAIN i.agents
    /\ found =
        (Finding("orphaned_agents", A) \cup Finding("agents_outside_gateway", Outside(i))
            \cup Finding("missing_evidence", NoEvidence(i, at)) \cup Finding("missing_kill_switch", B))
        \cup (Finding("unowned_production_integrations", UnownedProviders(i) \cup UnownedResources(i))
            \cup Finding("missing_kill_switch", NoSwitch(i)))
        \cup (Finding("stale_unused_credentials", C) \cup Finding("excessive_permissions", D))
        \cup Finding("policy_drift", Uncovered(i) \cup E)

\* An analysis finds these targets, and others under other kinds.
LEMMA WhatIsFound ==
    ASSUME NEW t, NEW at, NEW i, i = inventory[t]
    PROVE  \E A, B, C, D, E :
        FindingsByKind(ComputeFindings(t, at), i, at, A, B, C, D, E)
<1>1. PICK A, B : /\ B \subseteq DOMAIN i.agents
                  /\ AgentFindings(i, at) =
                        (Finding("orphaned_agents", A) \cup Finding("agents_outside_gateway", Outside(i))
                        \cup Finding("missing_evidence", NoEvidence(i, at)) \cup Finding("missing_kill_switch", B))
  <2>1. PICK owners : owners = {i.identities[d].principal : d \in DOMAIN i.identities}
      OBVIOUS
  <2>2. PICK A, B : /\ A = {a \in DOMAIN i.agents : i.agents[a].owner \notin owners}
                    /\ B = {a \in InProduction(i.agents) : ~i.agents[a].killSwitch}
      OBVIOUS
  <2>3. B \subseteq DOMAIN i.agents
      BY <2>2 DEF InProduction
  <2>4. AgentFindings(i, at) =
            (Finding("orphaned_agents", A) \cup Finding("agents_outside_gateway", Outside(i))
             \cup Finding("missing_evidence", NoEvidence(i, at)) \cup Finding("missing_kill_switch", B))
      BY <2>1, <2>2, Zenon DEF AgentFindings, Outside, NoEvidence
  <2> QED BY <2>3, <2>4
<1>2. IntegrationFindings(i) =
        (Finding("unowned_production_integrations", UnownedProviders(i) \cup UnownedResources(i))
                \cup Finding("missing_kill_switch", NoSwitch(i)))
    BY Zenon DEF IntegrationFindings, UnownedProviders, UnownedResources, NoSwitch
<1>3. PICK C, D : CredentialFindings(i, at) =
        (Finding("stale_unused_credentials", C) \cup Finding("excessive_permissions", D))
    BY Zenon DEF CredentialFindings
<1>4. PICK E : PolicyFindings(t, i) = Finding("policy_drift", Uncovered(i) \cup E)
    BY Zenon DEF PolicyFindings, Uncovered
<1>5. ComputeFindings(t, at) =
        AgentFindings(i, at) \cup IntegrationFindings(i) \cup CredentialFindings(i, at) \cup PolicyFindings(t, i)
    BY Zenon DEF ComputeFindings
<1>6. FindingsByKind(ComputeFindings(t, at), i, at, A, B, C, D, E)
    BY <1>1, <1>2, <1>3, <1>4, <1>5 DEF FindingsByKind
<1> QED BY <1>6, Zenon

\* Which rows an analysis shows.
LEMMA RowsFound ==
    ASSUME NEW t, NEW at, NEW i, i = inventory[t], ValidInventory(i)
    PROVE  /\ \A f \in ComputeFindings(t, at) : f = Row(f.kind, f.target)
           /\ \A x : Row("agents_outside_gateway", x) \in ComputeFindings(t, at) <=> x \in Outside(i)
           /\ \A x : Row("missing_evidence", x) \in ComputeFindings(t, at) <=> x \in NoEvidence(i, at)
           /\ \A x \in ProviderId :
                Row("missing_kill_switch", x) \in ComputeFindings(t, at) <=> x \in NoSwitch(i)
           /\ \A x : Row("unowned_production_integrations", x) \in ComputeFindings(t, at)
                        <=> x \in UnownedProviders(i) \cup UnownedResources(i)
           /\ \A x \in Uncovered(i) : Row("policy_drift", x) \in ComputeFindings(t, at)
<1>1. PICK A, B, C, D, E :
        FindingsByKind(ComputeFindings(t, at), i, at, A, B, C, D, E)
    BY WhatIsFound
<1>2. \A x \in B : x \notin ProviderId
    BY <1>1, IdentifierAssumption DEF FindingsByKind, ValidInventory, ValidAgents, IsCollection
<1>3. \A f \in ComputeFindings(t, at) : f = Row(f.kind, f.target)
    BY <1>1, RowsOnly, Zenon DEF FindingsByKind
<1>4. \A k, x : Row(k, x) \in ComputeFindings(t, at) <=>
        \/ k = "orphaned_agents" /\ x \in A
        \/ k = "agents_outside_gateway" /\ x \in Outside(i)
        \/ k = "missing_evidence" /\ x \in NoEvidence(i, at)
        \/ k = "missing_kill_switch" /\ x \in B
        \/ k = "unowned_production_integrations" /\ x \in UnownedProviders(i) \cup UnownedResources(i)
        \/ k = "missing_kill_switch" /\ x \in NoSwitch(i)
        \/ k = "stale_unused_credentials" /\ x \in C
        \/ k = "excessive_permissions" /\ x \in D
        \/ k = "policy_drift" /\ x \in Uncovered(i) \cup E
    BY <1>1, RowOf DEF FindingsByKind
<1> QED BY <1>2, <1>3, <1>4

\* The collections of an inventory are finite.
LEMMA FiniteCollections ==
    ASSUME NEW i, ValidInventory(i)
    PROVE  /\ IsFiniteSet(DOMAIN i.agents) /\ IsFiniteSet(DOMAIN i.providers)
           /\ IsFiniteSet(DOMAIN i.resources)
           /\ DOMAIN i.agents \subseteq AgentId /\ DOMAIN i.providers \subseteq ProviderId
           /\ DOMAIN i.resources \subseteq ResourceId
           /\ \A a \in DOMAIN i.agents : i.agents[a].places \subseteq Place
<1>1. /\ DOMAIN i.agents \subseteq AgentId /\ DOMAIN i.providers \subseteq ProviderId
      /\ DOMAIN i.resources \subseteq ResourceId
      /\ \A a \in DOMAIN i.agents : i.agents[a] \in AgentRecord
    BY DEF ValidInventory, ValidAgents, ValidProviders, ValidResources, IsCollection
<1>2. \A a \in DOMAIN i.agents : i.agents[a].places \subseteq Place
    BY <1>1 DEF AgentRecord
<1> QED BY <1>1, <1>2, IdentifierAssumption, FS_Subset

\* Evidence, gateway and kill switches: every agent or provider is covered or found.
LEMMA CoveredOrFound ==
    ASSUME InventoryInv, NEW t \in Tenant, NEW at
    PROVE  LET c == Coverage(t, at)
               count(kind, ids) == Cardinality({f \in ComputeFindings(t, at) :
                                                    f.kind = kind /\ f.target \in ids})
           IN  /\ c.evidenceFresh + count("missing_evidence", AgentId) = c.activeAgents
               /\ c.gatewayManaged + count("agents_outside_gateway", AgentId) = c.activeAgents
               /\ c.killSwitched + count("missing_kill_switch", ProviderId) = c.productionProviders
<1>1. PICK i, F : i = inventory[t] /\ F = ComputeFindings(t, at)
    OBVIOUS
<1>2. ValidInventory(i)
    BY <1>1 DEF InventoryInv, InventoryTypeOK
<1>3. /\ \A f \in F : f = Row(f.kind, f.target)
      /\ \A x : Row("agents_outside_gateway", x) \in F <=> x \in Outside(i)
      /\ \A x : Row("missing_evidence", x) \in F <=> x \in NoEvidence(i, at)
      /\ \A x \in ProviderId : Row("missing_kill_switch", x) \in F <=> x \in NoSwitch(i)
    BY <1>1, <1>2, RowsFound
<1>4. /\ IsFiniteSet(DOMAIN i.agents) /\ IsFiniteSet(DOMAIN i.providers)
      /\ DOMAIN i.agents \subseteq AgentId /\ DOMAIN i.providers \subseteq ProviderId
    BY <1>2, FiniteCollections
<1>5. PICK fresh, managed, switched, production :
        /\ fresh = {a \in DOMAIN i.agents :
                i.agents[a].evidenceAt # Never /\ ~Stale(i.agents[a].evidenceAt, EvidenceFresh, at)}
        /\ managed = {a \in DOMAIN i.agents : i.agents[a].managed}
        /\ production = InProduction(i.providers)
        /\ switched = {p \in production : i.providers[p].killSwitch}
    OBVIOUS
<1>6. PICK c : c = Coverage(t, at)
    OBVIOUS
<1>7. /\ c.activeAgents = Cardinality(DOMAIN i.agents) /\ c.evidenceFresh = Cardinality(fresh)
      /\ c.gatewayManaged = Cardinality(managed) /\ c.killSwitched = Cardinality(switched)
      /\ c.productionProviders = Cardinality(production)
    BY <1>1, <1>5, <1>6 DEF Coverage
<1>8. Cardinality(fresh) + Cardinality(NoEvidence(i, at)) = Cardinality(DOMAIN i.agents)
  <2>1. DOMAIN i.agents = fresh \cup NoEvidence(i, at) /\ fresh \cap NoEvidence(i, at) = {}
      BY <1>5 DEF NoEvidence, EvidenceMissing
  <2> QED BY <1>4, <2>1, PartsMakeUp
<1>9. Cardinality(managed) + Cardinality(Outside(i)) = Cardinality(DOMAIN i.agents)
  <2>1. DOMAIN i.agents = managed \cup Outside(i) /\ managed \cap Outside(i) = {}
      BY <1>5 DEF Outside
  <2> QED BY <1>4, <2>1, PartsMakeUp
<1>10. production \subseteq DOMAIN i.providers /\ IsFiniteSet(production)
  <2>1. production \subseteq DOMAIN i.providers
      BY <1>5 DEF InProduction
  <2> QED BY <1>4, <2>1, FS_Subset
<1>11. Cardinality(switched) + Cardinality(NoSwitch(i)) = Cardinality(production)
  <2>1. production = switched \cup NoSwitch(i) /\ switched \cap NoSwitch(i) = {}
      BY <1>5 DEF NoSwitch
  <2> QED BY <1>10, <2>1, PartsMakeUp
<1>12. NoEvidence(i, at) \subseteq DOMAIN i.agents /\ Outside(i) \subseteq DOMAIN i.agents
       /\ NoSwitch(i) \subseteq production
    BY <1>5 DEF NoEvidence, Outside, NoSwitch
<1>13. Cardinality(About(F, "missing_evidence", AgentId))
            = Cardinality(NoEvidence(i, at))
  <2>1. IsFiniteSet(NoEvidence(i, at)) /\ NoEvidence(i, at) \subseteq AgentId
      BY <1>4, <1>12, FS_Subset
  <2>2. Shows(F, "missing_evidence", AgentId, NoEvidence(i, at))
      BY <1>3, <2>1 DEF Shows
  <2> QED BY <2>1, <2>2, Counted
<1>14. Cardinality(About(F, "agents_outside_gateway", AgentId))
            = Cardinality(Outside(i))
  <2>1. IsFiniteSet(Outside(i)) /\ Outside(i) \subseteq AgentId
      BY <1>4, <1>12, FS_Subset
  <2>2. Shows(F, "agents_outside_gateway", AgentId, Outside(i))
      BY <1>3, <2>1 DEF Shows
  <2> QED BY <2>1, <2>2, Counted
<1>15. Cardinality(About(F, "missing_kill_switch", ProviderId))
            = Cardinality(NoSwitch(i))
  <2>1. IsFiniteSet(NoSwitch(i)) /\ NoSwitch(i) \subseteq ProviderId
      BY <1>4, <1>10, <1>12, FS_Subset
  <2>2. Shows(F, "missing_kill_switch", ProviderId, NoSwitch(i))
      BY <1>3, <2>1 DEF Shows
  <2> QED BY <2>1, <2>2, Counted
<1> QED BY <1>1, <1>6, <1>7, <1>8, <1>9, <1>11, <1>13, <1>14, <1>15, Zenon DEF About

\* Integrations without an owner: the report counts what the analysis finds.
LEMMA UnownedAreFound ==
    ASSUME InventoryInv, NEW t \in Tenant, NEW at
    PROVE  Coverage(t, at).unowned =
             Cardinality(About(ComputeFindings(t, at), "unowned_production_integrations",
                               ProviderId \cup ResourceId))
<1>1. PICK i, F : i = inventory[t] /\ F = ComputeFindings(t, at)
    OBVIOUS
<1>2. ValidInventory(i)
    BY <1>1 DEF InventoryInv, InventoryTypeOK
<1>3. PICK P, R : P = UnownedProviders(i) /\ R = UnownedResources(i)
    OBVIOUS
<1>4. /\ \A f \in F : f = Row(f.kind, f.target)
      /\ \A x : Row("unowned_production_integrations", x) \in F <=> x \in P \cup R
    BY <1>1, <1>2, <1>3, RowsFound
<1>5. /\ IsFiniteSet(DOMAIN i.providers) /\ IsFiniteSet(DOMAIN i.resources)
      /\ DOMAIN i.providers \subseteq ProviderId /\ DOMAIN i.resources \subseteq ResourceId
    BY <1>2, FiniteCollections
<1>6. P \subseteq DOMAIN i.providers /\ R \subseteq DOMAIN i.resources
    BY <1>3 DEF UnownedProviders, UnownedResources, InProduction
<1>7. IsFiniteSet(P) /\ IsFiniteSet(R) /\ IsFiniteSet(P \cup R) /\ P \cap R = {}
  <2>1. IsFiniteSet(P) /\ IsFiniteSet(R)
      BY <1>5, <1>6, FS_Subset
  <2>2. IsFiniteSet(P \cup R)
      BY <2>1, FS_Union
  <2> QED BY <1>5, <1>6, <2>1, <2>2, IdentifierAssumption
<1>8. Cardinality(P) + Cardinality(R) = Cardinality(P \cup R)
    BY <1>7, PartsMakeUp
<1>9. Coverage(t, at).unowned = Cardinality(P) + Cardinality(R)
    BY <1>1, <1>3 DEF Coverage, UnownedProviders, UnownedResources
<1>10. Shows(F, "unowned_production_integrations", ProviderId \cup ResourceId, P \cup R)
    BY <1>4, <1>5, <1>6 DEF Shows
<1>11. Cardinality(About(F, "unowned_production_integrations", ProviderId \cup ResourceId))
            = Cardinality(P \cup R)
    BY <1>7, <1>10, Counted
<1> QED BY <1>1, <1>8, <1>9, <1>11

\* An agent that no policy covers, in some place, makes that place a finding.
LEMMA UncoveredIsFound ==
    ASSUME InventoryInv, NEW t \in Tenant, NEW at,
           Coverage(t, at).policyCovered < Coverage(t, at).activeAgents,
           \A a \in DOMAIN inventory[t].agents : inventory[t].agents[a].places # {}
    PROVE  Cardinality(About(ComputeFindings(t, at), "policy_drift", Place)) > 0
<1>1. PICK i, F : i = inventory[t] /\ F = ComputeFindings(t, at)
    OBVIOUS
<1>2. ValidInventory(i)
    BY <1>1 DEF InventoryInv, InventoryTypeOK
<1>3. /\ \A f \in F : f = Row(f.kind, f.target)
      /\ \A x \in Uncovered(i) : Row("policy_drift", x) \in F
    BY <1>1, <1>2, RowsFound
<1>4. /\ IsFiniteSet(DOMAIN i.agents) /\ \A a \in DOMAIN i.agents : i.agents[a].places \subseteq Place
    BY <1>2, FiniteCollections
<1>5. PICK covered : covered = {a \in DOMAIN i.agents : \E q \in DOMAIN i.policies :
                                    i.agents[a].places \cap i.policies[q].places # {}}
    OBVIOUS
<1>6. Cardinality(covered) < Cardinality(DOMAIN i.agents)
  <2>1. PICK c : c = Coverage(t, at)
      OBVIOUS
  <2>2. c.policyCovered = Cardinality(covered) /\ c.activeAgents = Cardinality(DOMAIN i.agents)
      BY <1>1, <1>5, <2>1 DEF Coverage
  <2> QED BY <2>1, <2>2
<1>7. covered # DOMAIN i.agents
  <2>1. Cardinality(DOMAIN i.agents) \in Nat
      BY <1>4, FS_CardinalityType
  <2> QED BY <1>6, <2>1
<1>8. PICK a \in DOMAIN i.agents : a \notin covered
    BY <1>5, <1>7
<1>9. PICK e : e \in i.agents[a].places
    BY <1>1, <1>8
<1>10. e \in Uncovered(i) /\ e \in Place
    BY <1>4, <1>5, <1>8, <1>9 DEF Uncovered
<1>11. PICK G, S : G = About(F, "policy_drift", Place) /\ S = {x \in Place : Row("policy_drift", x) \in F}
    OBVIOUS
<1>12. IsFiniteSet(S) /\ e \in S
    BY <1>3, <1>10, <1>11, IdentifierAssumption, FS_Subset
<1>13. Shows(F, "policy_drift", Place, S)
    BY <1>3, <1>11 DEF Shows
<1>14. Cardinality(G) = Cardinality(S)
    BY <1>11, <1>12, <1>13, Counted
<1>15. Cardinality(S) \in Nat /\ Cardinality(S) # 0
    BY <1>12, FS_CardinalityType, FS_EmptySet
<1> QED BY <1>1, <1>11, <1>14, <1>15

\* The two reports agree.
LEMMA ReportsAgree ==
    ASSUME InventoryInv
    PROVE  CoverageAgrees
<1> SUFFICES ASSUME NEW t \in Tenant
             PROVE  LET c == Coverage(t, now)
                        count(kind, ids) == Cardinality(About(ComputeFindings(t, now), kind, ids))
                    IN  /\ c.evidenceFresh + count("missing_evidence", AgentId) = c.activeAgents
                        /\ c.gatewayManaged + count("agents_outside_gateway", AgentId) = c.activeAgents
                        /\ c.killSwitched + count("missing_kill_switch", ProviderId) = c.productionProviders
                        /\ c.unowned = count("unowned_production_integrations", ProviderId \cup ResourceId)
                        /\ c.policyCovered < c.activeAgents =>
                            \/ count("policy_drift", Place) > 0
                            \/ \E a \in DOMAIN inventory[t].agents : inventory[t].agents[a].places = {}
    BY Zenon DEF CoverageAgrees, About
<1>1. LET c == Coverage(t, now)
          count(kind, ids) == Cardinality(About(ComputeFindings(t, now), kind, ids))
      IN  /\ c.evidenceFresh + count("missing_evidence", AgentId) = c.activeAgents
          /\ c.gatewayManaged + count("agents_outside_gateway", AgentId) = c.activeAgents
          /\ c.killSwitched + count("missing_kill_switch", ProviderId) = c.productionProviders
    BY CoveredOrFound, Zenon DEF About
<1>2. Coverage(t, now).unowned = Cardinality(About(ComputeFindings(t, now),
        "unowned_production_integrations", ProviderId \cup ResourceId))
    BY UnownedAreFound
<1>3. ASSUME Coverage(t, now).policyCovered < Coverage(t, now).activeAgents
      PROVE  \/ Cardinality(About(ComputeFindings(t, now), "policy_drift", Place)) > 0
             \/ \E a \in DOMAIN inventory[t].agents : inventory[t].agents[a].places = {}
    BY <1>3, UncoveredIsFound
<1> QED BY <1>1, <1>2, <1>3, Zenon

\* The invariant of the reports.
ReportsInv == ResolutionInv /\ InventoryInv /\ EdgesAreReported

\* What the reports tell is so, for any number of tenants: paths cite edges that their
\* tenant has reported and that this tenant or another has reported in time, and coverage
\* counts what the analysis of the same instant finds.
THEOREM ReportsHold == InventorySpec => []ReportsAreTrue
<1>1. InventoryInit => ReportsInv
    BY ResolutionInitInv, InventoryInitially, EdgesInitially DEF ReportsInv
<1>2. ReportsInv /\ [InventoryNext]_inventoryVars => ReportsInv'
    BY ResolutionStepInv, InventoryStepInv, EdgesStep DEF ReportsInv
<1>3. ReportsInv => ReportsAreTrue
    BY CitationsHold, ReportsAgree DEF ReportsInv, ReportsAreTrue
<1> QED BY <1>1, <1>2, <1>3, PTL DEF InventorySpec

(***************************************************************************)
(* The controllers together                                                *)
(***************************************************************************)
\* No operation of the broker moves the clock.
LEMMA BrokerMovesClock ==
    ASSUME BrokerNext
    PROVE  Tick \/ now' = now
<1>1. CASE BrokerTick
    BY <1>1 DEF BrokerTick
<1>2. CASE Manage
    BY <1>2, Zenon DEF Manage, RevokeCredential, RegisterCredential, RotateCredential, IssueGrant, Deactivate
<1>3. ASSUME NEW k \in Call, Use(k) PROVE now' = now
    BY <1>3, Zenon DEF Use, KeepStore, ExecuteServerSide, Start, Refuse, ReadSecret, AuthenticateAgain,
       AssertActive, Deny, Perform, ExecutorThrows, CompleteExecution, CompletionThrows, Die
<1> QED BY <1>1, <1>2, <1>3 DEF BrokerNext

\* Nor does one of the ladder or of the inventory.
LEMMA LadderMovesClock ==
    ASSUME LadderNext \/ InventoryNext
    PROVE  Tick \/ now' = now
<1>1. CASE LadderNext
  <2>1. ASSUME NEW t, Inspect(t) \/ AssignCanary(t) \/ RollbackToApproval(t) PROVE now' = now
      BY <2>1, Zenon DEF Inspect, AssignCanary, RollbackToApproval
  <2>2. ASSUME NEW t, NEW m, NEW event, Compare(t, m, event) PROVE now' = now
      BY <2>2, Zenon DEF Compare
  <2>3. ASSUME NEW t, NEW m, NEW p, NEW e, Promote(t, m, p, e) PROVE now' = now
      BY <2>3, Zenon DEF Promote
  <2>4. ASSUME NEW t, NEW p, NEW o, RecordCanaryOutcome(t, p, o) PROVE now' = now
      BY <2>4, Zenon DEF RecordCanaryOutcome
  <2> QED BY <1>1, <2>1, <2>2, <2>3, <2>4, Zenon DEF LadderNext, LadderTick, LadderStep
<1>2. CASE InventoryNext
  <2>1. ASSUME NEW t, NEW at, Analyze(t, at) PROVE now' = now
      BY <2>1, Zenon DEF Analyze
  <2>2. ASSUME NEW t, NEW p, NEW at, Import(t, p, at) PROVE now' = now
      BY <2>2, Zenon DEF Import
  <2>3. ASSUME NEW t, NEW m, ApplyRemediation(t, m) \/ RejectRemediation(t, m) PROVE now' = now
      BY <2>3, Zenon DEF ApplyRemediation, RejectRemediation
  <2>4. ASSUME NEW t, NEW m, NEW f, NEW says, ProposeRemediation(t, m, f, says) PROVE now' = now
      BY <2>4, Zenon DEF ProposeRemediation
  <2> QED BY <1>2, <2>1, <2>2, <2>3, <2>4, Zenon DEF InventoryNext, InventoryTick, InventoryStep
<1> QED BY <1>1, <1>2

\* Nor does one of the control plane.
LEMMA TeamMovesClock ==
    ASSUME TeamNext
    PROVE  Tick \/ now' = now
<1>1. CASE TeamTick \/ BootstrapOrganization
    BY <1>1, Zenon DEF TeamTick, BootstrapOrganization, Commit
<1>2. ASSUME NEW m \in Member, ManageTokens(m) PROVE now' = now
    BY <1>2, Zenon DEF ManageTokens, RevokeToken, IssueToken, IssueServiceToken, RotateToken, Commit
<1>3. ASSUME NEW m \in Member, ManageTeam(m) PROVE now' = now
    BY <1>3, Zenon DEF ManageTeam, AddMember, CreateServiceAccount, DisableServiceAccount, DisableAgain,
       RegisterProject, DeleteProject, CreateEnvironment, DeleteEvidence, DistributePolicy,
       PruneRetention, Commit
<1>4. ASSUME NEW t \in Token, AuthenticateToken(t) PROVE now' = now
    BY <1>4, Zenon DEF AuthenticateToken
<1>5. ASSUME NEW actor, PublishAs(actor) PROVE now' = now
    BY <1>5, Zenon DEF PublishAs, PublishScenario, UploadEvidence, Commit
<1> QED BY <1>1, <1>2, <1>3, <1>4, <1>5 DEF TeamNext

\* A step of the controllers together is a step of each of them, or one in which it rests.
LEMMA ControllerSteps ==
    ASSUME Next \/ UNCHANGED allVars
    PROVE  /\ [BrokerNext]_brokerVars /\ [LadderNext]_ladderVars
           /\ [TeamNext]_teamVars /\ [InventoryNext]_inventoryVars
<1>1. Tick \/ now' = now
    BY BrokerMovesClock, LadderMovesClock, TeamMovesClock DEF Next, allVars
<1>2. [BrokerNext]_brokerVars
  <2>1. CASE UNCHANGED brokerOnly
      BY <1>1, <2>1 DEF brokerOnly, brokerVars, brokerCallVars, BrokerNext, BrokerTick
  <2> QED BY <2>1 DEF Next, allVars
<1>3. [LadderNext]_ladderVars
  <2>1. CASE UNCHANGED ladderOnly
      BY <1>1, <2>1 DEF ladderOnly, ladderVars, LadderNext, LadderTick
  <2> QED BY <2>1 DEF Next, allVars
<1>4. [TeamNext]_teamVars
  <2>1. CASE UNCHANGED teamOnly
      BY <1>1, <2>1 DEF teamOnly, teamVars, TeamNext, TeamTick
  <2> QED BY <2>1 DEF Next, allVars
<1>5. [InventoryNext]_inventoryVars
  <2>1. CASE UNCHANGED inventoryOnly
      BY <1>1, <2>1 DEF inventoryOnly, inventoryVars, InventoryNext, InventoryTick
  <2> QED BY <2>1 DEF Next, allVars
<1> QED BY <1>2, <1>3, <1>4, <1>5

\* What each controller does beside the others it could do alone.
THEOREM ControllersStandAlone == Spec => BrokerSpec /\ LadderSpec /\ TeamSpec /\ InventorySpec
<1>1. Init => BrokerInit /\ LadderInit /\ TeamInit /\ InventoryInit
    BY DEF Init
<1>2. [Next]_allVars =>
        /\ [BrokerNext]_brokerVars /\ [LadderNext]_ladderVars
        /\ [TeamNext]_teamVars /\ [InventoryNext]_inventoryVars
    BY ControllerSteps
<1> QED BY <1>1, <1>2, PTL DEF Spec, BrokerSpec, LadderSpec, TeamSpec, InventorySpec

\* Every controller's variables have their types and its store keeps to its bounds, for any
\* credentials, policies, teams and payloads.
THEOREM ControllersTypes == Spec => []ControllersTypeOK
<1>1. TeamInv => TeamTypeOK
    BY DEF TeamInv
<1> QED BY <1>1, ControllersStandAlone, BrokerTypeCorrect, LadderTypeCorrect, TeamInvariance,
        InventoryTypes, PTL DEF ControllersTypeOK
==============================================================================
