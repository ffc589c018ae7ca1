---------------------------- MODULE ActionLedger ----------------------------
(***************************************************************************)
(* The action ledger (src/ledger/actionLedger.ts): for every tenant a      *)
(* chain of entries, each sealed with the hash of the one before it.  An   *)
(* action is recorded once, as the timeline of its stages.  When the file  *)
(* is full the entries past their tenant's retention are dropped and the   *)
(* chain is linked again, unless the tenant is under legal hold.           *)
(* Every mutation runs under the lock of the ledger's file, so it is one   *)
(* step.  The validation of the state before it is written is not a guard  *)
(* here: LedgerChainsVerify shows that it never has to refuse.             *)
(***************************************************************************)
EXTENDS Clock, Integers, Sequences, FiniteSetsExt, Filters

CONSTANTS
    LedgerTenant,
    Envelope, LedgerActionId, ledgerId,     \* two envelopes may carry one action id
    ReceiptHistory,         \* the receipts an action may have when it is recorded
    RetentionDays,          \* the settings of configureRetention()
    MaxLedgerEntries, MaxLedgerTenants,
    SplitAt,                \* bound: the entries of a timeline after which the clock may move
    MaxGovernance,          \* bound: entries of settings in the ledger at a time
    Forever, NoFixture

ASSUME LedgerAssumption ==
    /\ ledgerId \in [Envelope -> LedgerActionId]
    /\ ReceiptHistory \subseteq Seq({"attempted", "committed", "verified", "failed", "ambiguous"})
    /\ RetentionDays \subseteq Nat \ {0} /\ Forever \notin Nat
    /\ MaxLedgerEntries \in Nat \ {0} /\ MaxLedgerTenants \in Nat \ {0} /\ MaxGovernance \in Nat
    /\ SplitAt \subseteq Nat
    /\ "governance" \notin LedgerActionId

\* execute() answers a verified action with its receipt, so none follows it
\* (src/actions/gateway.ts:558).
ASSUME ReceiptAssumption ==
    \A history \in ReceiptHistory : \A i \in DOMAIN history :
        history[i] = "verified" => i = Len(history)

VARIABLES
    chain,          \* state.entries, by tenant
    ledgerTenant,   \* state.tenants
    fixture,        \* incident fixtures on disk, by the hash of the action
    recorded        \* history: the receipts each timeline was made of

ledgerOnly == <<chain, ledgerTenant, fixture, recorded>>
ledgerVars == <<now, ledgerOnly>>
-----------------------------------------------------------------------------
(***************************************************************************)
(* Entries.  A hash is the term it is the hash of.                         *)
(***************************************************************************)
genesisHash(t) == <<t>>
Sealed(previousHash, sequence, body) ==
    [sequence |-> sequence, body |-> body, previousHash |-> previousHash,
     entryHash |-> <<previousHash, sequence, body>>]

Body(id, e, stage, status, at) ==
    [actionId |-> id, actionHash |-> e, stage |-> stage, status |-> status, timestamp |-> at]

\* appendReceiptEvidence(): what a receipt becomes.
Evidence(receipt) ==
    CASE receipt = "attempted" -> << <<"execution_attempt", "attempted">> >>
      [] receipt = "committed" -> << <<"provider_receipt", "committed">> >>
      [] receipt = "verified" -> << <<"verification", "verified">> >>
      [] OTHER -> << <<"execution_attempt", receipt>>, <<"verification", receipt>> >>

Evidences(history) ==
    LET upTo[n \in 0 .. Len(history)] ==
            IF n = 0 THEN <<>> ELSE upTo[n - 1] \o Evidence(history[n])
    IN  upTo[Len(history)]

\* The stages recordAction() appends, in their order.
Stages(history) ==
    << <<"intent", "no_status">>, <<"identity", "no_status">>, <<"policy_decision", "no_status">>,
       <<"approval", "approved">>, <<"credential_grant", "no_status">> >>
    \o Evidences(history)
    \o << <<"compensation", "not_attempted">> >>

\* entriesForAction(), without their seals, and the places where they are.
Places(entries, id) == {i \in DOMAIN entries : entries[i].body.actionId = id}
EntriesForAction(entries, id) ==
    Kept([i \in DOMAIN entries |-> entries[i].body], Places(entries, id))

\* state.entries.length: the file holds the entries of all tenants.
Total(entries) == Cardinality(UNION {{t} \X DOMAIN entries[t] : t \in LedgerTenant})

\* Faulty variant: the survivors keep their old seals.
relinkNothing(t, surviving) == surviving

\* relinkTenantChain(): the same entries, numbered and sealed anew.
relinkTenantChain(t, surviving) ==
    LET linked[i \in 1 .. Len(surviving)] ==
            Sealed(IF i = 1 THEN genesisHash(t) ELSE linked[i - 1].entryHash,
                   i, surviving[i].body)
    IN  linked

Untracked(t) ==
    [tracked |-> FALSE, entryCount |-> 0, headHash |-> genesisHash(t), retentionDays |-> Forever,
     legalHold |-> FALSE, deletionRequested |-> FALSE]

\* A mutation in progress: what it has made of the state, and whether it still goes well.
Mutation(entries, tenants, ok) == [chain |-> entries, tenant |-> tenants, ok |-> ok]
State == Mutation(chain, ledgerTenant, TRUE)

\* Faulty variant: a legal hold only blocks requests for deletion.
RotatedOnHold(st, t) == st.tenant[t].retentionDays # Forever

Rotated(st, t) == st.tenant[t].retentionDays # Forever /\ ~st.tenant[t].legalHold

\* rotateForRetention(): all tenants pay for the full file.
rotateForRetention(st, at) ==
    LET surviving(t) ==
            IF ~Rotated(st, t) THEN st.chain[t]
            ELSE Kept(st.chain[t], {i \in DOMAIN st.chain[t] :
                        st.chain[t][i].body.timestamp >= at - st.tenant[t].retentionDays})
        shrinks(t) == Len(surviving(t)) # Len(st.chain[t])
        rebuilt == [t \in LedgerTenant |->
            IF shrinks(t) THEN relinkTenantChain(t, surviving(t)) ELSE st.chain[t]]
        counted == [t \in LedgerTenant |->
            IF ~shrinks(t) THEN st.tenant[t]
            ELSE [st.tenant[t] EXCEPT
                    !.entryCount = Len(rebuilt[t]),
                    !.headHash = IF rebuilt[t] = <<>> THEN genesisHash(t)
                                 ELSE rebuilt[t][Len(rebuilt[t])].entryHash]]
    IN  Mutation(rebuilt, counted, st.ok)

\* getOrCreateTenant()
WithTenant(st, t) ==
    IF st.tenant[t].tracked THEN st
    ELSE Mutation(st.chain,
                  [st.tenant EXCEPT ![t] = [Untracked(t) EXCEPT !.tracked = TRUE]],
                  st.ok /\ Cardinality({u \in LedgerTenant : st.tenant[u].tracked})
                                < MaxLedgerTenants)

\* appendEntry(): rotates only when there is no room, and fails when that makes none.
appendEntry(before, t, body) ==
    LET st == WithTenant(before, t)
        room == IF Total(st.chain) >= MaxLedgerEntries THEN rotateForRetention(st, body.timestamp)
                ELSE st
        tenant == room.tenant[t]
        entry == Sealed(IF tenant.entryCount = 0 THEN genesisHash(t) ELSE tenant.headHash,
                        tenant.entryCount + 1, body)
    IN  IF ~st.ok \/ Total(room.chain) >= MaxLedgerEntries
        THEN Mutation(st.chain, st.tenant, FALSE)
        ELSE Mutation([room.chain EXCEPT ![t] = Append(room.chain[t], entry)],
                      [room.tenant EXCEPT ![t] =
                            [tenant EXCEPT !.entryCount = entry.sequence,
                                           !.headHash = entry.entryHash]],
                      TRUE)

\* The appendEntry() calls of one mutation, one after the other.
appendAll(st, t, bodies) ==
    LET after[n \in 0 .. Len(bodies)] ==
            IF n = 0 THEN st ELSE appendEntry(after[n - 1], t, bodies[n])
    IN  after[Len(bodies)]

\* A mutation that throws leaves the file as it is.
Write(st) == st.ok /\ chain' = st.chain /\ ledgerTenant' = st.tenant
-----------------------------------------------------------------------------
LedgerInit ==
    /\ now = 0
    /\ chain = [t \in LedgerTenant |-> <<>>]
    /\ ledgerTenant = [t \in LedgerTenant |-> Untracked(t)]
    /\ fixture = [e \in Envelope |-> NoFixture]
    /\ recorded = [t \in LedgerTenant |-> [id \in LedgerActionId |-> <<>>]]

\* recordAction(): every entry is stamped when it is appended, so the clock may move
\* after the first n of them.  A timeline that exists is returned as it is, or is a
\* reason to throw when its hash is another one; neither changes anything.
RecordAction(t, e, history, n, later) ==
    LET id == ledgerId[e]
        stages == Stages(history)
        bodies == [i \in DOMAIN stages |->
            Body(id, e, stages[i][1], stages[i][2], IF i <= n THEN now ELSE later)]
    IN  /\ Places(chain[t], id) = {}
        /\ n = Len(stages) <=> later = now
        /\ Write(appendAll(State, t, bodies))
        /\ recorded' = [recorded EXCEPT ![t] = [recorded[t] EXCEPT ![id] = history]]
        /\ now' = later
        /\ UNCHANGED fixture

\* The entry that says so may itself rotate the ledger, under the new setting.
Govern(t, setting, value, stage, status) ==
    LET st == WithTenant(State, t)
    IN  /\ Cardinality(UNION {{u} \X Places(chain[u], "governance") : u \in LedgerTenant})
                < MaxGovernance
        /\ Write(appendEntry(Mutation(st.chain, [st.tenant EXCEPT ![t][setting] = value], st.ok),
                             t, Body("governance", Forever, stage, status, now)))
        /\ UNCHANGED <<now, fixture, recorded>>

ConfigureRetention(t, days) ==
    Govern(t, "retentionDays", days, "retention", days)

SetLegalHold(t, active) ==
    Govern(t, "legalHold", active, "legal_hold", active)

\* A request is noted once; nothing is deleted.
RequestDeletion(t) ==
    /\ ~ledgerTenant[t].legalHold /\ ~ledgerTenant[t].deletionRequested
    /\ Govern(t, "deletionRequested", TRUE, "deletion_request", "requested")
-----------------------------------------------------------------------------
\* verifyTenantState()
ChainVerifies(t) ==
    LET tenant == ledgerTenant[t]
        entries == chain[t]
    IN  tenant.tracked =>
        /\ Len(entries) = tenant.entryCount
        /\ \A i \in DOMAIN entries :
            /\ entries[i].sequence = i
            /\ entries[i].previousHash = IF i = 1 THEN genesisHash(t) ELSE entries[i - 1].entryHash
            /\ entries[i].entryHash = <<entries[i].previousHash, i, entries[i].body>>
        /\ tenant.headHash = IF entries = <<>> THEN genesisHash(t) ELSE entries[Len(entries)].entryHash

Having(timeline, stage) == {i \in DOMAIN timeline : timeline[i].stage = stage}

LastStatus(timeline, stage) ==
    LET found == Having(timeline, stage)
    IN  IF found = {} THEN "none" ELSE timeline[Max(found)].status

\* An incident is made of a timeline that still has its intent.
IncidentSource(timeline) == Having(timeline, "intent") # {}

\* createIncidentFixture() reads without the lock and writes, last, a file named after
\* the hash of the action.  What it writes depends on that reading alone.
CreateIncidentFixture(t, id) ==
    LET timeline == EntriesForAction(chain[t], id)
    IN  /\ ChainVerifies(t) /\ IncidentSource(timeline)
        /\ fixture' = [fixture EXCEPT ![timeline[1].actionHash] =
                [tenant |-> t, actionId |-> id, history |-> recorded[t][id],
                 verified |-> LastStatus(timeline, "verification") = "verified"]]
        /\ UNCHANGED <<now, chain, ledgerTenant, recorded>>

LedgerTick == Tick /\ UNCHANGED ledgerOnly

RecordSomething(t) ==
    \E e \in Envelope, history \in ReceiptHistory, later \in {now, now + 1} \cap 0 .. MaxTime :
        \E n \in SplitAt \cup {Len(Stages(history))} : RecordAction(t, e, history, n, later)

LedgerNext ==
    \/ LedgerTick
    \/ \E t \in LedgerTenant :
        \/ RecordSomething(t)
        \/ \E days \in RetentionDays \cup {Forever} : ConfigureRetention(t, days)
        \/ \E active \in BOOLEAN : SetLegalHold(t, active)
        \/ RequestDeletion(t)
        \/ \E id \in LedgerActionId : CreateIncidentFixture(t, id)

LedgerSpec == LedgerInit /\ [][LedgerNext]_ledgerVars
-----------------------------------------------------------------------------
\* The variables have their types and the file its bound.
LedgerTypeOK ==
    /\ Total(chain) <= MaxLedgerEntries
    /\ \A t \in LedgerTenant :
        /\ ledgerTenant[t].entryCount \in 0 .. MaxLedgerEntries
        /\ ledgerTenant[t].retentionDays \in RetentionDays \cup {Forever}
        /\ {ledgerTenant[t].tracked, ledgerTenant[t].legalHold, ledgerTenant[t].deletionRequested}
                \subseteq BOOLEAN
        /\ \A i \in DOMAIN chain[t] : chain[t][i].body.timestamp \in 0 .. now
    /\ \A e \in Envelope : fixture[e] # NoFixture => fixture[e].tenant \in LedgerTenant

\* Whatever is appended, dropped and linked again, also in the middle of a timeline and
\* for tenants who did nothing, every tenant's chain verifies from its genesis to its
\* head, so no mutation is refused and no ledger becomes unreadable.
LedgerChainsVerify == \A t \in LedgerTenant : ChainVerifies(t)

\* What a tenant under legal hold, or without a retention period, has recorded stays:
\* the entries it had are the first of those it has.
HeldRecordsStay ==
    [][\A t \in LedgerTenant :
        (ledgerTenant'[t].legalHold \/ ledgerTenant'[t].retentionDays = Forever) =>
            /\ Len(chain[t]) <= Len(chain'[t])
            /\ \A i \in DOMAIN chain[t] : chain'[t][i] = chain[t][i]
      ]_ledgerVars

\* An incident fixture expects the outcome that was recorded, although a rotation may
\* have cut the timeline: what still has its intent is whole.
FixturesTellTheRecord ==
    \A e \in Envelope : fixture[e] # NoFixture =>
        (fixture[e].verified <=> \E i \in DOMAIN fixture[e].history : fixture[e].history[i] = "verified")

\* What the ledger shows is what was recorded, as a chain and as an incident.
LedgerTellsTheRecord == LedgerChainsVerify /\ FixturesTellTheRecord

=============================================================================
