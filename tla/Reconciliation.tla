--------------------------- MODULE Reconciliation ---------------------------
(***************************************************************************)
(* Reconciliation (src/reliability/reconciliation.ts) of one tenant's      *)
(* ledger with the worlds of its provider, and the service-level samples   *)
(* it leaves (src/reliability/slo.ts).  A run reads the ledger, asks the   *)
(* provider about one action after the other, saves its findings and, in   *)
(* another store, its samples; the ledger, the provider and other runs go  *)
(* on meanwhile, and a run may die between any two of these steps.         *)
(***************************************************************************)
EXTENDS ActionLedger, SequencesExt

CONSTANTS
    ReconRun,               \* the concurrent runs
    OwnTenant,              \* the tenant of the ledger capability
    MaxFindings,
    MaxSamplesPerMetric, MaxSamples, SampleWindow,
    MaxReconciled           \* bound: runs that are started

ASSUME ReconciliationAssumption ==
    /\ OwnTenant \in LedgerTenant
    /\ {MaxFindings, MaxSamplesPerMetric, MaxSamples, SampleWindow, MaxReconciled} \subseteq Nat

VARIABLES
    provider,       \* external: is there a receipt of the action in its world?
    recon,          \* what each run has in its hands
    started,        \* how many runs there have been
    findings,       \* the reconciliation store
    samples         \* the samples of the SLO store

reconOnly == <<provider, recon, started, findings, samples>>
reconVars == <<ledgerVars, reconOnly>>

Presence == {"present", "absent", "unresolved"}
Idling == [phase |-> "idle", timelines |-> [id \in LedgerActionId |-> <<>>],
           results |-> [id \in {} |-> {}], history |-> [id \in LedgerActionId |-> <<>>]]

ReconInit ==
    /\ LedgerInit
    /\ provider = [id \in LedgerActionId |-> "absent"]
    /\ recon = [r \in ReconRun |-> Idling]
    /\ started = 0
    /\ findings = <<>> /\ samples = <<>>
-----------------------------------------------------------------------------
\* The ledger knows no compensation that was attempted: recordAction() never writes one.
classifyIntent(timeline) ==
    LET attempt == LastStatus(timeline, "execution_attempt")
    IN  CASE LastStatus(timeline, "compensation") = "attempted" -> "compensated"
          [] Having(timeline, "provider_receipt") # {} ->
                IF LastStatus(timeline, "verification") = "verified" THEN "committed"
                ELSE "committed_unverified"
          [] attempt # "none" -> attempt
          [] OTHER -> "not_committed"

Outcome(outcome, retrySafe) == [outcome |-> outcome, retrySafe |-> retrySafe]

\* Faulty variant: an attempt the provider knows nothing of has not happened.
decideHopefully(intent, presence) ==
    CASE intent = "compensated" -> Outcome("compensated", FALSE)
      [] presence = "present" -> Outcome("committed", FALSE)
      [] presence = "absent" /\ intent \notin {"committed", "committed_unverified"} ->
            Outcome("not_committed", TRUE)
      [] OTHER -> Outcome("unknown", FALSE)

decideOutcome(intent, presence) ==
    CASE intent = "compensated" -> Outcome("compensated", FALSE)
      [] intent = "committed" /\ presence = "present" -> Outcome("committed", FALSE)
      [] intent = "committed" /\ presence = "absent" -> Outcome("drifted", FALSE)
      [] intent = "not_committed" /\ presence = "present" -> Outcome("drifted", FALSE)
      [] intent = "not_committed" /\ presence = "absent" -> Outcome("not_committed", TRUE)
      [] intent \notin {"committed", "not_committed"} /\ presence = "present" ->
            Outcome("committed", FALSE)
      [] OTHER -> Outcome("unknown", FALSE)

\* measureAction(): the samples of an action, if it was executed at all.
Measured(timeline, outcome) ==
    LET receipts == Having(timeline, "provider_receipt")
        proofs == Having(timeline, "verification")
        sample(metric, ok) == << [metric |-> metric, ok |-> ok, recordedAt |-> now] >>
    IN  IF receipts = {} /\ Having(timeline, "execution_attempt") = {} THEN <<>>
        ELSE sample("duplicate_prevention", Cardinality(receipts) <= 1 /\ Cardinality(proofs) <= 1)
             \o sample("availability", outcome \in {"committed", "not_committed", "compensated"})
             \o (IF receipts = {} THEN <<>>
                 ELSE sample("receipt_verification",
                             LastStatus(timeline, "verification") = "verified")
                      \o (IF proofs = {} THEN <<>> ELSE sample("execution_latency", TRUE)))

Metric == {"duplicate_prevention", "availability", "receipt_verification", "execution_latency"}

\* Faulty variant: the samples of one metric may take all the room.
trimByAge(all) ==
    LET recent == Kept(all, {i \in DOMAIN all : all[i].recordedAt >= now - SampleWindow})
        extra == Len(recent) - MaxSamples
    IN  IF extra <= 0 THEN recent ELSE SubSeq(recent, extra + 1, Len(recent))

\* trimSamples(): by age, then by metric, then in all; the newest are kept.
trimSamples(all) ==
    LET recent == Kept(all, {i \in DOMAIN all : all[i].recordedAt >= now - SampleWindow})
        after(i) == Cardinality({j \in i .. Len(recent) : recent[j].metric = recent[i].metric})
        sized == Kept(recent, {i \in DOMAIN recent : after(i) <= MaxSamplesPerMetric})
    IN  IF Len(sized) <= MaxSamples THEN sized
        ELSE SubSeq(sized, Len(sized) - MaxSamples + 1, Len(sized))
-----------------------------------------------------------------------------
\* exportTenant() refuses a ledger that does not verify.
StartRun(r) ==
    /\ recon[r].phase = "idle" /\ started < MaxReconciled /\ ChainVerifies(OwnTenant)
    /\ recon' = [recon EXCEPT ![r] = [Idling EXCEPT !.phase = "classifying",
            !.timelines = [id \in LedgerActionId |-> EntriesForAction(chain[OwnTenant], id)],
            !.history = recorded[OwnTenant]]]
    /\ started' = started + 1
    /\ UNCHANGED <<ledgerVars, provider, findings, samples>>

ToClassify(r) ==
    {id \in LedgerActionId : recon[r].timelines[id] # <<>>} \ DOMAIN recon[r].results

Classify(r, id) ==
    LET result == decideOutcome(classifyIntent(recon[r].timelines[id]), provider[id])
    IN  /\ recon[r].phase = "classifying" /\ id \in ToClassify(r)
        /\ recon' = [recon EXCEPT ![r] = [recon[r] EXCEPT
                !.results = [i \in DOMAIN recon[r].results \cup {id} |->
                                IF i = id THEN result ELSE recon[r].results[i]]]]
        /\ UNCHANGED <<ledgerVars, provider, started, findings, samples>>

ActionHash(r, id) == recon[r].timelines[id][1].actionHash
Open(e) == \E i \in DOMAIN findings : findings[i].actionHash = e /\ findings[i].status = "open"
ToReport(r) ==
    {id \in DOMAIN recon[r].results : recon[r].results[id].outcome \in {"drifted", "unknown"}}

\* An action with an open finding gets no second one, whatever that one says.
Reported(r) == {id \in ToReport(r) : ~Open(ActionHash(r, id))}

\* One mutation saves all findings of the run, or none when there is no room for one.
SaveFindings(r) ==
    LET new == SetToSeq(Reported(r))
    IN  /\ recon[r].phase = "classifying" /\ ToClassify(r) = {}
        /\ Len(findings) + Len(new) <= MaxFindings
        /\ findings' = findings \o [i \in DOMAIN new |->
                [actionHash |-> ActionHash(r, new[i]), status |-> "open",
                 classification |-> recon[r].results[new[i]].outcome]]
        /\ recon' = [recon EXCEPT ![r] = [recon[r] EXCEPT !.phase = "sampling"]]
        /\ UNCHANGED <<ledgerVars, provider, started, samples>>

RecordSamples(r) ==
    LET ids == SetToSeq(DOMAIN recon[r].results)
        new == FlattenSeq([i \in DOMAIN ids |->
                Measured(recon[r].timelines[ids[i]], recon[r].results[ids[i]].outcome)])
    IN  /\ recon[r].phase = "sampling"
        /\ samples' = IF new = <<>> THEN samples ELSE trimSamples(trimSamples(samples) \o new)
        /\ recon' = [recon EXCEPT ![r] = Idling]
        /\ UNCHANGED <<ledgerVars, provider, started, findings>>

\* A crash, or findings without room: what is saved stays, the rest is lost.
RunEnds(r) ==
    /\ recon[r].phase # "idle"
    /\ recon' = [recon EXCEPT ![r] = Idling]
    /\ UNCHANGED <<ledgerVars, provider, started, findings, samples>>

\* resolveDrift() and resolveUnknown(), each for its own classification.
Resolve(i) ==
    /\ i \in DOMAIN findings /\ findings[i].status = "open"
    /\ findings' = [findings EXCEPT ![i] = [findings[i] EXCEPT !.status = "resolved"]]
    /\ UNCHANGED <<ledgerVars, provider, recon, started, samples>>

\* External: an action is committed, its world is reset, forked or not to be found.
ProviderChanges(id, presence) ==
    /\ provider[id] # presence
    /\ provider' = [provider EXCEPT ![id] = presence]
    /\ UNCHANGED <<ledgerVars, recon, started, findings, samples>>

\* What the ledger does meanwhile, as far as it can matter to a run.
LedgerMoves ==
    /\ \/ LedgerTick \/ RecordSomething(OwnTenant)
       \/ \E days \in RetentionDays : ConfigureRetention(OwnTenant, days)
    /\ UNCHANGED reconOnly

ReconNext ==
    \/ LedgerMoves
    \/ \E r \in ReconRun :
        \/ StartRun(r) \/ SaveFindings(r) \/ RecordSamples(r) \/ RunEnds(r)
        \/ \E id \in LedgerActionId : Classify(r, id)
    \/ \E i \in DOMAIN findings : Resolve(i)
    \/ \E id \in LedgerActionId, presence \in Presence : ProviderChanges(id, presence)

ReconSpec == ReconInit /\ [][ReconNext]_reconVars
-----------------------------------------------------------------------------
\* The stores keep to their bounds, the samples for every metric too.
ReconTypeOK ==
    /\ provider \in [LedgerActionId -> Presence]
    /\ \A r \in ReconRun : recon[r].phase \in {"idle", "classifying", "sampling"}
    /\ Len(findings) <= MaxFindings
    /\ Len(samples) <= MaxSamples
    /\ \A m \in Metric :
        Cardinality({i \in DOMAIN samples : samples[i].metric = m}) <= MaxSamplesPerMetric

\* However many runs look at an action at once, it has at most one open finding.
OneOpenFindingPerAction ==
    \A i, j \in DOMAIN findings :
        i # j /\ findings[i].status = "open" /\ findings[j].status = "open" =>
            findings[i].actionHash # findings[j].actionHash

\* An action that may be retried was never attempted, as far as the ledger was told:
\* unless a rotation has cut the timeline the run has read, so that its intent is gone.
RetrySafeWasNeverAttempted ==
    \A r \in ReconRun : \A id \in DOMAIN recon[r].results :
        recon[r].results[id].retrySafe =>
            \/ \A i \in DOMAIN recon[r].history[id] : recon[r].history[id][i] # "attempted"
            \/ ~IncidentSource(recon[r].timelines[id])

\* However many runs look at an action at once, while the ledger is rotated and the
\* provider changes: one open finding, and no retry called safe after an attempt, but
\* for a timeline that a rotation has cut.
FindingsAreSound == OneOpenFindingPerAction /\ RetrySafeWasNeverAttempted

=============================================================================
