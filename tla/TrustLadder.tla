----------------------------- MODULE TrustLadder -----------------------------
(***************************************************************************)
(* LocalTrustLadder (src/trust/trustLadder.ts): how far each target is     *)
(* trusted, from simulate to bounded-auto, promotion on evidence, canary   *)
(* outcomes with stop conditions, and the audit chain of it all.  Each     *)
(* operation is one mutation of one JSON file; the caller supplies the     *)
(* policy with every call.  An operation that throws writes nothing and is *)
(* no step: neither the target that it created nor the audit records that  *)
(* it had appended.                                                        *)
(***************************************************************************)
EXTENDS Clock, Integers, Sequences, FiniteSets

CONSTANTS
    Target, Policy,
    inCanary,                   \* the targets that canaryDecision() assigns
    maxViolations, maxErrors,   \* stop conditions of a policy
    violationResponse,          \* of a policy
    minimumRuns, maxRateBps, freshness,   \* what a policy asks of evidence
    MaxRuns,                    \* bound on the runs that evidence counts
    MaxAudit,                   \* MAX_AUDIT
    MaxStored                   \* records that fit in MAX_STORE_BYTES

\* validatePolicy()
ValidPolicies ==
    /\ maxViolations \in [Policy -> Nat] /\ maxErrors \in [Policy -> Nat]
    /\ violationResponse \in [Policy -> {"demote_to_approve", "open_circuit_breaker"}]
    /\ minimumRuns \in [Policy -> Nat \ {0}]
    /\ maxRateBps \in [Policy -> 0 .. 10000] /\ freshness \in [Policy -> Nat]

ASSUME LadderAssumption ==
    /\ inCanary \in [Policy -> SUBSET Target]
    /\ ValidPolicies
    /\ MaxRuns \in Nat /\ MaxAudit \in Nat /\ MaxStored \in Nat

VARIABLES
    known,          \* the targets in the file
    level, breaker, \* of each target
    violations, errors,     \* canary outcomes of each target
    audit           \* the audit chain

ladderVars == <<now, known, level, breaker, violations, errors, audit>>

TRUST_LEVELS == <<"simulate", "shadow", "dry-run", "approve", "bounded-auto", "trusted">>
Level == {"simulate", "shadow", "dry-run", "approve", "bounded-auto", "trusted"}
Supported == {"simulate", "shadow", "approve", "bounded-auto"}

\* The position of a level on the ladder.
Rung(l) == CHOOSE i \in DOMAIN TRUST_LEVELS : TRUST_LEVELS[i] = l

\* nextSupportedLevel()
IsNextSupported(l, m) ==
    /\ m \in Supported /\ Rung(m) > Rung(l)
    /\ \A n \in Supported : Rung(n) > Rung(l) => Rung(n) >= Rung(m)

LadderInit ==
    /\ now = 0
    /\ known = {}
    /\ level = [t \in Target |-> "simulate"]
    /\ breaker = [t \in Target |-> "closed"]
    /\ violations = [t \in Target |-> 0]
    /\ errors = [t \in Target |-> 0]
    /\ audit = <<>>
-----------------------------------------------------------------------------
\* canaryDecision(): inside the tenants, resources and percentage of the policy.
CanaryAssigned(t, p) == t \in inCanary[p]

\* read() refuses a file above MAX_STORE_BYTES, which mutate() may have written.
StoreReadable == Cardinality(known) + Len(audit) <= MaxStored

\* findOrCreateTarget(), in every operation.
Touch(t) == known' = known \cup {t}

AuditEvent ==
    {"trust.promoted", "shadow.compared", "bounded.outcome_compared", "canary.outcome",
     "trust.auto_demoted", "canary.circuit_opened", "trust.rollback_to_approval"}

\* A record that changes no level has the same two levels.
AuditRecord(event, t, from, to) == [event |-> event, target |-> t, from |-> from, to |-> to]
Note(event, t) == AuditRecord(event, t, level[t], level[t])

\* appendAudit(), once for each record: a full chain makes the operation throw.
AppendAudit(records) ==
    /\ Len(audit) + Len(records) <= MaxAudit
    /\ audit' = audit \o records

\* rateBps(), rounded down.
RateBps(count, total) == IF total = 0 THEN 10000 ELSE (count * 10000) \div total

Fresh(instant, p) == instant <= now /\ now - instant <= freshness[p]

\* assertPromotionEvidence(); the required evals are one here.
EvidenceSuffices(e, p) ==
    /\ e.runs >= minimumRuns[p]
    /\ Fresh(e.observedAt, p)
    /\ e.passed /\ Fresh(e.completedAt, p)
    /\ RateBps(e.violations, e.runs) <= maxRateBps[p]
    /\ RateBps(e.errors, e.runs) <= maxRateBps[p]

\* validateEvidence(): no more violations or errors than runs.
Evidence ==
    {e \in [runs : 0 .. MaxRuns, violations : 0 .. MaxRuns, errors : 0 .. MaxRuns,
            passed : BOOLEAN, observedAt : 0 .. MaxTime, completedAt : 0 .. MaxTime] :
        e.violations <= e.runs /\ e.errors <= e.runs}
-----------------------------------------------------------------------------
Inspect(t) ==
    /\ StoreReadable
    /\ Touch(t)
    /\ UNCHANGED <<now, level, breaker, violations, errors, audit>>

AssignCanary(t) ==
    /\ StoreReadable /\ breaker[t] = "closed"
    /\ Touch(t)
    /\ UNCHANGED <<now, level, breaker, violations, errors, audit>>

\* By the verified owner of the policy.  The evidence names neither the target
\* nor the level.
Promote(t, m, p, e) ==
    /\ StoreReadable /\ breaker[t] = "closed"
    /\ IsNextSupported(level[t], m)
    /\ EvidenceSuffices(e, p)
    /\ m = "bounded-auto" => CanaryAssigned(t, p)
    /\ Touch(t)
    /\ level' = [level EXCEPT ![t] = m]
    /\ AppendAudit(<<AuditRecord("trust.promoted", t, level[t], m)>>)
    /\ UNCHANGED <<now, breaker, violations, errors>>

\* compareShadow() and compareBoundedOutcome(); whether the hashes match is only
\* in the wording of the audit record.
Compare(t, l, event) ==
    /\ StoreReadable /\ breaker[t] = "closed" /\ level[t] = l
    /\ Touch(t)
    /\ AppendAudit(<<Note(event, t)>>)
    /\ UNCHANGED <<now, level, breaker, violations, errors>>

\* Faulty variant: the stop condition is looked at one outcome too late.
StopsLate(p, v, e) ==
    \/ v > 0 /\ v > maxViolations[p]
    \/ e > 0 /\ e > maxErrors[p]

\* A stop condition of p is breached by v violations and e errors.
StopBreached(p, v, e) ==
    \/ v > 0 /\ v >= maxViolations[p]
    \/ e > 0 /\ e >= maxErrors[p]

\* Faulty variant: the automatic demotion is not audited.
DemotionUnrecorded(t, demoted, opened) ==
    <<Note("canary.outcome", t)>>
        \o (IF opened THEN <<Note("canary.circuit_opened", t)>> ELSE <<>>)

\* The records of one outcome, in the order of the code.
OutcomeRecords(t, demoted, opened) ==
    <<Note("canary.outcome", t)>>
        \o (IF demoted THEN <<AuditRecord("trust.auto_demoted", t, level[t], "approve")>>
            ELSE <<>>)
        \o (IF opened THEN
                LET l == IF demoted THEN "approve" ELSE level[t]
                IN  <<AuditRecord("canary.circuit_opened", t, l, l)>>
            ELSE <<>>)

RecordCanaryOutcome(t, p, outcome) ==
    LET v == violations[t] + (IF outcome = "violation" THEN 1 ELSE 0)
        e == errors[t] + (IF outcome = "error" THEN 1 ELSE 0)
        demoted == outcome = "violation" /\ violationResponse[p] = "demote_to_approve"
        opened == \/ outcome = "violation" /\ violationResponse[p] = "open_circuit_breaker"
                  \/ StopBreached(p, v, e)
    IN  /\ StoreReadable /\ breaker[t] = "closed"
        /\ level[t] = "bounded-auto" /\ CanaryAssigned(t, p)
        /\ Touch(t)
        /\ violations' = [violations EXCEPT ![t] = v]
        /\ errors' = [errors EXCEPT ![t] = e]
        /\ level' = IF demoted THEN [level EXCEPT ![t] = "approve"] ELSE level
        /\ breaker' = IF opened THEN [breaker EXCEPT ![t] = "open"] ELSE breaker
        /\ AppendAudit(OutcomeRecords(t, demoted, opened))
        /\ UNCHANGED now

\* By the verified owner of the policy, from any level.
RollbackToApproval(t) ==
    /\ StoreReadable
    /\ Touch(t)
    /\ level' = [level EXCEPT ![t] = "approve"]
    /\ AppendAudit(<<AuditRecord("trust.rollback_to_approval", t, level[t], "approve")>>)
    /\ UNCHANGED <<now, breaker, violations, errors>>

LadderTick == Tick /\ UNCHANGED <<known, level, breaker, violations, errors, audit>>

LadderStep(t) ==
    \/ Inspect(t) \/ AssignCanary(t) \/ RollbackToApproval(t)
    \/ Compare(t, "shadow", "shadow.compared")
    \/ Compare(t, "bounded-auto", "bounded.outcome_compared")
    \/ \E p \in Policy :
        \/ \E m \in {n \in Level : IsNextSupported(level[t], n)}, e \in Evidence :
                Promote(t, m, p, e)
        \/ \E o \in {"success", "violation", "error"} : RecordCanaryOutcome(t, p, o)

LadderNext == LadderTick \/ \E t \in Target : LadderStep(t)
LadderSpec == LadderInit /\ [][LadderNext]_ladderVars
-----------------------------------------------------------------------------
\* The variables have their types.
LadderTypeOK ==
    /\ now \in 0 .. MaxTime
    /\ known \subseteq Target
    /\ level \in [Target -> Supported]
    /\ breaker \in [Target -> {"closed", "open"}]
    /\ violations \in [Target -> Nat] /\ errors \in [Target -> Nat]
    /\ audit \in Seq([event : AuditEvent, target : Target, from : Supported, to : Supported])

\* The audit chain explains the state: of any two records of a target with none of
\* that target between them the second starts at the level where the first ends,
\* the last one ends at the target's level, and a breaker is open exactly when the
\* chain says so.
AuditExplainsState ==
    \A t \in Target :
        LET Of(i) == audit[i].target = t
        IN  /\ \A i \in DOMAIN audit : Of(i) =>
                \/ \E j \in i + 1 .. Len(audit) : Of(j) /\ audit[j].from = audit[i].to
                        /\ \A k \in i + 1 .. j - 1 : ~Of(k)
                \/ audit[i].to = level[t] /\ \A j \in i + 1 .. Len(audit) : ~Of(j)
            /\ (\A i \in DOMAIN audit : ~Of(i)) => level[t] = "simulate"
            /\ breaker[t] = "open" <=>
                \E i \in DOMAIN audit : Of(i) /\ audit[i].event = "canary.circuit_opened"

\* A canary stops in time: while the breaker is closed, the outcomes are below the
\* stop condition of some policy in whose scope the target is, across demotions
\* and renewed promotions and whichever policies the calls used.
StopConditionsHold ==
    \A t \in Target : breaker[t] = "closed" /\ violations[t] + errors[t] > 0 =>
        \E p \in Policy :
            /\ t \in inCanary[p]
            /\ violations[t] = 0 \/ violations[t] < maxViolations[p]
            /\ errors[t] = 0 \/ errors[t] < maxErrors[p]

\* An open breaker stays open and holds the target: no outcome is counted, no
\* comparison made, and the level does not rise to bounded-auto.
OpenBreakerHolds ==
    [][\A t \in Target : breaker[t] = "open" =>
        /\ breaker'[t] = "open"
        /\ violations'[t] = violations[t] /\ errors'[t] = errors[t]
        /\ level'[t] \in {level[t], "approve"}]_ladderVars

==============================================================================
