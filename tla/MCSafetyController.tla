------------------------ MODULE MCSafetyController ------------------------
(* Three actions: the first of one project, the others of another, which   *)
(* share an idempotency key where the run says so.                         *)
EXTENDS SafetyController, TLC

CONSTANTS a1, a2, a3, w1, w2, global, project, other, k1, k2, b1, c1

TwoActions == {a1, a2}
ThreeActions == {a1, a2, a3}
Keys == a1 :> k1 @@ a2 :> k2 @@ a3 :> k2
OwnKeys == a1 :> a1 @@ a2 :> a2
Costs == [a \in ThreeActions |->
    [k \in CostKey |-> IF k \in {"requests", "mutations"} THEN 1 ELSE 0]]

TwoCallers == {w1, w2}
OneCaller == {w1}
CallerSymmetry == Permutations(TwoCallers)

\* The two actions, with their own keys, may change places together with their scopes.
Exchange == {[x \in {a1, a2, project, other} |->
    CASE x = a1 -> a2 [] x = a2 -> a1 [] x = project -> other [] OTHER -> project]}
StopSymmetry == CallerSymmetry \cup Exchange

AllScopes == {global, project, other}
GlobalScope == {global}
Matches == global :> Action @@ project :> {a1} @@ other :> {a2}
GlobalMatches == global :> Action

\* One mutation at a time and two per window; and one per window.
Budgets == {[scope |-> global, windowMs |-> 2, velocityWindowMs |-> 1,
             limits |-> [mutations |-> 2, concurrency |-> 1, velocity |-> 1]],
            [scope |-> global, windowMs |-> 2, velocityWindowMs |-> 1,
             limits |-> [mutations |-> 1]]}

\* One opens on any bad outcome, the other on the second.
Circuits == {[scope |-> global, windowMs |-> 1, minimumSamples |-> 1,
              maxFailureRateBps |-> 5000, maxPolicyViolations |-> 0,
              maxLatencyMs |-> 1, maxReconciliationMismatches |-> 0,
              state |-> "closed"],
             [scope |-> global, windowMs |-> 1, minimumSamples |-> 2,
              maxFailureRateBps |-> 5000, maxPolicyViolations |-> 1,
              maxLatencyMs |-> 1, maxReconciliationMismatches |-> 1,
              state |-> "closed"]}

\* Callers work while the audit chain is short; operators and the queue go on.
CallersPause == auditLen' <= 5 \/ \A w \in Caller : pc'[w] = "idle"

Result(ok, violation, mismatch, ms) ==
    [success |-> ok, policyViolation |-> violation,
     reconciliationMismatch |-> mismatch, latencyMs |-> ms]
Success == {Result(TRUE, FALSE, FALSE, 0)}
Outcomes == {Result(TRUE, FALSE, FALSE, 0), Result(FALSE, FALSE, FALSE, 0),
             Result(FALSE, TRUE, TRUE, 0), Result(TRUE, FALSE, FALSE, 2)}
=============================================================================
