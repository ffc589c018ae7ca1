-------------------------- MODULE MCActionGateway --------------------------
(* Two actions with their own idempotency keys, run in one world by two     *)
(* workers.                                                                 *)
EXTENDS ActionGateway, TLC

CONSTANTS a1, a2, i1, i2, w1, w2, v1, v2, global

OneAction == {a1}
TwoActions == {a1, a2}
Ids == [a \in Action |-> IF a = a1 THEN i1 ELSE i2]
OneId == {i1}
TwoIds == {i1, i2}
TwoCallers == {w1, w2}
CallerSymmetry == Permutations(TwoCallers)
Keys == [a \in Action |-> a]
Costs == [a \in Action |->
    [monetaryAmountMinor |-> 0, requests |-> 1, messages |-> 0, mutations |-> 1, deletes |-> 0,
     tokenCost |-> 0]]
InFirstWorld == [a \in Action |-> v1]
NeverExpires == [a \in Action |-> MaxTime + 1]
Expires == [a \in Action |-> 1]
GlobalMatches == global :> Action

Result(ok, mismatch) ==
    [success |-> ok, policyViolation |-> FALSE,
     reconciliationMismatch |-> mismatch, latencyMs |-> 0]
Outcomes == {Result(TRUE, FALSE), Result(FALSE, FALSE), Result(FALSE, TRUE)}
=============================================================================
