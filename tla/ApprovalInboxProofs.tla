------------------------- MODULE ApprovalInboxProofs -------------------------
(***************************************************************************)
(* Proofs about ApprovalInbox, for any actions, identities, policies,      *)
(* clocks and number of executors.                                         *)
(***************************************************************************)
EXTENDS ApprovalInbox, TLAPS

\* The statuses that come after the consumption.
Started == {"executing", "executed", "execution_failed"}

\* What later steps can no longer check: the quorum was there when the status
\* became approved, and no step takes an approval away.
ApprovedHasQuorum ==
    \A a \in Action :
        /\ req[a].status \in Started \cup {"approved"} =>
                Cardinality(req[a].approvals) >= required[a]
        /\ req[a].approvals \subseteq independent[a]
        /\ \A p, q \in req[a].approvals : principal[p] = principal[q] => p = q

\* consumed says the same as the status.
ConsumedIsStarted ==
    \A a \in Action : req[a].consumed <=> req[a].status \in Started

\* The gateway only has a record of a consumed approval, and its receipts
\* follow the side effect.
RecordIsConsumed ==
    /\ \A a \in Action : status[a] # "none" => req[a].consumed
    /\ \A a \in performed : status[a] # "none"
    /\ \A a \in Action : status[a] \in {"committed", "verified"} => a \in performed

\* Whoever is inside execute() has its request on disk as executing.
ExecutorsExecute ==
    \A x \in Executor : xpc[x] # "idle" => req[job[x]].status = "executing"

\* The requests in memory are those on disk, but for what refresh() closed.
SameButClosed(r, s) ==
    /\ s.approvals = r.approvals
    /\ s.consumed = r.consumed
    /\ s.createdAt = r.createdAt
    /\ \/ s.status = r.status
       \/ r.status \in {"pending", "approved"} /\ s.status \in {"timed_out", "expired"}

\* The lock keeps the requests read by an executor those on disk.
DraftFollowsDisk ==
    \A x \in Executor : xpc[x] # "idle" =>
        \A a \in Action : SameButClosed(req[a], draft[a])

\* The inductive invariant.
IInv ==
    /\ TypeOK
    /\ ApprovedHasQuorum
    /\ ConsumedIsStarted
    /\ RecordIsConsumed
    /\ ExecutorsExecute
    /\ DraftFollowsDisk
    /\ ExecutedIsVerified

\* The updates that the operations make to a request.
LEMMA UpdatedRequest ==
    ASSUME NEW r \in RequestRecord, NEW s \in RequestStatus, NEW A \in SUBSET Identity
    PROVE  /\ [r EXCEPT !.status = s] \in RequestRecord
           /\ [r EXCEPT !.approvals = A, !.status = s] \in RequestRecord
           /\ [r EXCEPT !.status = s, !.consumed = TRUE] \in RequestRecord
<1>1. [r EXCEPT !.status = s] \in RequestRecord
    BY DEF RequestRecord
<1>2. [r EXCEPT !.approvals = A, !.status = s] \in RequestRecord
    BY DEF RequestRecord
<1>3. [r EXCEPT !.status = s, !.consumed = TRUE] \in RequestRecord
    BY Zenon DEF RequestRecord
<1> QED BY <1>1, <1>2, <1>3

\* A request whose status is settled leaves the others as they were.
LEMMA SettledRequests ==
    ASSUME NEW rs \in [Action -> RequestRecord], NEW s \in RequestStatus, NEW a
    PROVE  [rs EXCEPT ![a].status = s] \in [Action -> RequestRecord]
<1>1. ASSUME NEW b \in Action PROVE [rs[b] EXCEPT !.status = s] \in RequestRecord
    <2>1. rs[b] \in RequestRecord
        OBVIOUS
    <2> QED BY <2>1 DEF RequestRecord
<1> QED BY <1>1

\* refresh() closes pending and approved requests and changes nothing else.
LEMMA RefreshedCloses ==
    ASSUME TypeOK
    PROVE  /\ Refreshed(clock) \in [Action -> RequestRecord]
           /\ \A a \in Action : SameButClosed(req[a], Refreshed(clock)[a])
           /\ \A a \in Action : Refreshed(clock)[a].status = "approved" =>
                    clock < ApprovalExpiresAt(a, req[a])
<1> DEFINE rs == Refreshed(clock)
<1>1. \A a \in Action : req[a] \in RequestRecord
    BY DEF TypeOK
<1>2. ASSUME NEW a \in Action
      PROVE  /\ rs[a] \in RequestRecord
             /\ SameButClosed(req[a], rs[a])
             /\ rs[a].status = "approved" => clock < ApprovalExpiresAt(a, req[a])
    <2>1. CASE TimedOut(req[a], clock)
        <3>1. rs[a] = [req[a] EXCEPT !.status = "timed_out"]
            BY <2>1 DEF Refreshed
        <3> QED BY <1>1, <2>1, <3>1 DEF RequestRecord, RequestStatus, SameButClosed, TimedOut
    <2>2. CASE ~TimedOut(req[a], clock) /\ Expired(a, req[a], clock)
        <3>1. rs[a] = [req[a] EXCEPT !.status = "expired"]
            BY <2>2 DEF Refreshed
        <3> QED BY <1>1, <2>2, <3>1 DEF RequestRecord, RequestStatus, SameButClosed, Expired
    <2>3. CASE ~TimedOut(req[a], clock) /\ ~Expired(a, req[a], clock)
        <3>1. rs[a] = req[a]
            BY <2>3 DEF Refreshed
        <3>2. ApprovalExpiresAt(a, req[a]) \in Nat /\ clock \in Nat
            BY <1>1, InboxAssumption DEF TypeOK, ApprovalExpiresAt, RequestRecord
        <3> QED BY <1>1, <2>3, <3>1, <3>2 DEF SameButClosed, Expired
    <2> QED BY <2>1, <2>2, <2>3
<1>3. rs \in [Action -> RequestRecord]
    BY <1>2 DEF Refreshed
<1> QED BY <1>2, <1>3

\* The empty inbox satisfies the invariant.
LEMMA IInvInit == Init => IInv
<1> SUFFICES ASSUME Init PROVE IInv
    OBVIOUS
<1> USE DEF Init, NoRequests, NoRequest, Gateway!ExecInit
<1>1. TypeOK
    BY InboxAssumption DEF TypeOK, RequestRecord, RequestStatus
<1>2. ApprovedHasQuorum /\ ConsumedIsStarted /\ ExecutedIsVerified
    BY DEF ApprovedHasQuorum, ConsumedIsStarted, ExecutedIsVerified, Started
<1>3. RecordIsConsumed /\ ExecutorsExecute /\ DraftFollowsDisk
    BY DEF RecordIsConsumed, ExecutorsExecute, DraftFollowsDisk
<1> QED BY <1>1, <1>2, <1>3 DEF IInv

\* Every step keeps the types and the executor's hold on the lock.
LEMMA TypeNext ==
    ASSUME TypeOK, [Next]_vars PROVE TypeOK'
<1> USE InboxAssumption
<1>0. /\ Refreshed(clock) \in [Action -> RequestRecord]
      /\ NoRequests \in [Action -> RequestRecord]
    BY RefreshedCloses DEF NoRequests, NoRequest, RequestRecord, RequestStatus
<1>1. CASE UNCHANGED vars
    BY <1>1 DEF vars, TypeOK
<1>2. CASE Tick
    BY <1>2 DEF Tick, executorVars, gatewayVars, TypeOK
<1>3. CASE Get
    BY <1>0, <1>3 DEF Get, executorVars, gatewayVars, TypeOK
<1>4. ASSUME NEW a \in Action, Request(a) PROVE TypeOK'
    <2>1. NewRequest(clock) \in RequestRecord
        BY DEF NewRequest, RequestRecord, RequestStatus, TypeOK
    <2>2. req' \in [Action -> RequestRecord]
        BY <1>0, <1>4, <2>1 DEF Request
    <2> QED BY <1>4, <2>2 DEF Request, executorVars, gatewayVars, TypeOK
<1>5. ASSUME NEW a \in Action, NEW p \in Identity, Approve(a, p) PROVE TypeOK'
    <2>1. req' \in [Action -> RequestRecord]
        <3> DEFINE r == Refreshed(clock)[a]
                   A == r.approvals \cup {p}
                   s == IF Cardinality(A) >= required[a] THEN "approved" ELSE "pending"
        <3>1. r \in RequestRecord /\ A \in SUBSET Identity /\ s \in RequestStatus
            BY <1>0 DEF RequestRecord, RequestStatus
        <3>2. req' = [Refreshed(clock) EXCEPT ![a] = [r EXCEPT !.approvals = A, !.status = s]]
            BY <1>5 DEF Approve
        <3> HIDE DEF r, A, s
        <3>3. [r EXCEPT !.approvals = A, !.status = s] \in RequestRecord
            BY <3>1, UpdatedRequest
        <3> QED BY <1>0, <3>2, <3>3
    <2> QED BY <1>5, <2>1 DEF Approve, executorVars, gatewayVars, TypeOK
<1>6. ASSUME NEW a \in Action, NEW verdict \in {"rejected", "revoked"},
             DecideTerminal(a, verdict)
      PROVE  TypeOK'
    <2>1. req' \in [Action -> RequestRecord]
        BY <1>0, <1>6 DEF DecideTerminal, RequestRecord, RequestStatus
    <2> QED BY <1>6, <2>1 DEF DecideTerminal, executorVars, gatewayVars, TypeOK
<1>7. ASSUME NEW a \in Action, Supersede(a) PROVE TypeOK'
    <2>1. req' \in [Action -> RequestRecord]
        BY <1>0, <1>7 DEF Supersede, RequestRecord, RequestStatus
    <2> QED BY <1>7, <2>1 DEF Supersede, executorVars, gatewayVars, TypeOK
<1>9. ASSUME NEW x \in Executor, NEW a \in Action, BeginExecute(x, a) PROVE TypeOK'
    <2>1. draft' = Consumed(Refreshed(clock), a)
        BY <1>9 DEF BeginExecute
    <2>2. draft' \in [Action -> RequestRecord]
        <3> DEFINE r == Refreshed(clock)[a]
        <3>1. r \in RequestRecord
            BY <1>0
        <3>2. [r EXCEPT !.status = "executing", !.consumed = TRUE] \in RequestRecord
            BY <3>1, UpdatedRequest DEF RequestStatus
        <3>3. \/ draft' = Refreshed(clock)
              \/ draft' = [Refreshed(clock) EXCEPT
                    ![a] = [r EXCEPT !.status = "executing", !.consumed = TRUE]]
            BY <2>1 DEF Consumed
        <3> QED BY <1>0, <3>2, <3>3
    <2>3. req' \in [Action -> RequestRecord]
        BY <1>9, <2>2 DEF BeginExecute, TypeOK
    <2> QED BY <1>9, <2>2, <2>3 DEF BeginExecute, Enter, Goto, gatewayVars, TypeOK
<1>10. ASSUME NEW x \in Executor, Submit(x) PROVE TypeOK'
    BY <1>10 DEF Submit, Goto, Gateway!Request, TypeOK
<1>11. ASSUME NEW x \in Executor, GatewayStep(x) PROVE TypeOK'
    BY <1>11 DEF GatewayStep, Gateway!Attempt, Gateway!Perform, Gateway!ReportFailure,
                 Gateway!ReportSuccess, executorVars, TypeOK
<1>12. ASSUME NEW x \in Executor, FinishVerified(x) PROVE TypeOK'
    <2>1. req' \in [Action -> RequestRecord]
        <3>1. req' = [draft EXCEPT ![job[x]].status = "executed"]
            BY <1>12 DEF FinishVerified
        <3>2. draft \in [Action -> RequestRecord] /\ "executed" \in RequestStatus
            BY DEF TypeOK, RequestStatus
        <3> QED BY <3>1, <3>2, SettledRequests
    <2> QED BY <1>0, <1>12, <2>1 DEF FinishVerified, Leave, Goto, gatewayVars, TypeOK
<1>13. ASSUME NEW x \in Executor, CatchError(x) PROVE TypeOK'
    <2>1. req' \in [Action -> RequestRecord]
        <3>1. \/ req' = [draft EXCEPT ![job[x]].status = "execution_failed"]
              \/ req' = req
            BY <1>13 DEF CatchError
        <3>2. /\ draft \in [Action -> RequestRecord] /\ req \in [Action -> RequestRecord]
              /\ "execution_failed" \in RequestStatus
            BY DEF TypeOK, RequestStatus
        <3> QED BY <3>1, <3>2, SettledRequests
    <2> QED BY <1>0, <1>13, <2>1 DEF CatchError, Leave, Goto, gatewayVars, TypeOK
<1>14. ASSUME NEW x \in Executor, ExecutorDies(x) PROVE TypeOK'
    BY <1>0, <1>14 DEF ExecutorDies, Leave, Goto, gatewayVars, TypeOK
<1> QED
    BY <1>1, <1>2, <1>3, <1>4, <1>5, <1>6, <1>7, <1>9, <1>10, <1>11, <1>12,
       <1>13, <1>14 DEF Next, ExecutorStep

\* A request after a step is as sound as it has to be.
Sound(a) ==
    /\ req'[a].status \in Started \cup {"approved"} =>
            Cardinality(req'[a].approvals) >= required[a]
    /\ req'[a].approvals \subseteq independent[a]
    /\ \A p, q \in req'[a].approvals : principal[p] = principal[q] => p = q
    /\ req'[a].consumed <=> req'[a].status \in Started
    /\ req[a].consumed => req'[a].consumed
    /\ req'[a].status = "executed" => req[a].status = "executed"

\* Sound changes of requests keep what the invariant says of requests.
LEMMA SoundRequests ==
    ASSUME IInv, UNCHANGED gatewayVars, \A a \in Action : Sound(a)
    PROVE  ApprovedHasQuorum' /\ ConsumedIsStarted' /\ RecordIsConsumed' /\ ExecutedIsVerified'
<1>1. ApprovedHasQuorum' /\ ConsumedIsStarted'
    BY DEF Sound, ApprovedHasQuorum, ConsumedIsStarted
<1>2. RecordIsConsumed' /\ ExecutedIsVerified'
    BY DEF IInv, Sound, RecordIsConsumed, ExecutedIsVerified, gatewayVars
<1> QED BY <1>1, <1>2

\* A step that leaves nobody inside execute().
LEMMA NobodyInside ==
    ASSUME \A x \in Executor : xpc'[x] = "idle"
    PROVE  ExecutorsExecute' /\ DraftFollowsDisk'
BY DEF ExecutorsExecute, DraftFollowsDisk

\* A step that finds the inbox unlocked and writes only sound requests.
LEMMA UnlockedStep ==
    ASSUME IInv, TypeOK', inboxLock = None,
           UNCHANGED <<executorVars, gatewayVars>>,
           \A a \in Action : Sound(a)
    PROVE  IInv'
<1>1. \A x \in Executor : xpc[x] = "idle"
    BY InboxAssumption DEF IInv, TypeOK
<1>2. ApprovedHasQuorum' /\ ConsumedIsStarted' /\ RecordIsConsumed' /\ ExecutedIsVerified'
    BY SoundRequests
<1>3. ExecutorsExecute' /\ DraftFollowsDisk'
    BY <1>1, NobodyInside DEF executorVars
<1> QED BY <1>2, <1>3 DEF IInv

\* Only one executor is inside, and it leaves.
LEMMA LeaveEmpties ==
    ASSUME TypeOK, NEW x \in Executor, xpc[x] # "idle", Leave(x)
    PROVE  \A y \in Executor : xpc'[y] = "idle"
BY DEF TypeOK, Leave, Goto

\* A request that refresh() left alone or closed is sound.
LEMMA ClosedIsSound ==
    ASSUME IInv, NEW a \in Action, SameButClosed(req[a], req'[a])
    PROVE  Sound(a)
BY DEF IInv, SameButClosed, Sound, ApprovedHasQuorum, ConsumedIsStarted, Started

\* Every step preserves the invariant.
LEMMA IInvNext ==
    ASSUME IInv, [Next]_vars PROVE IInv'
<1> DEFINE rs == Refreshed(clock)
<1>t. TypeOK /\ TypeOK'
    BY TypeNext DEF IInv
<1>r. /\ rs \in [Action -> RequestRecord]
      /\ \A a \in Action : SameButClosed(req[a], rs[a])
    BY <1>t, RefreshedCloses
<1> HIDE DEF rs
<1>1. CASE UNCHANGED vars
    BY <1>1, <1>t DEF vars, IInv, ApprovedHasQuorum, ConsumedIsStarted, RecordIsConsumed,
        ExecutorsExecute, DraftFollowsDisk, ExecutedIsVerified
<1>2. CASE Tick
    BY <1>2, <1>t DEF Tick, executorVars, gatewayVars, IInv, ApprovedHasQuorum,
        ConsumedIsStarted, RecordIsConsumed, ExecutorsExecute, DraftFollowsDisk,
        ExecutedIsVerified
<1>3. CASE Get
    <2>1. \A a \in Action : Sound(a)
        BY <1>3, <1>r, ClosedIsSound DEF Get, rs
    <2> QED BY <1>3, <1>t, <2>1, UnlockedStep DEF Get
<1>4. ASSUME NEW a \in Action, Request(a) PROVE IInv'
    <2>1. req' = [rs EXCEPT ![a] = NewRequest(clock)] /\ rs[a].status = "none"
        BY <1>4 DEF Request, rs
    <2>2. ASSUME NEW b \in Action PROVE Sound(b)
        <3>1. CASE b # a
            BY <1>r, <2>1, <3>1, ClosedIsSound
        <3>2. CASE b = a
            BY <1>r, <2>1, <3>2 DEF Sound, NewRequest, Started, SameButClosed, IInv,
                ConsumedIsStarted
        <3> QED BY <3>1, <3>2
    <2> QED BY <1>4, <1>t, <2>2, UnlockedStep DEF Request
<1>5. ASSUME NEW a \in Action, NEW p \in Identity, Approve(a, p) PROVE IInv'
    <2> DEFINE A == rs[a].approvals \cup {p}
    <2>1. /\ req' = [rs EXCEPT ![a] = [rs[a] EXCEPT !.approvals = A,
                        !.status = IF Cardinality(A) >= required[a]
                                   THEN "approved" ELSE "pending"]]
          /\ rs[a].status = "pending"
          /\ p \in independent[a]
          /\ \A q \in rs[a].approvals : principal[q] # principal[p]
        BY <1>5 DEF Approve, rs
    <2>2. ASSUME NEW b \in Action PROVE Sound(b)
        <3>1. CASE b # a
            BY <1>r, <2>1, <3>1, ClosedIsSound
        <3>2. CASE b = a
            <4>1. /\ req'[a].approvals = A
                  /\ req'[a].consumed = rs[a].consumed
                  /\ req'[a].status \in {"approved", "pending"}
                  /\ req'[a].status = "approved" => Cardinality(A) >= required[a]
                BY <1>r, <2>1 DEF RequestRecord
            <4>2. /\ A = req[a].approvals \cup {p}
                  /\ req[a].status = "pending"
                  /\ rs[a].consumed = req[a].consumed
                BY <1>r, <2>1 DEF SameButClosed
            <4>3. ~req[a].consumed
                BY <4>2 DEF IInv, ConsumedIsStarted, Started
            <4>4. A \subseteq independent[a]
                BY <2>1, <4>2 DEF IInv, ApprovedHasQuorum
            <4>5. \A q, s \in A : principal[q] = principal[s] => q = s
                BY <2>1, <4>2, <1>r DEF SameButClosed, IInv, ApprovedHasQuorum
            <4> HIDE DEF A
            <4> QED BY <3>2, <4>1, <4>2, <4>3, <4>4, <4>5 DEF Sound, Started
        <3> QED BY <3>1, <3>2
    <2> QED BY <1>5, <1>t, <2>2, UnlockedStep DEF Approve
<1>6. ASSUME NEW a \in Action, NEW verdict \in {"rejected", "revoked"},
             DecideTerminal(a, verdict)
      PROVE  IInv'
    <2>1. /\ req' = [rs EXCEPT ![a].status = verdict]
          /\ rs[a].status \in {"pending", "approved"}
        BY <1>6 DEF DecideTerminal, rs
    <2>2. ASSUME NEW b \in Action PROVE Sound(b)
        <3>1. CASE b # a
            BY <1>r, <2>1, <3>1, ClosedIsSound
        <3>2. CASE b = a
            BY <1>r, <2>1, <3>2 DEF Sound, Started, SameButClosed, IInv, ConsumedIsStarted,
                ApprovedHasQuorum, RequestRecord
        <3> QED BY <3>1, <3>2
    <2> QED BY <1>6, <1>t, <2>2, UnlockedStep DEF DecideTerminal
<1>7. ASSUME NEW a \in Action, Supersede(a) PROVE IInv'
    <2>1. /\ req' = [rs EXCEPT ![a].status = "superseded"]
          /\ ~rs[a].consumed
        BY <1>7 DEF Supersede, rs
    <2>2. ASSUME NEW b \in Action PROVE Sound(b)
        <3>1. CASE b # a
            BY <1>r, <2>1, <3>1, ClosedIsSound
        <3>2. CASE b = a
            BY <1>r, <2>1, <3>2 DEF Sound, Started, SameButClosed, IInv, ConsumedIsStarted,
                ApprovedHasQuorum, RequestRecord
        <3> QED BY <3>1, <3>2
    <2> QED BY <1>7, <1>t, <2>2, UnlockedStep DEF Supersede
<1>9. ASSUME NEW x \in Executor, NEW a \in Action, BeginExecute(x, a) PROVE IInv'
    <2>1. \A y \in Executor \ {x} : xpc'[y] = "idle"
        BY <1>9, <1>t, InboxAssumption DEF BeginExecute, Enter, Goto, TypeOK
    <2>2. /\ job'[x] = a
          /\ UNCHANGED gatewayVars
          /\ rs[a].status \in {"approved", "executing"}
        BY <1>9, <1>t DEF BeginExecute, Enter, TypeOK, rs
    <2>3. CASE rs[a].status = "approved"
        <3>1. /\ req' = [rs EXCEPT ![a] = [rs[a] EXCEPT !.status = "executing",
                                                      !.consumed = TRUE]]
              /\ draft' = req'
            BY <1>9, <2>3 DEF BeginExecute, Consumed, rs
        <3>2. /\ req[a].status = "approved"
              /\ req'[a].status = "executing"
              /\ req'[a].consumed = TRUE
              /\ req'[a].approvals = req[a].approvals
            BY <1>r, <2>3, <3>1 DEF RequestRecord, SameButClosed
        <3>3. ASSUME NEW b \in Action PROVE Sound(b)
            <4>1. CASE b # a
                BY <1>r, <3>1, <4>1, ClosedIsSound
            <4>2. CASE b = a
                BY <3>2, <4>2 DEF Sound, Started, IInv, ApprovedHasQuorum
            <4> QED BY <4>1, <4>2
        <3>4. ExecutorsExecute'
            BY <2>1, <2>2, <3>2 DEF ExecutorsExecute
        <3>5. DraftFollowsDisk'
            BY <3>1 DEF DraftFollowsDisk, SameButClosed
        <3> QED BY <1>t, <2>2, <3>3, <3>4, <3>5, SoundRequests DEF IInv
    <2>4. CASE rs[a].status = "executing"
        <3>1. req' = req /\ draft' = rs /\ req[a].status = "executing"
            BY <1>9, <1>r, <2>4 DEF BeginExecute, Consumed, SameButClosed, rs
        <3>2. \A b \in Action : Sound(b)
            BY <3>1, ClosedIsSound DEF SameButClosed
        <3>3. ExecutorsExecute' /\ DraftFollowsDisk'
            BY <1>r, <2>1, <2>2, <3>1 DEF ExecutorsExecute, DraftFollowsDisk
        <3> QED BY <1>t, <2>2, <3>2, <3>3, SoundRequests DEF IInv
    <2> QED BY <2>2, <2>3, <2>4
<1>10. ASSUME NEW x \in Executor, Submit(x) PROVE IInv'
    <2>1. job[x] \in Action /\ req[job[x]].consumed
        BY <1>10, <1>t DEF Submit, TypeOK, IInv, ExecutorsExecute, ConsumedIsStarted, Started
    <2>2. /\ req' = req /\ job' = job /\ draft' = draft /\ performed' = performed
          /\ xpc' = [xpc EXCEPT ![x] = "gateway"] /\ xpc[x] = "submit"
          /\ status' = status \/ status' = [status EXCEPT ![job[x]] = "requested"]
          /\ status' # status => status[job[x]] = "none"
        BY <1>10 DEF Submit, Goto, Gateway!Request
    <2>3. ApprovedHasQuorum' /\ ConsumedIsStarted'
        BY <2>2 DEF IInv, ApprovedHasQuorum, ConsumedIsStarted
    <2>4. RecordIsConsumed' /\ ExecutedIsVerified'
        BY <1>t, <2>1, <2>2 DEF IInv, RecordIsConsumed, ExecutedIsVerified, TypeOK
    <2>5. ExecutorsExecute' /\ DraftFollowsDisk'
        BY <1>t, <2>2 DEF IInv, ExecutorsExecute, DraftFollowsDisk, TypeOK
    <2> QED BY <1>t, <2>3, <2>4, <2>5 DEF IInv
<1>11. ASSUME NEW x \in Executor, GatewayStep(x) PROVE IInv'
    <2>1. job[x] \in Action /\ req[job[x]].status = "executing"
        BY <1>11, <1>t DEF GatewayStep, TypeOK, IInv, ExecutorsExecute
    <2>2. UNCHANGED <<req, executorVars>>
        BY <1>11 DEF GatewayStep
    <2>3. /\ \A a \in Action \ {job[x]} :
                status'[a] = status[a] /\ (a \in performed' <=> a \in performed)
          /\ status[job[x]] # "none" /\ status'[job[x]] # "none"
          /\ performed' \subseteq performed \cup {job[x]}
          /\ job[x] \in performed => job[x] \in performed'
          /\ status'[job[x]] \in {"committed", "verified"} => job[x] \in performed'
        <3> DEFINE a == job[x]
        <3>0. /\ status \in [Action -> {"none", "requested", "attempted", "failed",
                                        "committed", "verified"}]
              /\ status[a] \in {"committed", "verified"} => a \in performed
              /\ a \in Action
            BY <1>t, <2>1 DEF TypeOK, IInv, RecordIsConsumed
        <3>1. CASE Gateway!Attempt(a)
            BY <3>0, <3>1 DEF Gateway!Attempt
        <3>2. CASE Gateway!Perform(a)
            BY <3>0, <3>2 DEF Gateway!Perform
        <3>3. CASE Gateway!ReportFailure(a)
            BY <3>0, <3>3 DEF Gateway!ReportFailure
        <3>4. CASE Gateway!ReportSuccess(a)
            BY <3>0, <3>4 DEF Gateway!ReportSuccess
        <3> QED BY <1>11, <3>1, <3>2, <3>3, <3>4 DEF GatewayStep
    <2>4. ApprovedHasQuorum' /\ ConsumedIsStarted' /\ ExecutorsExecute' /\ DraftFollowsDisk'
        BY <2>2 DEF IInv, ApprovedHasQuorum, ConsumedIsStarted, ExecutorsExecute,
            DraftFollowsDisk, executorVars
    <2>5. RecordIsConsumed'
        <3>1. \A a \in Action : status'[a] # "none" => req'[a].consumed
            BY <2>1, <2>2, <2>3 DEF IInv, RecordIsConsumed
        <3>2. \A a \in performed' : status'[a] # "none"
            BY <1>t, <2>1, <2>3 DEF IInv, RecordIsConsumed, TypeOK
        <3>3. \A a \in Action : status'[a] \in {"committed", "verified"} => a \in performed'
            BY <2>1, <2>3 DEF IInv, RecordIsConsumed
        <3> QED BY <3>1, <3>2, <3>3 DEF RecordIsConsumed
    <2>6. ExecutedIsVerified'
        BY <2>1, <2>2, <2>3 DEF IInv, ExecutedIsVerified
    <2> QED BY <1>t, <2>4, <2>5, <2>6 DEF IInv
<1>12. ASSUME NEW x \in Executor, FinishVerified(x) PROVE IInv'
    <2> DEFINE a == job[x]
    <2>1. /\ xpc[x] # "idle" /\ a \in Action /\ status[a] = "verified"
          /\ req' = [draft EXCEPT ![a].status = "executed"]
          /\ Leave(x) /\ UNCHANGED gatewayVars
        BY <1>12, <1>t DEF FinishVerified, TypeOK
    <2>2. /\ draft \in [Action -> RequestRecord]
          /\ \A b \in Action : SameButClosed(req[b], draft[b])
          /\ req[a].status = "executing"
        BY <1>t, <2>1 DEF IInv, TypeOK, DraftFollowsDisk, ExecutorsExecute
    <2>3. /\ req'[a].status = "executed"
          /\ req'[a].consumed = req[a].consumed
          /\ req'[a].approvals = req[a].approvals
          /\ \A b \in Action \ {a} : SameButClosed(req[b], req'[b])
        BY <2>1, <2>2 DEF RequestRecord, SameButClosed
    <2>4. \A b \in Action \ {a} : Sound(b)
        BY <2>3, ClosedIsSound
    <2>5. ApprovedHasQuorum' /\ ConsumedIsStarted'
        BY <2>1, <2>2, <2>3, <2>4 DEF IInv, ApprovedHasQuorum, ConsumedIsStarted,
            Sound, Started
    <2>6. RecordIsConsumed'
        BY <2>1, <2>3, <2>4 DEF IInv, RecordIsConsumed, gatewayVars, Sound
    <2>7. ExecutedIsVerified'
        BY <2>1, <2>3, <2>4 DEF IInv, RecordIsConsumed, ExecutedIsVerified, gatewayVars, Sound
    <2>8. ExecutorsExecute' /\ DraftFollowsDisk'
        BY <1>t, <2>1, LeaveEmpties, NobodyInside
    <2> QED BY <1>t, <2>5, <2>6, <2>7, <2>8 DEF IInv
<1>13. ASSUME NEW x \in Executor, CatchError(x) PROVE IInv'
    <2> DEFINE a == job[x]
    <2>1. /\ xpc[x] # "idle" /\ a \in Action
          /\ req' = [draft EXCEPT ![a].status = "execution_failed"] \/ req' = req
          /\ Leave(x) /\ UNCHANGED gatewayVars
        BY <1>13, <1>t DEF CatchError, TypeOK
    <2>2. /\ draft \in [Action -> RequestRecord]
          /\ \A b \in Action : SameButClosed(req[b], draft[b])
          /\ req[a].status = "executing"
        BY <1>t, <2>1 DEF IInv, TypeOK, DraftFollowsDisk, ExecutorsExecute
    <2>3. CASE req' = [draft EXCEPT ![a].status = "execution_failed"]
        <3>1. /\ req'[a].status = "execution_failed"
              /\ req'[a].consumed = req[a].consumed
              /\ req'[a].approvals = req[a].approvals
              /\ \A b \in Action \ {a} : SameButClosed(req[b], req'[b])
            BY <2>1, <2>2, <2>3 DEF RequestRecord, SameButClosed
        <3>2. \A b \in Action \ {a} : Sound(b)
            BY <3>1, ClosedIsSound
        <3>3. Sound(a)
            BY <2>1, <2>2, <3>1 DEF IInv, ApprovedHasQuorum, ConsumedIsStarted,
                Sound, Started
        <3> QED BY <3>2, <3>3, <2>1, <1>t, SoundRequests, LeaveEmpties, NobodyInside DEF IInv
    <2>4. CASE req' = req
        <3>1. \A b \in Action : Sound(b)
            BY <2>4, ClosedIsSound DEF SameButClosed
        <3> QED BY <3>1, <2>1, <1>t, SoundRequests, LeaveEmpties, NobodyInside DEF IInv
    <2> QED BY <2>1, <2>3, <2>4
<1>14. ASSUME NEW x \in Executor, ExecutorDies(x) PROVE IInv'
    <2>1. \A b \in Action : Sound(b)
        BY <1>14, ClosedIsSound DEF ExecutorDies, SameButClosed
    <2> QED BY <1>14, <1>t, <2>1, SoundRequests, LeaveEmpties, NobodyInside
            DEF ExecutorDies, IInv
<1> QED
    BY <1>1, <1>2, <1>3, <1>4, <1>5, <1>6, <1>7, <1>9, <1>10, <1>11, <1>12,
       <1>13, <1>14 DEF Next, ExecutorStep

\* Whatever approvers, executors, crashes and the clock do, the inbox and the
\* memory of the process inside execute() keep their form and that process
\* keeps the lock of approvalInbox.ts's store.
THEOREM TypeCorrect == Spec => []TypeOK
<1>1. IInv => TypeOK
    BY DEF IInv
<1> QED BY IInvInit, IInvNext, <1>1, PTL DEF Spec

\* A side effect only happens for an approval by a quorum of distinct people,
\* none of them the actor, that was consumed first and can no longer be edited
\* or revoked; and the inbox calls executed only what the gateway verified.
THEOREM ApprovalsAreHonoured == Spec => [](PerformedWasApproved /\ ExecutedIsVerified)
<1>1. IInv => PerformedWasApproved /\ ExecutedIsVerified
    <2> SUFFICES ASSUME IInv, NEW a \in performed
                 PROVE  /\ Quorum(a)
                        /\ req[a].consumed
                        /\ req[a].status \in {"executing", "executed", "execution_failed"}
        BY DEF PerformedWasApproved, IInv
    <2>1. a \in Action /\ req[a].consumed
        BY DEF IInv, TypeOK, RecordIsConsumed
    <2> QED BY <2>1 DEF IInv, ConsumedIsStarted, ApprovedHasQuorum, Started, Quorum
<1> QED BY IInvInit, IInvNext, <1>1, PTL DEF Spec

\* A gateway step belongs to the request that its executor is executing.
LEMMA InertStep ==
    ASSUME IInv, [Next]_vars, NEW a \in Action, req[a].status # "executing"
    PROVE  status'[a] = status[a] /\ (a \in performed' <=> a \in performed)
<1>1. CASE UNCHANGED gatewayVars
    BY <1>1 DEF gatewayVars
<1>2. ASSUME NEW x \in Executor, Submit(x) \/ GatewayStep(x)
      PROVE  status'[a] = status[a] /\ (a \in performed' <=> a \in performed)
    <2>1. a # job[x] /\ status \in [Action -> {"none", "requested", "attempted", "failed",
                                              "committed", "verified"}]
        BY <1>2 DEF IInv, ExecutorsExecute, TypeOK, Submit, GatewayStep
    <2>2. CASE Submit(x)
        BY <2>1, <2>2 DEF Submit, Gateway!Request
    <2>3. CASE GatewayStep(x)
        BY <2>1, <2>3 DEF GatewayStep, Gateway!Attempt, Gateway!Perform,
            Gateway!ReportFailure, Gateway!ReportSuccess
    <2> QED BY <1>2, <2>2, <2>3
<1>3. \/ UNCHANGED gatewayVars
      \/ \E x \in Executor : Submit(x) \/ GatewayStep(x)
    BY DEF Next, ExecutorStep, Tick, Get, Request, Approve, DecideTerminal, Supersede,
        BeginExecute, FinishVerified, CatchError, ExecutorDies, vars, gatewayVars
<1> QED BY <1>1, <1>2, <1>3

\* Only execute() consumes an approval, after refresh() found it still active.
LEMMA ConsumingStep ==
    ASSUME IInv, [Next]_vars, NEW a \in Action, ~req[a].consumed, req'[a].consumed
    PROVE  clock < ApprovalExpiresAt(a, req[a])
<1>r. /\ Refreshed(clock) \in [Action -> RequestRecord]
      /\ \A b \in Action : SameButClosed(req[b], Refreshed(clock)[b])
      /\ \A b \in Action : Refreshed(clock)[b].status = "approved" =>
                clock < ApprovalExpiresAt(b, req[b])
    BY RefreshedCloses DEF IInv
<1>1. ASSUME NEW x \in Executor, NEW b \in Action, BeginExecute(x, b)
      PROVE  clock < ApprovalExpiresAt(a, req[a])
    <2>1. Refreshed(clock)[b].status = "approved"
          /\ req' = [Refreshed(clock) EXCEPT ![b] =
                        [Refreshed(clock)[b] EXCEPT !.status = "executing", !.consumed = TRUE]]
        BY <1>1 DEF BeginExecute, Consumed
    <2>2. a = b
        BY <1>r, <2>1 DEF SameButClosed
    <2> QED BY <1>r, <2>1, <2>2
<1>2. ASSUME NEW x \in Executor, FinishVerified(x) \/ CatchError(x)
      PROVE  FALSE
    <2>1. /\ xpc[x] # "idle"
          /\ \E s \in RequestStatus : req' = [draft EXCEPT ![job[x]].status = s] \/ req' = req
        BY <1>2 DEF FinishVerified, CatchError, RequestStatus
    <2>2. draft \in [Action -> RequestRecord] /\ draft[a].consumed = req[a].consumed
        BY <2>1 DEF IInv, TypeOK, DraftFollowsDisk, SameButClosed
    <2> QED BY <2>1, <2>2 DEF RequestRecord
<1>3. ASSUME NEW b \in Action, Request(b) PROVE FALSE
    BY <1>3, <1>r DEF Request, NewRequest, SameButClosed
<1>4. ASSUME NEW b \in Action, NEW p \in Identity, Approve(b, p) PROVE FALSE
    BY <1>4, <1>r DEF Approve, SameButClosed, RequestRecord
<1>5. ASSUME NEW b \in Action, NEW v \in {"rejected", "revoked"}, DecideTerminal(b, v)
      PROVE FALSE
    BY <1>5, <1>r DEF DecideTerminal, SameButClosed, RequestRecord
<1>6. ASSUME NEW b \in Action, Supersede(b) PROVE FALSE
    BY <1>6, <1>r DEF Supersede, SameButClosed, RequestRecord
<1>7. CASE Get
    BY <1>7, <1>r DEF Get, SameButClosed
<1>8. req' # req
    OBVIOUS
<1> QED
    BY <1>1, <1>2, <1>3, <1>4, <1>5, <1>6, <1>7, <1>8 DEF Next, ExecutorStep, Tick,
        Submit, GatewayStep, ExecutorDies, vars, executorVars

\* The gateway's record of an action moves only while the consumed approval is
\* on disk: what execute() writes before it calls the gateway.
THEOREM InactiveIsInert == Spec => InactiveRequestsAreInert
<1>1. IInv /\ [Next]_vars =>
        [\A a \in Action : req[a].status # "executing" =>
            status'[a] = status[a] /\ (a \in performed' <=> a \in performed)]_vars
    BY InertStep
<1> QED BY IInvInit, IInvNext, <1>1, PTL DEF Spec, InactiveRequestsAreInert

\* No approval is consumed at or after its expiry, although nothing but the
\* refresh() of some operation ever notices that it expired.
THEOREM ConsumptionIsInTime == Spec => ConsumedInTime
<1>1. IInv /\ [Next]_vars =>
        [\A a \in Action : ~req[a].consumed /\ req'[a].consumed =>
            clock < ApprovalExpiresAt(a, req[a])]_vars
    BY ConsumingStep
<1> QED BY IInvInit, IInvNext, <1>1, PTL DEF Spec, ConsumedInTime
==============================================================================
