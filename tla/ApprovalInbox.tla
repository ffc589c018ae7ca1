---------------------------- MODULE ApprovalInbox ----------------------------
(***************************************************************************)
(* LocalApprovalInbox (src/approvals/approvalInbox.ts): requests for human *)
(* approval, the decisions on them, and the execution of approved actions  *)
(* through the action gateway.  The inbox is one JSON file under one lock. *)
(* Every operation but execute() is a single mutation of it; execute()     *)
(* keeps the lock while the gateway works.  The gateway is present as the  *)
(* specification that it implements, ActionExecution.                      *)
(* Requests are named by their action: a file never holds two requests of  *)
(* one action hash (validateState).                                        *)
(***************************************************************************)
EXTENDS Naturals, FiniteSets

CONSTANTS
    Action,              \* one per action hash
    actionId,            \* of each action; several envelopes may claim one id
    expiresAt,           \* of each action
    required,            \* approvals that the policy asks for each action
    Identity,            \* authenticated approver identities
    principal,           \* the person behind an identity
    independent,         \* the identities that are not the actor of an action
    Executor,            \* processes that call execute()
    ApprovalTtl, EscalationTimeout,   \* of the policy
    VelocityWindow, VelocityLimit,    \* of the policy
    None,
    MaxTime              \* bound: the clock stops here

ASSUME InboxAssumption ==
    /\ expiresAt \in [Action -> Nat]
    /\ required \in [Action -> {1, 2}]
    /\ independent \in [Action -> SUBSET Identity]
    /\ ApprovalTtl \in Nat /\ EscalationTimeout \in Nat /\ MaxTime \in Nat
    /\ VelocityWindow \in Nat /\ VelocityLimit \in Nat
    /\ None \notin Executor \cup Action

VARIABLES
    clock,
    req,        \* the request for each action
    inboxLock,  \* the executor inside execute(), or None
    xpc,        \* where each executor is in execute()
    job,        \* the request it executes
    draft,      \* the requests as execute() holds them in memory
    status, performed,  \* the gateway
    failed      \* the actions whose record holds a failed receipt

Gateway == INSTANCE ActionExecution

gatewayVars == <<status, performed, failed>>
executorVars == <<inboxLock, xpc, job, draft>>
vars == <<clock, req, inboxLock, xpc, job, draft, status, performed, failed>>

NoRequest == [status |-> "none", createdAt |-> 0, approvals |-> {}, consumed |-> FALSE]
NoRequests == [a \in Action |-> NoRequest]
NewRequest(now) ==
    [status |-> "pending", createdAt |-> now, approvals |-> {}, consumed |-> FALSE]

Init ==
    /\ clock = 0
    /\ req = NoRequests
    /\ inboxLock = None
    /\ xpc = [x \in Executor |-> "idle"]
    /\ job = [x \in Executor |-> None]
    /\ draft = NoRequests
    /\ Gateway!ExecInit
    /\ failed = {}
-----------------------------------------------------------------------------
EscalationAt(r) == r.createdAt + EscalationTimeout

\* The earlier of the action's expiry and the end of the policy's time to live.
ApprovalExpiresAt(a, r) ==
    IF expiresAt[a] < r.createdAt + ApprovalTtl THEN expiresAt[a]
    ELSE r.createdAt + ApprovalTtl

TimedOut(r, now) == r.status = "pending" /\ now >= EscalationAt(r)
Expired(a, r, now) ==
    r.status \in {"pending", "approved"} /\ now >= ApprovalExpiresAt(a, r)

\* Faulty variant: an approval outlives its expiry.
RefreshPendingOnly(now) ==
    [a \in Action |->
        IF TimedOut(req[a], now) THEN [req[a] EXCEPT !.status = "timed_out"]
        ELSE req[a]]

\* refresh(), at the start of every operation.
Refreshed(now) ==
    [a \in Action |->
        IF TimedOut(req[a], now) THEN [req[a] EXCEPT !.status = "timed_out"]
        ELSE IF Expired(a, req[a], now) THEN [req[a] EXCEPT !.status = "expired"]
        ELSE req[a]]

\* evaluate(): the other requests of the window leave room for this one.  All
\* actions here have one actor, and the policy does not change.
VelocityAllows(a, rs, now) ==
    Cardinality({b \in Action \ {a} :
        /\ rs[b].status \notin {"none", "superseded"}
        /\ rs[b].createdAt + VelocityWindow >= now}) < VelocityLimit
-----------------------------------------------------------------------------
(***************************************************************************)
(* Operations that are one mutation of the file                            *)
(***************************************************************************)
\* get() and list() save what refresh() changed.
Get ==
    /\ inboxLock = None
    /\ req' = Refreshed(clock)
    /\ UNCHANGED <<clock, executorVars, gatewayVars>>

\* A request that exists and is not superseded is returned as it is.
Request(a) ==
    LET rs == Refreshed(clock)
        r == NewRequest(clock)
    IN  /\ inboxLock = None
        /\ clock < expiresAt[a]
        /\ rs[a].status = "none"
        /\ VelocityAllows(a, rs, clock)
        /\ EscalationAt(r) <= ApprovalExpiresAt(a, r)
        /\ req' = [rs EXCEPT ![a] = r]
        /\ UNCHANGED <<clock, executorVars, gatewayVars>>

\* Faulty variant: only the identity has to be new, not the person behind it.
ApproveByIdentity(a, p) ==
    LET rs == Refreshed(clock)
        approvals == rs[a].approvals \cup {p}
    IN  /\ inboxLock = None
        /\ rs[a].status = "pending"
        /\ p \in independent[a]
        /\ p \notin rs[a].approvals
        /\ req' = [rs EXCEPT ![a] =
                [@ EXCEPT !.approvals = approvals,
                          !.status = IF Cardinality(approvals) >= required[a]
                                     THEN "approved" ELSE "pending"]]
        /\ UNCHANGED <<clock, executorVars, gatewayVars>>

\* The artifact is signed and stored together with the last approval.
Approve(a, p) ==
    LET rs == Refreshed(clock)
        approvals == rs[a].approvals \cup {p}
    IN  /\ inboxLock = None
        /\ rs[a].status = "pending"
        /\ p \in independent[a]
        /\ \A q \in rs[a].approvals : principal[q] # principal[p]
        /\ req' = [rs EXCEPT ![a] =
                [@ EXCEPT !.approvals = approvals,
                          !.status = IF Cardinality(approvals) >= required[a]
                                     THEN "approved" ELSE "pending"]]
        /\ UNCHANGED <<clock, executorVars, gatewayVars>>

\* reject() and revoke() are open to any authenticated approver.
DecideTerminal(a, verdict) ==
    LET rs == Refreshed(clock)
    IN  /\ inboxLock = None
        /\ rs[a].status \in {"pending", "approved"}
        /\ req' = [rs EXCEPT ![a].status = verdict]
        /\ UNCHANGED <<clock, executorVars, gatewayVars>>

\* editAndResubmit() supersedes the request, whatever was decided before, and
\* unlocks the inbox.  What it then requests is an ordinary Request of another
\* action, which may be refused; the link between the two is read by nobody.
Supersede(a) ==
    LET rs == Refreshed(clock)
    IN  /\ inboxLock = None
        /\ rs[a].status \notin {"none", "executing", "executed"}
        /\ ~rs[a].consumed
        /\ req' = [rs EXCEPT ![a].status = "superseded"]
        /\ UNCHANGED <<clock, executorVars, gatewayVars>>
-----------------------------------------------------------------------------
(***************************************************************************)
(* execute()                                                               *)
(***************************************************************************)
Goto(x, label) == xpc' = [xpc EXCEPT ![x] = label]

Enter(x, a) ==
    /\ xpc[x] = "idle" /\ inboxLock = None
    /\ inboxLock' = x
    /\ Goto(x, "submit")
    /\ job' = [job EXCEPT ![x] = a]

Leave(x) ==
    /\ inboxLock' = None
    /\ Goto(x, "idle")
    /\ job' = [job EXCEPT ![x] = None]
    /\ draft' = NoRequests

Consumed(rs, a) ==
    IF rs[a].status = "approved"
    THEN [rs EXCEPT ![a] = [@ EXCEPT !.status = "executing", !.consumed = TRUE]]
    ELSE rs

\* Faulty variant: the consumption is first written with the outcome.
BeginExecuteInMemory(x, a) ==
    LET rs == Refreshed(clock)
    IN  /\ Enter(x, a)
        /\ rs[a].status \in {"approved", "executing"}
        /\ VelocityAllows(a, rs, clock)
        /\ draft' = Consumed(rs, a)
        /\ UNCHANGED <<clock, req, gatewayVars>>

\* The approval is consumed on disk before the gateway hears of it.  A request
\* that a dead executor left executing is taken up where it was; one that is
\* executed is answered with its receipt and nothing changes.
BeginExecute(x, a) ==
    LET rs == Refreshed(clock)
    IN  /\ Enter(x, a)
        /\ rs[a].status \in {"approved", "executing"}
        /\ VelocityAllows(a, rs, clock)
        /\ draft' = Consumed(rs, a)
        /\ req' = IF rs[a].status = "approved" THEN draft' ELSE req
        /\ UNCHANGED <<clock, gatewayVars>>

\* Has the record file of an action another envelope?
Taken(a) ==
    \E b \in Action \ {a} : actionId[b] = actionId[a] /\ status[b] # "none"

\* actionGateway.submit(): a first submission must be within the approval's
\* time, a repeated one finds its record.
Submit(x) ==
    LET a == job[x]
    IN  /\ xpc[x] = "submit"
        /\ ~Taken(a)
        /\ IF status[a] = "none"
           THEN /\ clock < ApprovalExpiresAt(a, req[a])
                /\ Gateway!Request(a)
           ELSE UNCHANGED <<status, performed>>
        /\ Goto(x, "gateway")
        /\ UNCHANGED <<clock, req, inboxLock, job, draft, failed>>

\* actionGateway.execute(), as far as ActionExecution shows it.
GatewayStep(x) ==
    LET a == job[x]
    IN  /\ xpc[x] = "gateway"
        /\ \/ Gateway!Attempt(a) \/ Gateway!Perform(a)
           \/ Gateway!ReportFailure(a) \/ Gateway!ReportSuccess(a)
        /\ failed' = IF status'[a] = "failed" THEN failed \cup {a} ELSE failed
        /\ UNCHANGED <<clock, req, executorVars>>

\* The gateway returned a verified receipt.
FinishVerified(x) ==
    LET a == job[x]
    IN  /\ xpc[x] = "gateway"
        /\ status[a] = "verified"
        /\ req' = [draft EXCEPT ![a].status = "executed"]
        /\ Leave(x)
        /\ UNCHANGED <<clock, gatewayVars>>

\* latestDurableFailedReceipt(): any failed receipt in the file of the id.
FailedReceipt(a) == \E b \in failed : actionId[b] = actionId[a]

\* Faulty variant: the error leaves the lock file behind.
CatchErrorKeepLock(x) ==
    LET a == job[x]
    IN  /\ xpc[x] # "idle"
        /\ req' = IF FailedReceipt(a)
                  THEN [draft EXCEPT ![a].status = "execution_failed"] ELSE req
        /\ Goto(x, "idle")
        /\ job' = [job EXCEPT ![x] = None]
        /\ draft' = NoRequests
        /\ UNCHANGED <<clock, inboxLock, gatewayVars>>

\* submit() or execute() of the gateway throws, or the outcome of a verified
\* action cannot be written.
CatchError(x) ==
    LET a == job[x]
    IN  /\ xpc[x] # "idle"
        /\ req' = IF FailedReceipt(a)
                  THEN [draft EXCEPT ![a].status = "execution_failed"] ELSE req
        /\ Leave(x)
        /\ UNCHANGED <<clock, gatewayVars>>

\* The executor dies, or the inbox cannot be written: the lock is reclaimed.
ExecutorDies(x) ==
    /\ xpc[x] # "idle"
    /\ Leave(x)
    /\ UNCHANGED <<clock, req, gatewayVars>>
-----------------------------------------------------------------------------
Tick ==
    /\ clock < MaxTime
    /\ clock' = clock + 1
    /\ UNCHANGED <<req, executorVars, gatewayVars>>

ExecutorStep(x) ==
    Submit(x) \/ GatewayStep(x) \/ FinishVerified(x) \/ CatchError(x)

Next ==
    \/ Tick
    \/ Get
    \/ \E a \in Action :
          \/ Request(a)
          \/ \E p \in Identity : Approve(a, p)
          \/ \E verdict \in {"rejected", "revoked"} : DecideTerminal(a, verdict)
          \/ Supersede(a)
    \/ \E x \in Executor :
          \/ \E a \in Action : BeginExecute(x, a)
          \/ ExecutorStep(x)
          \/ ExecutorDies(x)

Spec == Init /\ [][Next]_vars

\* An executor inside execute() keeps running until it leaves; nothing else
\* has to happen.
FairSpec == Spec /\ \A x \in Executor : WF_vars(ExecutorStep(x))
-----------------------------------------------------------------------------
(***************************************************************************)
(* Properties                                                              *)
(***************************************************************************)
RequestStatus == {"none", "pending", "approved", "rejected", "revoked", "timed_out",
                  "expired", "executing", "executed", "execution_failed", "superseded"}

RequestRecord == [status : RequestStatus, createdAt : Nat,
                  approvals : SUBSET Identity, consumed : BOOLEAN]

\* The file, and the lock that the executor inside execute() holds.
TypeOK ==
    /\ clock \in 0..MaxTime
    /\ req \in [Action -> RequestRecord]
    /\ draft \in [Action -> RequestRecord]
    /\ inboxLock \in Executor \cup {None}
    /\ xpc \in [Executor -> {"idle", "submit", "gateway"}]
    /\ job \in [Executor -> Action \cup {None}]
    /\ failed \in SUBSET Action
    /\ status \in [Action -> {"none", "requested", "attempted", "failed",
                              "committed", "verified"}]
    /\ performed \in SUBSET Action
    /\ \A x \in Executor : xpc[x] # "idle" => inboxLock = x /\ job[x] \in Action

\* Enough approvals, each by another person than the actor and the others.
Quorum(a) ==
    /\ Cardinality(req[a].approvals) >= required[a]
    /\ req[a].approvals \subseteq independent[a]
    /\ \A p, q \in req[a].approvals : principal[p] = principal[q] => p = q

\* A side effect only ever happened for a request that a quorum of distinct
\* people approved, whose approval was consumed, and which nobody can edit,
\* revoke or let expire any more.
PerformedWasApproved ==
    \A a \in performed :
        /\ Quorum(a)
        /\ req[a].consumed
        /\ req[a].status \in {"executing", "executed", "execution_failed"}

\* The inbox only calls an action executed that the gateway verified.
ExecutedIsVerified ==
    \A a \in Action :
        req[a].status = "executed" => status[a] = "verified" /\ a \in performed

\* The gateway's record of an action moves only while its consumed approval is
\* on disk as executing: what expired, timed out, was decided against or edited
\* is never acted on, and a crash cannot lose the consumption.
InactiveRequestsAreInert ==
    [][\A a \in Action :
          req[a].status # "executing" =>
              status'[a] = status[a] /\ (a \in performed' <=> a \in performed)]_vars

\* An approval is not consumed after it expired: the first execution starts
\* before the approval's end.
ConsumedInTime ==
    [][\A a \in Action :
          ~req[a].consumed /\ req'[a].consumed =>
              clock < ApprovalExpiresAt(a, req[a])]_vars

\* execute() always gives the inbox back to the approvers.
InboxIsReleased ==
    \A x \in Executor : inboxLock = x ~> inboxLock # x

==============================================================================
