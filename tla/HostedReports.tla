---------------------------- MODULE HostedReports ----------------------------
(***************************************************************************)
(* The hosted report pipeline (hosted/src): acceptReport() stores a report *)
(* with its outbox event in one transaction, dispatchOutbox() leases       *)
(* events and publishes them to a queue, the queue delivers them to        *)
(* processReportEvent(), and runCleanup() deletes what is old.             *)
(* A report has one event and at most one receipt, so all three tables are *)
(* indexed by the report.  A database transaction is one step; one that    *)
(* throws writes nothing and is a step only if its caller goes on.         *)
(***************************************************************************)
EXTENDS Clock, Integers, FiniteSets

CONSTANTS
    Report,             \* identifiers of reports, never used twice
    Key, Content,       \* idempotency keys, and what the hash of a request tells apart
    Dispatcher, Worker,
    Message,            \* bound: messages in the queue for one event
    OutboxMaxAttempts, WorkerMaxAttempts,
    OutboxLease, WorkerLease, RetryDelay,
    KeyRetention, ReportRetention, JobRetention,
    ReportQuota,        \* retained reports of an organization
    NoReport, NoContent

ASSUME HostedAssumption ==
    /\ OutboxMaxAttempts \in Nat \ {0} /\ WorkerMaxAttempts \in Nat \ {0}
    /\ OutboxLease \in Nat /\ WorkerLease \in Nat /\ RetryDelay \in Nat
    /\ KeyRetention \in Nat /\ ReportRetention \in Nat
    /\ JobRetention \in Nat /\ ReportQuota \in Nat
    /\ NoReport \notin Report /\ NoContent \notin Content

VARIABLES
    report,         \* app.reports
    outbox,         \* app.outbox_events
    receipt,        \* app.job_receipts
    results,        \* the reports with rows in app.scenario_run_results
    ledger,         \* app.idempotency_ledger
    batch,          \* the events that a dispatcher has claimed, with their attempts
    dpc,            \* where a dispatcher is, and with which of them
    message,        \* deliveries that the queue has left, for each message
    seen,           \* the events whose deduplication id the queue may know
    wpc, job,       \* where a request to a worker is, and what it is about
    dropped,        \* history: reports that lost a delivery, or whose failing was cut off
    contested       \* history: reports that two requests had at once, or that were completed
                    \* by a transaction whose commit was not acknowledged

databaseVars == <<report, outbox, receipt, results, ledger>>
dispatcherVars == <<batch, dpc>>
queueVars == <<message, seen>>
workerVars == <<wpc, job>>
history == <<dropped, contested>>
hostedVars == <<now, databaseVars, dispatcherVars, queueVars, workerVars, history>>

Null == -1      \* a timestamp that is null
NoReceipt ==
    [status |-> "none", attempts |-> 0, leaseExpiresAt |-> Null,
     completedAt |-> Null, failedAt |-> Null]
NoEvent == [report |-> NoReport, attempts |-> 0]
NoJob == [report |-> NoReport, message |-> Null, awaited |-> FALSE, dead |-> FALSE]

HostedInit ==
    /\ now = 0
    /\ report = [r \in Report |->
            [status |-> "none", content |-> NoContent, completedAt |-> Null]]
    /\ outbox = [r \in Report |->
            [status |-> "none", attempts |-> 0, availableAt |-> 0,
             leaseExpiresAt |-> Null, sentAt |-> Null, deadAt |-> Null]]
    /\ receipt = [r \in Report |-> NoReceipt]
    /\ results = {}
    /\ ledger = [k \in Key |-> [report |-> NoReport, expiresAt |-> 0]]
    /\ batch = [d \in Dispatcher |-> {}]
    /\ dpc = [d \in Dispatcher |-> [at |-> "idle", event |-> NoEvent]]
    /\ message = [r \in Report |-> [i \in Message |-> 0]]
    /\ seen = {}
    /\ wpc = [w \in Worker |-> "idle"]
    /\ job = [w \in Worker |-> NoJob]
    /\ dropped = {} /\ contested = {}

Stored(r) == report[r].status # "none"
Queued(r) == outbox[r].status # "none"
-----------------------------------------------------------------------------
(***************************************************************************)
(* acceptReport                                                            *)
(***************************************************************************)
\* unique (project_id, run_id, payload_sha256)
ContentIsNew(c) == \A r \in Report : Stored(r) => report[r].content # c

QuotaAllows == Cardinality({r \in Report : Stored(r)}) < ReportQuota

\* A key that the ledger has is a duplicate or a conflict and writes nothing.
AcceptReport(k, c, r) ==
    /\ ledger[k].report = NoReport
    /\ report[r].content = NoContent
    /\ QuotaAllows /\ ContentIsNew(c)
    /\ ledger' = [ledger EXCEPT ![k] = [report |-> r, expiresAt |-> now + KeyRetention]]
    /\ report' = [report EXCEPT ![r] =
            [status |-> "accepted", content |-> c, completedAt |-> Null]]
    /\ outbox' = [outbox EXCEPT ![r] =
            [status |-> "pending", attempts |-> 0, availableAt |-> now,
             leaseExpiresAt |-> Null, sentAt |-> Null, deadAt |-> Null]]
    /\ UNCHANGED <<now, receipt, results, dispatcherVars, queueVars, workerVars, history>>
-----------------------------------------------------------------------------
(***************************************************************************)
(* dispatchOutbox                                                          *)
(***************************************************************************)
\* Faulty variants: the reports of dead events are left alone, or failed however they are.
FailNone(R) == report
FailAnyStatus(R) ==
    [r \in Report |->
        IF r \in R /\ Stored(r) THEN [report[r] EXCEPT !.status = "failed", !.completedAt = now]
        ELSE report[r]]

\* reports set status = 'failed' ... where status = 'accepted'
FailAccepted(R) ==
    [r \in Report |->
        IF r \in R /\ report[r].status = "accepted"
        THEN [report[r] EXCEPT !.status = "failed", !.completedAt = now]
        ELSE report[r]]

Exhausted ==
    {r \in Report : /\ outbox[r].status \notin {"none", "dead_letter"}
                    /\ outbox[r].sentAt = Null
                    /\ outbox[r].attempts >= OutboxMaxAttempts}

Claimable(r) ==
    /\ outbox[r].sentAt = Null /\ outbox[r].availableAt <= now
    /\ outbox[r].attempts < OutboxMaxAttempts
    /\ \/ outbox[r].status = "pending"
       \/ outbox[r].status = "leased" /\ outbox[r].leaseExpiresAt < now

\* Rows that another transaction has locked are skipped.
ClaimEvents(d, picked) ==
    /\ dpc[d].at = "idle" /\ batch[d] = {}
    /\ picked # {} \/ Exhausted # {}
    /\ \A r \in picked : Claimable(r)
    /\ outbox' = [r \in Report |->
            IF r \in Exhausted THEN
                [outbox[r] EXCEPT !.status = "dead_letter", !.leaseExpiresAt = Null, !.deadAt = now]
            ELSE IF r \in picked THEN
                [outbox[r] EXCEPT !.status = "leased", !.leaseExpiresAt = now + OutboxLease,
                                  !.attempts = outbox[r].attempts + 1]
            ELSE outbox[r]]
    /\ report' = FailAccepted(Exhausted)
    /\ batch' = [batch EXCEPT ![d] =
            {[report |-> r, attempts |-> outbox[r].attempts + 1] : r \in picked}]
    /\ UNCHANGED <<now, receipt, results, ledger, dpc, queueVars, workerVars, history>>

(* The queue, as the client is used: publishJSON() answers, fails, or fails after  *)
(* the queue has taken the message.  A message whose deduplication id the queue    *)
(* still knows is taken and dropped.                                               *)
Take(e) ==
    \/ \E i \in Message :
        /\ message[e.report][i] = 0
        /\ message' = [message EXCEPT ![e.report] = [@ EXCEPT ![i] = WorkerMaxAttempts]]
        /\ seen' = seen \cup {e.report}
    \/ e.report \in seen /\ UNCHANGED <<message, seen>>

Publish(d, e) ==
    /\ dpc[d].at = "idle" /\ e \in batch[d]
    /\ batch' = [batch EXCEPT ![d] = @ \ {e}]
    /\ \/ Take(e) /\ dpc' = [dpc EXCEPT ![d] = [at |-> "published", event |-> e]]
       \/ Take(e) /\ dpc' = [dpc EXCEPT ![d] = [at |-> "failed", event |-> e]]
       \/ /\ dpc' = [dpc EXCEPT ![d] = [at |-> "failed", event |-> e]]
          /\ UNCHANGED <<message, seen>>
    /\ UNCHANGED <<now, databaseVars, workerVars, history>>

Rest(d) == dpc' = [dpc EXCEPT ![d] = [at |-> "idle", event |-> NoEvent]]

\* By the event's id alone: the lease may be another dispatcher's by now, and the
\* row may be gone.
MarkDispatched(d) ==
    LET r == dpc[d].event.report
    IN  /\ dpc[d].at = "published"
        /\ outbox' = IF Queued(r)
                     THEN [outbox EXCEPT ![r] = [outbox[r] EXCEPT
                            !.status = "dispatched", !.sentAt = now, !.leaseExpiresAt = Null]]
                     ELSE outbox
        /\ Rest(d)
        /\ UNCHANGED <<now, report, receipt, results, ledger, batch, queueVars, workerVars, history>>

\* The update that marks the event dispatched fails: the catch block runs.
MarkFails(d) ==
    /\ dpc[d].at = "published"
    /\ dpc' = [dpc EXCEPT ![d].at = "failed"]
    /\ UNCHANGED <<now, databaseVars, batch, queueVars, workerVars, history>>

\* With the attempts that the claim returned.
MarkPending(d) ==
    LET r == dpc[d].event.report
        exhausted == dpc[d].event.attempts >= OutboxMaxAttempts
    IN  /\ dpc[d].at = "failed"
        /\ outbox' = IF ~Queued(r) THEN outbox
                     ELSE [outbox EXCEPT ![r] =
                        IF exhausted
                        THEN [outbox[r] EXCEPT !.status = "dead_letter", !.leaseExpiresAt = Null,
                                               !.deadAt = now]
                        ELSE [outbox[r] EXCEPT !.status = "pending", !.leaseExpiresAt = Null,
                                               !.deadAt = Null, !.availableAt = now + RetryDelay]]
        /\ IF exhausted THEN dpc' = [dpc EXCEPT ![d].at = "exhausted"] ELSE Rest(d)
        /\ UNCHANGED <<now, report, receipt, results, ledger, batch, queueVars, workerVars, history>>

FailExhausted(d) ==
    /\ dpc[d].at = "exhausted"
    /\ report' = FailAccepted({dpc[d].event.report})
    /\ Rest(d)
    /\ UNCHANGED <<now, outbox, receipt, results, ledger, batch, queueVars, workerVars, history>>

\* The process dies, or an update in the catch block throws: the rest of the batch
\* waits for its leases to expire.
DispatcherDies(d) ==
    /\ batch[d] # {} \/ dpc[d].at # "idle"
    /\ batch' = [batch EXCEPT ![d] = {}]
    /\ Rest(d)
    /\ dropped' = IF dpc[d].at = "exhausted" THEN dropped \cup {dpc[d].event.report} ELSE dropped
    /\ UNCHANGED <<now, databaseVars, queueVars, workerVars, contested>>
-----------------------------------------------------------------------------
(***************************************************************************)
(* processReportEvent, called by the queue's deliveries                    *)
(***************************************************************************)
\* flowControl: one delivery of a report at a time, as far as the queue knows.
Deliverable(w, r, i) ==
    /\ wpc[w] = "idle" /\ message[r][i] > 0
    /\ \A v \in Worker : ~(job[v].awaited /\ job[v].report = r)

\* The queue has its answer: a success ends the message, a failure costs a delivery.
Answer(r, i, ok) ==
    message' = [message EXCEPT ![r] =
        [@ EXCEPT ![i] = IF ok THEN 0 ELSE message[r][i] - 1]]
Respond(w, ok) ==
    /\ wpc' = [wpc EXCEPT ![w] = "idle"]
    /\ job' = [job EXCEPT ![w] = NoJob]
    /\ IF job[w].awaited THEN Answer(job[w].report, job[w].message, ok) ELSE UNCHANGED message
    /\ UNCHANGED seen

\* Faulty variant: a job that has ended is claimed again.
ReclaimableEnded(r) ==
    /\ \/ receipt[r].status = "processing" /\ receipt[r].leaseExpiresAt < now
       \/ receipt[r].status \in {"failed", "completed"}
    /\ receipt[r].attempts < WorkerMaxAttempts

Reclaimable(r) ==
    /\ \/ receipt[r].status = "processing" /\ receipt[r].leaseExpiresAt < now
       \/ receipt[r].status = "failed"
    /\ receipt[r].attempts < WorkerMaxAttempts

\* A request has taken a job of the report and not left it.
Busy(w, r) == wpc[w] # "idle" /\ job[w].report = r

\* claimReport() inserts the receipt or takes it over.
ClaimReport(w, r, i) ==
    /\ Deliverable(w, r, i) /\ Queued(r)
    /\ receipt[r].status = "none" \/ Reclaimable(r)
    /\ receipt' = [receipt EXCEPT ![r] =
            [status |-> "processing", attempts |-> receipt[r].attempts + 1,
             leaseExpiresAt |-> now + WorkerLease,
             completedAt |-> receipt[r].completedAt, failedAt |-> Null]]
    /\ report' = IF report[r].status \in {"accepted", "failed"}
                 THEN [report EXCEPT ![r] = [report[r] EXCEPT !.status = "processing"]] ELSE report
    /\ wpc' = [wpc EXCEPT ![w] = "claimed"]
    /\ job' = [job EXCEPT ![w] =
            [report |-> r, message |-> i, awaited |-> TRUE, dead |-> FALSE]]
    /\ contested' = IF \E v \in Worker : Busy(v, r) THEN contested \cup {r} ELSE contested
    /\ UNCHANGED <<now, outbox, results, ledger, dispatcherVars, queueVars, dropped>>

\* A receipt that has ended answers the queue; a failed one without attempts left
\* ends here; an active lease, or an event that is gone, costs a delivery.
ClaimRefused(w, r, i) ==
    /\ Deliverable(w, r, i)
    /\ ~(Queued(r) /\ (receipt[r].status = "none" \/ Reclaimable(r)))
    /\ LET ended == Queued(r) /\ receipt[r].status \in {"completed", "dead_letter"}
           spent == Queued(r) /\ receipt[r].status = "failed"
       IN  /\ receipt' = IF spent THEN [receipt EXCEPT ![r].status = "dead_letter", ![r].failedAt = now]
                         ELSE receipt
           /\ report' = IF spent THEN [report EXCEPT ![r] =
                                        [report[r] EXCEPT !.status = "failed", !.completedAt = now]]
                        ELSE report
           /\ Answer(r, i, ended \/ spent)
           /\ dropped' = IF ended \/ spent THEN dropped ELSE dropped \cup {r}
    /\ UNCHANGED <<now, outbox, results, ledger, dispatcherVars, seen, workerVars, contested>>

\* The request is refused before the claim, does not arrive, or the claim throws:
\* a delivery is spent and nothing written.
DeliveryFails(w, r, i) ==
    /\ Deliverable(w, r, i)
    /\ Answer(r, i, FALSE)
    /\ dropped' = dropped \cup {r}
    /\ UNCHANGED <<now, databaseVars, dispatcherVars, seen, workerVars, contested>>

\* The second transaction evaluates the scenarios and completes the report.
CompleteReport(w) ==
    LET r == job[w].report
    IN  /\ wpc[w] = "claimed" /\ report[r].status = "processing"
        /\ results' = results \cup {r}
        /\ report' = [report EXCEPT ![r] =
                [report[r] EXCEPT !.status = "completed", !.completedAt = now]]
        /\ receipt' = IF receipt[r].status = "none" THEN receipt
                      ELSE [receipt EXCEPT ![r] = [receipt[r] EXCEPT
                                !.status = "completed", !.leaseExpiresAt = Null,
                                !.completedAt = now]]
        /\ UNCHANGED <<now, outbox, ledger, dispatcherVars, dropped>>

Process(w) == CompleteReport(w) /\ Respond(w, TRUE) /\ UNCHANGED contested

\* The connection is lost before the commit is acknowledged: the catch block runs.
ProcessUnacknowledged(w) ==
    /\ CompleteReport(w)
    /\ wpc' = [wpc EXCEPT ![w] = "failed"]
    /\ contested' = contested \cup {job[w].report}
    /\ UNCHANGED <<queueVars, job>>

\* report_not_processable, or a row that a constraint refuses, is not retryable.
ProcessFails(w) ==
    /\ wpc[w] = "claimed"
    /\ wpc' = [wpc EXCEPT ![w] = "rejected"] \/ wpc' = [wpc EXCEPT ![w] = "failed"]
    /\ UNCHANGED <<now, databaseVars, dispatcherVars, queueVars, job, history>>

\* receiptAttempts(), before the transaction that records the failure.
ReadAttempts(w) ==
    /\ wpc[w] \in {"rejected", "failed"}
    /\ LET attempts == IF receipt[job[w].report].status = "none" THEN 1
                       ELSE receipt[job[w].report].attempts
       IN  job' = [job EXCEPT ![w].dead = wpc[w] = "rejected" \/ attempts >= WorkerMaxAttempts]
    /\ wpc' = [wpc EXCEPT ![w] = "recording"]
    /\ UNCHANGED <<now, databaseVars, dispatcherVars, queueVars, history>>

\* By identifiers alone, whoever holds the lease.
RecordFailure(w) ==
    LET r == job[w].report
        dead == job[w].dead
    IN  /\ wpc[w] = "recording"
        /\ report' = IF ~Stored(r) THEN report
                     ELSE [report EXCEPT ![r] = [report[r] EXCEPT
                            !.status = IF dead THEN "failed" ELSE "accepted",
                            !.completedAt = IF dead THEN now ELSE Null]]
        /\ receipt' = IF receipt[r].status = "none" THEN receipt
                      ELSE [receipt EXCEPT ![r] = [receipt[r] EXCEPT
                            !.status = IF dead THEN "dead_letter" ELSE "failed",
                            !.leaseExpiresAt = Null, !.failedAt = now]]
        /\ Respond(w, dead)
        /\ UNCHANGED <<now, outbox, results, ledger, dispatcherVars, history>>

\* The process dies, or the transaction that records the failure throws.
WorkerDies(w) ==
    /\ wpc[w] # "idle"
    /\ Respond(w, FALSE)
    /\ dropped' = dropped \cup {job[w].report}
    /\ UNCHANGED <<now, databaseVars, dispatcherVars, contested>>

\* The queue stops waiting for an answer that is slow or lost; the request goes on.
QueueTimesOut(w) ==
    /\ job[w].awaited
    /\ Answer(job[w].report, job[w].message, FALSE)
    /\ job' = [job EXCEPT ![w].awaited = FALSE]
    /\ dropped' = dropped \cup {job[w].report}
    /\ UNCHANGED <<now, databaseVars, dispatcherVars, seen, wpc, contested>>
-----------------------------------------------------------------------------
(***************************************************************************)
(* runCleanup                                                              *)
(***************************************************************************)
Old(instant, retention) == instant # Null /\ instant + retention < now

\* Faulty variant: reports are deleted while an idempotency key answers with them.
OldReportAnyKey(r) ==
    report[r].status \in {"completed", "failed"} /\ Old(report[r].completedAt, ReportRetention)

OldReport(r) ==
    /\ report[r].status \in {"completed", "failed"} /\ Old(report[r].completedAt, ReportRetention)
    /\ \A k \in Key : ledger[k].report = r => ledger[k].expiresAt < now

OldEvent(r) ==
    Old(IF outbox[r].sentAt # Null THEN outbox[r].sentAt ELSE outbox[r].deadAt, JobRetention)
OldReceipt(r) ==
    Old(IF receipt[r].completedAt # Null THEN receipt[r].completedAt ELSE receipt[r].failedAt,
        JobRetention)

\* Assumption: the retries of an event, a message and a job are over long before the
\* 30 days are: OUTBOX_MAX_ATTEMPTS is at most 100, five minutes apart.
InFlight(r) ==
    \/ \E i \in Message : message[r][i] > 0
    \/ \E w \in Worker : job[w].report = r
    \/ \E d \in Dispatcher : dpc[d].event.report = r \/ \E e \in batch[d] : e.report = r
    \/ outbox[r].status \in {"pending", "leased"} /\ outbox[r].sentAt = Null

\* Deleting a report deletes its event and results, an event its receipt.
Cleanup ==
    LET gone == {r \in Report : OldReport(r)}
        sent == gone \cup {r \in Report : OldEvent(r)}
        done == sent \cup {r \in Report : OldReceipt(r)}
    IN  /\ \A r \in done : OldReport(r) \/ ~InFlight(r)
        /\ ledger' = [k \in Key |->
                IF ledger[k].report # NoReport /\ ledger[k].expiresAt < now
                THEN [report |-> NoReport, expiresAt |-> 0] ELSE ledger[k]]
        /\ report' = [r \in Report |->
                IF r \in gone THEN [report[r] EXCEPT !.status = "none"] ELSE report[r]]
        /\ outbox' = [r \in Report |->
                IF r \in sent THEN [outbox[r] EXCEPT !.status = "none"] ELSE outbox[r]]
        /\ receipt' = [r \in Report |-> IF r \in done THEN NoReceipt ELSE receipt[r]]
        /\ results' = results \ gone
        /\ UNCHANGED <<now, dispatcherVars, queueVars, workerVars, history>>

HostedTick == Tick /\ UNCHANGED <<databaseVars, dispatcherVars, queueVars, workerVars, history>>

Dispatch(d) ==
    \/ \E picked \in SUBSET Report : ClaimEvents(d, picked)
    \/ \E e \in batch[d] : Publish(d, e)
    \/ MarkDispatched(d) \/ MarkFails(d) \/ MarkPending(d) \/ FailExhausted(d)

Work(w) ==
    \/ \E r \in Report, i \in Message : ClaimReport(w, r, i) \/ ClaimRefused(w, r, i)
    \/ Process(w) \/ ProcessUnacknowledged(w) \/ ProcessFails(w) \/ ReadAttempts(w) \/ RecordFailure(w)

HostedNext ==
    \/ HostedTick \/ Cleanup
    \/ \E k \in Key, c \in Content, r \in Report : AcceptReport(k, c, r)
    \/ \E d \in Dispatcher : Dispatch(d) \/ DispatcherDies(d)
    \/ \E w \in Worker : Work(w) \/ WorkerDies(w) \/ QueueTimesOut(w)
    \/ \E w \in Worker, r \in Report, i \in Message : DeliveryFails(w, r, i)

\* The dispatcher polls every 250 ms, and the queue goes on delivering;
\* nothing is assumed of the API's callers, of those who are cut off, or of cleanup.
HostedFairness ==
    /\ WF_hostedVars(HostedTick)
    /\ \A d \in Dispatcher : WF_hostedVars(Dispatch(d))
    /\ \A w \in Worker : WF_hostedVars(Work(w))

HostedSpec == HostedInit /\ [][HostedNext]_hostedVars /\ HostedFairness
-----------------------------------------------------------------------------
\* A key in the idempotency ledger answers for its report as long as it is there,
\* whatever is cleaned up meanwhile, and no two stored reports have one content.
LedgerAnswers ==
    /\ \A k \in Key : ledger[k].report # NoReport => Stored(ledger[k].report)
    /\ \A q, r \in Report : Stored(q) /\ Stored(r) /\ report[q].content = report[r].content => q = r

\* What the API shows of a report agrees with the receipt of its job, also when
\* workers that lost their lease write late: a job that ended well has completed
\* its report and stored results, one that is given up has failed it, and neither
\* an event nor a job is tried more often than allowed.
ReceiptsAgree ==
    \A r \in Report : Stored(r) =>
        /\ receipt[r].status = "completed" => report[r].status = "completed" /\ r \in results
        /\ receipt[r].status = "dead_letter" => report[r].status = "failed"
        /\ receipt[r].attempts <= WorkerMaxAttempts /\ outbox[r].attempts <= OutboxMaxAttempts

Unsettled(r) == report[r].status \in {"accepted", "processing"}

\* A delivery of the report was spent on no attempt, or its dispatcher died before
\* failing it, and there is nobody left who would come back to it.
Stranded(r) ==
    /\ r \in dropped /\ \A w \in Worker : ~Busy(w, r)
    /\ \A i \in Message : message[r][i] = 0

\* What would come next is due after the model's time.
Late(r) ==
    \/ outbox[r].status = "pending" /\ outbox[r].availableAt > MaxTime
    \/ /\ outbox[r].status = "leased" /\ outbox[r].leaseExpiresAt >= MaxTime
       /\ \A d \in Dispatcher : dpc[d].event.report # r /\ \A e \in batch[d] : e.report # r

\* Every report comes to its end, whichever publications are lost or doubled, and
\* also when dispatchers die and leave their leases behind.  It can stay open only if
\* the queue spent a delivery of it on no attempt (refused, failed, cut off or not
\* waited for) and has none left, or a dispatcher died before failing it.
EveryReportSettles ==
    \A r \in Report : Unsettled(r) ~> (~Unsettled(r) \/ Stranded(r) \/ Late(r))

\* A report that is completed stays so until cleanup, whoever dies, whichever answers
\* are lost and however long the queue waits, as long as one request at a time had it
\* and saw its commit.  (With two at once it does not: StaleLeaseIsSafe.)
CompletedStays ==
    [][\A r \in Report : report[r].status = "completed" /\ r \notin contested =>
        report'[r].status \in {"completed", "none"}]_hostedVars


==============================================================================
