------------------------- MODULE HostedReportsProofs -------------------------
(***************************************************************************)
(* The hosted pipeline, for any number of reports, dispatchers and         *)
(* workers: the idempotency ledger answers for reports that are stored,    *)
(* receipts agree with reports, and a completed report stays completed     *)
(* unless a process is cut off, whatever is lost, repeated and cleaned up. *)
(***************************************************************************)
EXTENDS HostedReports, TLAPS

\* A row of app.reports.
ReportRow ==
    [status : {"none", "accepted", "processing", "completed", "failed"},
     content : Content \cup {NoContent}, completedAt : Nat \cup {Null}]

\* The rows of the reports.
ReportRows ==
    now \in Nat /\ report \in [Report -> ReportRow] /\ outbox = [r \in Report |-> outbox[r]]

\* An event is deleted with its report at the latest.
EventsHaveReports == \A r \in Report : Queued(r) => Stored(r)

\* The rows of the idempotency ledger.
LedgerKeys == ledger \in [Key -> [report : Report \cup {NoReport}, expiresAt : Nat]]

\* The inductive invariant of the ledger.
LedgerInv == ReportRows /\ LedgerKeys /\ EventsHaveReports /\ LedgerAnswers

\* What every step but acceptReport() and runCleanup() leaves alone: which reports are
\* stored, with which content, and what the ledger answers.
SameReports ==
    /\ report' \in [Report -> ReportRow]
    /\ \A r \in Report : (report'[r].status # "none" <=> report[r].status # "none")
                         /\ report'[r].content = report[r].content
    /\ \A r \in Report : outbox'[r].status # "none" => outbox[r].status # "none"
    /\ outbox' = [r \in Report |-> outbox'[r]]
    /\ ledger' = ledger
    /\ now' \in Nat
-----------------------------------------------------------------------------
\* The statuses of a report.
Status == {"none", "accepted", "processing", "completed", "failed"}

\* The updates of a report row.
WithStatus(row, s) == [row EXCEPT !.status = s]
Ended(row, s, t) == [row EXCEPT !.status = s, !.completedAt = t]

\* An update of the status keeps the row and its content ...
LEMMA UpdateStatus ==
    ASSUME NEW row \in ReportRow, NEW s \in Status
    PROVE  /\ WithStatus(row, s) \in ReportRow
           /\ WithStatus(row, s).status = s /\ WithStatus(row, s).content = row.content
BY DEF ReportRow, Status, WithStatus

\* ... and so does one that ends the report, or takes its end back.
LEMMA UpdateCompleted ==
    ASSUME NEW row \in ReportRow, NEW s \in Status, NEW t \in Nat \cup {Null}
    PROVE  /\ Ended(row, s, t) \in ReportRow
           /\ Ended(row, s, t).status = s /\ Ended(row, s, t).content = row.content
BY DEF ReportRow, Status, Ended

\* A step that leaves them alone preserves the invariant.
LEMMA SameReportsKeep == LedgerInv /\ SameReports => LedgerInv'
<1> SUFFICES ASSUME LedgerInv, SameReports PROVE LedgerInv'
    OBVIOUS
<1>1. ReportRows' /\ LedgerKeys' /\ EventsHaveReports'
    BY DEF LedgerInv, SameReports, ReportRows, LedgerKeys, EventsHaveReports, Queued, Stored
<1>2. LedgerAnswers'
    <2>1. \A k \in Key : ledger[k].report # NoReport => ledger[k].report \in Report
        BY DEF LedgerInv, LedgerKeys
    <2> QED BY <2>1 DEF LedgerInv, SameReports, LedgerAnswers, Stored
<1> QED BY <1>1, <1>2 DEF LedgerInv

\* reports set status = 'failed' keeps the rows.
LEMMA FailAcceptedRows ==
    ASSUME ReportRows, NEW R
    PROVE  /\ FailAccepted(R) \in [Report -> ReportRow]
           /\ \A r \in Report : /\ FailAccepted(R)[r].status # "none" <=> report[r].status # "none"
                                /\ FailAccepted(R)[r].content = report[r].content
<1> SUFFICES ASSUME NEW r \in Report
             PROVE  /\ FailAccepted(R)[r] \in ReportRow
                    /\ FailAccepted(R)[r].status # "none" <=> report[r].status # "none"
                    /\ FailAccepted(R)[r].content = report[r].content
    BY DEF FailAccepted
<1>1. CASE r \in R /\ report[r].status = "accepted"
  <2>1. FailAccepted(R)[r] = Ended(report[r], "failed", now)
    BY <1>1 DEF FailAccepted, Ended
  <2>2. report[r] \in ReportRow /\ now \in Nat
    BY DEF ReportRows
  <2>3. now \in Nat \cup {Null} /\ "failed" \in Status
    BY <2>2 DEF Status
  <2>4. /\ FailAccepted(R)[r] \in ReportRow /\ FailAccepted(R)[r].status = "failed"
        /\ FailAccepted(R)[r].content = report[r].content
    BY <2>1, <2>2, <2>3, UpdateCompleted
  <2> QED BY <1>1, <2>4
<1>2. CASE ~(r \in R /\ report[r].status = "accepted")
    BY <1>2 DEF FailAccepted, ReportRows
<1> QED BY <1>1, <1>2

\* No report is stored at first.
LEMMA LedgerInvInit == HostedInit => LedgerInv
BY DEF HostedInit, LedgerInv, ReportRows, ReportRow, LedgerKeys, EventsHaveReports, LedgerAnswers,
       Queued, Stored

\* acceptReport() stores report, event and key together, and only a new content.
LEMMA AcceptKeeps ==
    ASSUME LedgerInv, NEW k \in Key, NEW c \in Content, NEW r \in Report, AcceptReport(k, c, r)
    PROVE  LedgerInv'
<1>1. /\ report' = [report EXCEPT ![r] = [status |-> "accepted", content |-> c, completedAt |-> Null]]
      /\ ledger' = [ledger EXCEPT ![k] = [report |-> r, expiresAt |-> now + KeyRetention]]
      /\ now' = now /\ \A s \in Report : s # r => outbox'[s] = outbox[s]
      /\ ledger[k].report = NoReport
      /\ \A s \in Report : Stored(s) => report[s].content # c
    BY DEF AcceptReport, ContentIsNew, LedgerInv
<1>2. ReportRows'
  <2>1. outbox' = [s \in Report |-> outbox'[s]]
    BY DEF AcceptReport, LedgerInv, ReportRows
  <2>2. [status |-> "accepted", content |-> c, completedAt |-> Null] \in ReportRow
    BY DEF ReportRow
  <2>3. report' \in [Report -> ReportRow] /\ now' \in Nat
    BY <1>1, <2>2 DEF LedgerInv, ReportRows
  <2> QED BY <2>1, <2>3 DEF ReportRows
<1>3. LedgerKeys'
    BY <1>1, HostedAssumption DEF LedgerInv, LedgerKeys, ReportRows
<1>4. EventsHaveReports'
    BY <1>1 DEF LedgerInv, EventsHaveReports, ReportRows, Queued, Stored
<1>5. LedgerAnswers'
    BY <1>1, HostedAssumption DEF LedgerInv, LedgerKeys, LedgerAnswers, ReportRows, Stored
<1> QED BY <1>2, <1>3, <1>4, <1>5 DEF LedgerInv

\* runCleanup() keeps a report until the keys that answer with it have expired, and
\* deletes those keys in the same transaction.
LEMMA CleanupKeeps == LedgerInv /\ Cleanup => LedgerInv'
<1> SUFFICES ASSUME LedgerInv, Cleanup PROVE LedgerInv'
    OBVIOUS
<1> DEFINE gone == {r \in Report : OldReport(r)}
<1>1. /\ report' = [r \in Report |->
                IF r \in gone THEN [report[r] EXCEPT !.status = "none"] ELSE report[r]]
      /\ ledger' = [k \in Key |->
                IF ledger[k].report # NoReport /\ ledger[k].expiresAt < now
                THEN [report |-> NoReport, expiresAt |-> 0] ELSE ledger[k]]
      /\ now' = now
    BY DEF Cleanup
<1>2. \A r \in Report : outbox'[r].status # "none" => outbox[r].status # "none" /\ r \notin gone
  <2> TAKE r \in Report
  <2>1. CASE r \in gone \/ OldEvent(r)
    <3>1. outbox'[r] = [outbox[r] EXCEPT !.status = "none"]
      BY <2>1 DEF Cleanup
    <3> QED BY <3>1 DEF Cleanup
  <2>2. CASE ~(r \in gone \/ OldEvent(r))
    BY <2>2 DEF Cleanup
  <2> QED BY <2>1, <2>2
<1>3. ASSUME NEW r \in Report
      PROVE  /\ report'[r] \in ReportRow
             /\ report'[r].status # "none" <=> report[r].status # "none" /\ r \notin gone
             /\ report'[r].content = report[r].content
  <2>1. CASE r \in gone
    <3>1. report'[r] = WithStatus(report[r], "none") /\ report[r] \in ReportRow
      BY <1>1, <2>1 DEF LedgerInv, ReportRows, WithStatus
    <3>2. /\ report'[r] \in ReportRow /\ report'[r].status = "none"
          /\ report'[r].content = report[r].content
      <4>1. "none" \in Status
        BY DEF Status
      <4> QED BY <3>1, <4>1, UpdateStatus
    <3> QED BY <2>1, <3>2
  <2>2. CASE r \notin gone
    BY <1>1, <2>2 DEF LedgerInv, ReportRows
  <2> QED BY <2>1, <2>2
<1>4. ReportRows'
  <2>1. outbox' = [r \in Report |-> outbox'[r]]
    BY DEF Cleanup
  <2>2. report' \in [Report -> ReportRow] /\ now' \in Nat
    BY <1>1, <1>3 DEF LedgerInv, ReportRows
  <2> QED BY <2>1, <2>2 DEF ReportRows
<1>5. LedgerKeys'
    BY <1>1 DEF LedgerInv, LedgerKeys
<1>6. EventsHaveReports'
    BY <1>2, <1>3 DEF LedgerInv, EventsHaveReports, Queued, Stored
<1>7. ASSUME NEW k \in Key, ledger'[k].report # NoReport
      PROVE  /\ ledger[k].report \in Report /\ ledger[k].report # NoReport
             /\ ledger'[k] = ledger[k] /\ ledger[k].report \notin gone
    BY <1>1, <1>7 DEF LedgerInv, LedgerKeys, OldReport
<1>8. LedgerAnswers'
    BY <1>3, <1>7 DEF LedgerInv, LedgerAnswers, Stored
<1> QED BY <1>4, <1>5, <1>6, <1>8 DEF LedgerInv

\* An update of one row, if there is such a row.
LEMMA RowsAfter ==
    ASSUME ReportRows, NEW r, NEW row,
           r \in Report => /\ row \in ReportRow
                           /\ row.status # "none" <=> report[r].status # "none"
                           /\ row.content = report[r].content,
           report' = [report EXCEPT ![r] = row]
    PROVE  /\ report' \in [Report -> ReportRow]
           /\ \A s \in Report : (report'[s].status # "none" <=> report[s].status # "none")
                                /\ report'[s].content = report[s].content
<1>1. ASSUME NEW s \in Report
      PROVE  /\ report'[s] \in ReportRow
             /\ report'[s].status # "none" <=> report[s].status # "none"
             /\ report'[s].content = report[s].content
  <2>1. CASE s = r
    <3>1. report'[s] = row
      BY <2>1 DEF ReportRows
    <3> QED BY <2>1, <3>1
  <2>2. CASE s # r
    <3>1. report'[s] = report[s] /\ report[s] \in ReportRow
      BY <2>2 DEF ReportRows
    <3> QED BY <3>1
  <2> QED BY <2>1, <2>2
<1>2. report' = [s \in Report |-> report'[s]]
    BY DEF ReportRows
<1> QED BY <1>1, <1>2

\* Steps that change no table but perhaps the receipts.
LEMMA QuietSteps ==
    ASSUME LedgerInv, report' = report, outbox' = outbox, ledger' = ledger, now' \in Nat
    PROVE  SameReports
BY DEF LedgerInv, ReportRows, SameReports

\* dispatchOutbox()
LEMMA DispatchSame ==
    ASSUME LedgerInv, NEW d \in Dispatcher, Dispatch(d)
    PROVE  SameReports
<1>0. ReportRows /\ now \in Nat /\ EventsHaveReports
    BY DEF LedgerInv, ReportRows
<1>1. ASSUME NEW picked \in SUBSET Report, ClaimEvents(d, picked) PROVE SameReports
  <2>1. /\ report' \in [Report -> ReportRow]
        /\ \A r \in Report : (report'[r].status # "none" <=> report[r].status # "none")
                             /\ report'[r].content = report[r].content
    BY <1>0, <1>1, FailAcceptedRows DEF ClaimEvents
  <2>2. \A r \in Report : outbox'[r].status # "none" => outbox[r].status # "none"
    BY <1>1 DEF ClaimEvents, Exhausted, Claimable
  <2>3. outbox' = [r \in Report |-> outbox'[r]] /\ ledger' = ledger /\ now' \in Nat
    BY <1>0, <1>1 DEF ClaimEvents
  <2> QED BY <2>1, <2>2, <2>3 DEF SameReports
<1>2. ASSUME NEW e \in batch[d], Publish(d, e) PROVE SameReports
    BY <1>0, <1>2, QuietSteps DEF Publish, databaseVars
<1>3. CASE MarkDispatched(d) \/ MarkPending(d)
  <2>1. report' = report /\ ledger' = ledger /\ now' \in Nat
    BY <1>0, <1>3 DEF MarkDispatched, MarkPending
  <2>2. \A r \in Report : outbox'[r].status # "none" => outbox[r].status # "none"
    BY <1>0, <1>3 DEF MarkDispatched, MarkPending, Queued, ReportRows
  <2>3. outbox' = [r \in Report |-> outbox'[r]]
    BY <1>0, <1>3 DEF MarkDispatched, MarkPending, ReportRows
  <2> QED BY <1>0, <2>1, <2>2, <2>3 DEF SameReports, ReportRows
<1>4. CASE MarkFails(d)
    BY <1>0, <1>4, QuietSteps DEF MarkFails, databaseVars
<1>5. CASE FailExhausted(d)
  <2>1. /\ report' \in [Report -> ReportRow]
        /\ \A r \in Report : (report'[r].status # "none" <=> report[r].status # "none")
                             /\ report'[r].content = report[r].content
    BY <1>0, <1>5, FailAcceptedRows DEF FailExhausted
  <2> QED BY <1>0, <1>5, <2>1 DEF FailExhausted, SameReports, ReportRows
<1> QED BY <1>1, <1>2, <1>3, <1>4, <1>5, Zenon DEF Dispatch

\* processReportEvent()
LEMMA WorkSame ==
    ASSUME LedgerInv, NEW w \in Worker, Work(w)
    PROVE  SameReports
<1>0. ReportRows /\ now \in Nat /\ EventsHaveReports
    BY DEF LedgerInv, ReportRows
<1>a. Status = {"none", "accepted", "processing", "completed", "failed"} /\ now \in Nat \cup {Null}
    BY <1>0 DEF Status
<1>s. ASSUME NEW r, NEW row, report' = [report EXCEPT ![r] = row],
             r \in Report => row \in ReportRow /\ row.content = report[r].content
                            /\ row.status # "none" /\ report[r].status # "none",
             outbox' = outbox, ledger' = ledger, now' = now
      PROVE  SameReports
  <2>1. /\ report' \in [Report -> ReportRow]
        /\ \A s \in Report : (report'[s].status # "none" <=> report[s].status # "none")
                             /\ report'[s].content = report[s].content
    BY <1>0, <1>s, RowsAfter
  <2> QED BY <1>0, <1>s, <2>1 DEF SameReports, ReportRows
<1>1. ASSUME NEW r \in Report, NEW i \in Message, ClaimReport(w, r, i) PROVE SameReports
  <2>1. CASE report[r].status \in {"accepted", "failed"}
    <3>1. report' = [report EXCEPT ![r] = WithStatus(report[r], "processing")]
      BY <1>1, <2>1 DEF ClaimReport, WithStatus
    <3>2. /\ WithStatus(report[r], "processing") \in ReportRow
          /\ WithStatus(report[r], "processing").status = "processing"
          /\ WithStatus(report[r], "processing").content = report[r].content
      BY <1>0, <1>a, UpdateStatus DEF ReportRows
    <3>3. outbox' = outbox /\ ledger' = ledger /\ now' = now
      BY <1>1 DEF ClaimReport
    <3> QED BY <1>s, <2>1, <3>1, <3>2, <3>3
  <2>2. CASE report[r].status \notin {"accepted", "failed"}
    BY <1>0, <1>1, <2>2, QuietSteps DEF ClaimReport
  <2> QED BY <2>1, <2>2
<1>2. ASSUME NEW r \in Report, NEW i \in Message, ClaimRefused(w, r, i) PROVE SameReports
  <2>1. CASE Queued(r) /\ receipt[r].status = "failed"
    <3>1. report' = [report EXCEPT ![r] = Ended(report[r], "failed", now)]
      BY <1>2, <2>1 DEF ClaimRefused, Ended
    <3>2. /\ Ended(report[r], "failed", now) \in ReportRow
          /\ Ended(report[r], "failed", now).status = "failed"
          /\ Ended(report[r], "failed", now).content = report[r].content
      <4>1. "failed" \in Status /\ now \in Nat \cup {Null} /\ report[r] \in ReportRow
        BY <1>0, <1>a DEF ReportRows
      <4> QED BY <4>1, UpdateCompleted
    <3>3. outbox' = outbox /\ ledger' = ledger /\ now' = now /\ report[r].status # "none"
      BY <1>0, <1>2, <2>1 DEF ClaimRefused, EventsHaveReports, Stored
    <3> QED BY <1>s, <3>1, <3>2, <3>3
  <2>2. CASE ~(Queued(r) /\ receipt[r].status = "failed")
    BY <1>0, <1>2, <2>2, QuietSteps DEF ClaimRefused
  <2> QED BY <2>1, <2>2
<1>3. CASE Process(w) \/ ProcessUnacknowledged(w)
  <2> DEFINE r == job[w].report
  <2>1. /\ report' = [report EXCEPT ![r] = Ended(report[r], "completed", now)]
        /\ report[r].status = "processing" /\ outbox' = outbox /\ ledger' = ledger /\ now' = now
    BY <1>3 DEF Process, ProcessUnacknowledged, CompleteReport, Ended
  <2> HIDE DEF r
  <2>2. r \in Report => /\ Ended(report[r], "completed", now) \in ReportRow
                        /\ Ended(report[r], "completed", now).status = "completed"
                        /\ Ended(report[r], "completed", now).content = report[r].content
    <3>1. /\ "completed" \in Status /\ now \in Nat \cup {Null}
          /\ r \in Report => report[r] \in ReportRow
      BY <1>0, <1>a DEF ReportRows
    <3> QED BY <3>1, UpdateCompleted
  <2> QED BY <1>s, <2>1, <2>2
<1>4. CASE ProcessFails(w) \/ ReadAttempts(w)
    BY <1>0, <1>4, QuietSteps DEF ProcessFails, ReadAttempts, databaseVars
<1>5. CASE RecordFailure(w)
  <2> DEFINE r == job[w].report
             status == IF job[w].dead THEN "failed" ELSE "accepted"
             time == IF job[w].dead THEN now ELSE Null
  <2>1. outbox' = outbox /\ ledger' = ledger /\ now' = now
    BY <1>5 DEF RecordFailure
  <2>2. CASE report[r].status = "none"
    BY <1>0, <1>5, <2>1, <2>2, QuietSteps DEF RecordFailure, Stored
  <2>3. CASE report[r].status # "none"
    <3>1. report' = [report EXCEPT ![r] = Ended(report[r], status, time)]
      BY <1>5, <2>3 DEF RecordFailure, Stored, Ended
    <3>2. status \in Status /\ status # "none" /\ time \in Nat \cup {Null}
      BY <1>0 DEF Status
    <3> HIDE DEF r, status, time
    <3>3. r \in Report => /\ Ended(report[r], status, time) \in ReportRow
                          /\ Ended(report[r], status, time).status = status
                          /\ Ended(report[r], status, time).content = report[r].content
      BY <1>0, <3>2, UpdateCompleted DEF ReportRows
    <3> QED BY <1>s, <2>1, <2>3, <3>1, <3>2, <3>3
  <2> QED BY <2>2, <2>3
<1> QED BY <1>1, <1>2, <1>3, <1>4, <1>5, Zenon DEF Work

\* Every step of the pipeline preserves the invariant.
LEMMA LedgerInvStep == LedgerInv /\ [HostedNext]_hostedVars => LedgerInv'
<1> SUFFICES ASSUME LedgerInv, [HostedNext]_hostedVars PROVE LedgerInv'
    OBVIOUS
<1>0. now \in Nat
    BY DEF LedgerInv, ReportRows
<1>1. ASSUME NEW k \in Key, NEW c \in Content, NEW r \in Report, AcceptReport(k, c, r)
      PROVE  LedgerInv'
    BY <1>1, AcceptKeeps
<1>2. CASE Cleanup
    BY <1>2, CleanupKeeps
<1>3. CASE HostedTick
    BY <1>0, <1>3, QuietSteps, SameReportsKeep DEF HostedTick, Tick, databaseVars
<1>4. ASSUME NEW d \in Dispatcher, Dispatch(d) PROVE LedgerInv'
    BY <1>4, DispatchSame, SameReportsKeep
<1>5. ASSUME NEW d \in Dispatcher, DispatcherDies(d) PROVE LedgerInv'
    BY <1>0, <1>5, QuietSteps, SameReportsKeep DEF DispatcherDies, databaseVars
<1>6. ASSUME NEW w \in Worker, Work(w) PROVE LedgerInv'
    BY <1>6, WorkSame, SameReportsKeep
<1>7. ASSUME NEW w \in Worker, WorkerDies(w) \/ QueueTimesOut(w) PROVE LedgerInv'
    BY <1>0, <1>7, QuietSteps, SameReportsKeep DEF WorkerDies, QueueTimesOut, databaseVars
<1>8. CASE UNCHANGED hostedVars
    BY <1>0, <1>8, QuietSteps, SameReportsKeep DEF hostedVars, databaseVars
<1>9. ASSUME NEW w \in Worker, NEW r \in Report, NEW i \in Message, DeliveryFails(w, r, i)
      PROVE  LedgerInv'
    BY <1>0, <1>9, QuietSteps, SameReportsKeep DEF DeliveryFails, databaseVars
<1> QED BY <1>1, <1>2, <1>3, <1>4, <1>5, <1>6, <1>7, <1>8, <1>9, Zenon DEF HostedNext

\* Whatever dispatchers, workers and the queue do, die of and repeat, and whenever
\* runCleanup() runs: a key answers for a report that is stored, and no content is
\* stored twice.
THEOREM LedgerAlwaysAnswers == HostedSpec => []LedgerAnswers
<1>1. LedgerInv => LedgerAnswers
    BY DEF LedgerInv
<1> QED BY <1>1, LedgerInvInit, LedgerInvStep, PTL DEF HostedSpec
-----------------------------------------------------------------------------
(***************************************************************************)
(* What the receipts say of the jobs.  PipelineInv adds to LedgerInv the   *)
(* types of the other tables and of what dispatchers, queue and workers    *)
(* hold, and that a report under work is one worker's alone unless it is   *)
(* contested.                                                              *)
(***************************************************************************)
Instant == Nat \cup {Null}
\* The rows of the outbox, of the job receipts and of the jobs that workers hold.
EventRow ==
    [status : {"none", "pending", "leased", "dispatched", "dead_letter"}, attempts : Nat,
     availableAt : Nat, leaseExpiresAt : Instant, sentAt : Instant, deadAt : Instant]
ReceiptRow ==
    [status : {"none", "processing", "failed", "completed", "dead_letter"}, attempts : Nat,
     leaseExpiresAt : Instant, completedAt : Instant, failedAt : Instant]
JobRow ==
    [report : Report \cup {NoReport}, message : Message \cup {Null}, awaited : BOOLEAN,
     dead : BOOLEAN]
\* What a dispatcher has leased.
Claim == [report : Report, attempts : Nat]

\* The types of the tables, of the dispatchers, and of queue and workers.
TableTypes == outbox \in [Report -> EventRow] /\ receipt \in [Report -> ReceiptRow]

DispatcherTypes ==
    /\ batch \in [Dispatcher -> SUBSET Claim]
    /\ dpc \in [Dispatcher -> [at : {"idle", "published", "failed", "exhausted"},
                               event : Claim \cup {NoEvent}]]
    /\ \A d \in Dispatcher : dpc[d].at # "idle" => dpc[d].event \in Claim

WorkerTypes ==
    /\ message \in [Report -> [Message -> Int]]
    /\ wpc \in [Worker -> {"idle", "claimed", "rejected", "failed", "recording"}]
    /\ job \in [Worker -> JobRow]
    /\ \A w \in Worker : IF wpc[w] = "idle" THEN job[w] = NoJob
                          ELSE job[w].report \in Report /\ job[w].message \in Message

PipelineTypes == TableTypes /\ DispatcherTypes /\ WorkerTypes

\* A report that was never accepted is not stored, and one that is not stored has no receipt.
ReceiptsHaveReports ==
    \A r \in Report :
        /\ report[r].content = NoContent => ~Stored(r)
        /\ ~Stored(r) \/ receipt[r].status = "none" => receipt[r] = NoReceipt

\* Of a report that is not contested: the request that has it is alone and it is being
\* processed, and once it is completed it has its receipt or is out of everyone's reach.
ExclusiveFor(r) ==
    /\ \A v, w \in Worker : Busy(v, r) /\ Busy(w, r) => v = w
    /\ \A w \in Worker : Busy(w, r) =>
            report[r].status = "processing" /\ receipt[r].status = "processing"
    /\ report[r].status = "completed" =>
            receipt[r].status = "completed" \/ (receipt[r].status = "none" /\ ~InFlight(r))

WorkIsExclusive == \A r \in Report : r \notin contested => ExclusiveFor(r)

\* A report that a step leaves alone, or only fails while it is accepted, stays exclusive.
LEMMA LeftAlone ==
    ASSUME NEW r \in Report, ExclusiveFor(r),
           \A w \in Worker : Busy(w, r)' => Busy(w, r),
           report'[r].status = report[r].status
              \/ (report[r].status = "accepted" /\ report'[r].status = "failed"),
           receipt'[r] = receipt[r], InFlight(r)' => InFlight(r)
    PROVE  ExclusiveFor(r)'
BY DEF ExclusiveFor

\* The inductive invariant.
PipelineInv ==
    LedgerInv /\ PipelineTypes /\ ReceiptsHaveReports /\ ReceiptsAgree /\ WorkIsExclusive

\* Nothing has been accepted, and nobody works.
LEMMA PipelineInit == HostedInit => PipelineInv
<1> SUFFICES ASSUME HostedInit PROVE PipelineInv
    OBVIOUS
<1>1. LedgerInv
    BY LedgerInvInit
<1>2. TableTypes
    BY DEF HostedInit, TableTypes, EventRow, ReceiptRow, NoReceipt, Instant, Null
<1>3. DispatcherTypes
    BY DEF HostedInit, DispatcherTypes, Claim, NoEvent
<1>4. WorkerTypes
    BY DEF HostedInit, WorkerTypes, JobRow, NoJob, Null
<1>5. ReceiptsHaveReports /\ ReceiptsAgree
    BY DEF HostedInit, ReceiptsHaveReports, ReceiptsAgree, Stored, NoReceipt
<1>6. WorkIsExclusive
    BY DEF HostedInit, WorkIsExclusive, ExclusiveFor, Busy
<1> QED BY <1>1, <1>2, <1>3, <1>4, <1>5, <1>6 DEF PipelineInv, PipelineTypes

\* Only acceptReport() and runCleanup() change what is stored.
LEMMA StoredSame ==
    ASSUME SameReports
    PROVE  \A r \in Report : /\ Stored(r)' <=> Stored(r)
                             /\ report'[r].content = report[r].content
BY DEF SameReports, Stored

\* A step of a dispatcher or of the clock leaves receipts, results and workers alone.  It
\* preserves the invariant if it fails accepted reports at most, tries no event too often,
\* and lays hands on no report that was out of reach.
LEMMA DispatcherStep ==
    ASSUME PipelineInv, SameReports, TableTypes', DispatcherTypes',
           UNCHANGED <<receipt, results, wpc, job, contested>>,
           message' \in [Report -> [Message -> Int]],
           \A r \in Report : report[r].status # "accepted" => report'[r].status = report[r].status,
           \A r \in Report : report[r].status = "accepted" => report'[r].status \in {"accepted", "failed"},
           \A r \in Report : outbox[r].attempts <= OutboxMaxAttempts
                                => outbox'[r].attempts <= OutboxMaxAttempts,
           \A r \in Report : InFlight(r)' => InFlight(r)
    PROVE  PipelineInv'
<1>1. LedgerInv'
    BY SameReportsKeep DEF PipelineInv
<1>2. PipelineTypes'
    BY DEF PipelineInv, PipelineTypes, WorkerTypes
<1>3. ReceiptsHaveReports'
    BY StoredSame DEF PipelineInv, ReceiptsHaveReports, NoReceipt
<1>4. ReceiptsAgree'
    BY StoredSame DEF PipelineInv, ReceiptsAgree, Stored
<1>5. WorkIsExclusive'
  <2>1. \A w \in Worker, r \in Report : Busy(w, r)' <=> Busy(w, r)
    BY DEF Busy
  <2> QED BY <2>1, LeftAlone DEF PipelineInv, WorkIsExclusive
<1> QED BY <1>1, <1>2, <1>3, <1>4, <1>5 DEF PipelineInv

\* The part of the invariant that says what the variables hold.
LEMMA PipelineFacts ==
    ASSUME PipelineInv
    PROVE  /\ now \in Nat /\ ReportRows /\ EventsHaveReports /\ report \in [Report -> ReportRow]
           /\ TableTypes /\ DispatcherTypes /\ WorkerTypes
BY DEF PipelineInv, LedgerInv, ReportRows, PipelineTypes

\* reports set status = 'failed' ... where status = 'accepted'
LEMMA FailAcceptedStatus ==
    ASSUME ReportRows, NEW R
    PROVE  \A r \in Report :
            /\ report[r].status # "accepted" => FailAccepted(R)[r].status = report[r].status
            /\ report[r].status = "accepted" => FailAccepted(R)[r].status \in {"accepted", "failed"}
<1> TAKE r \in Report
<1>1. CASE r \in R /\ report[r].status = "accepted"
  <2>1. FailAccepted(R)[r] = Ended(report[r], "failed", now)
    BY <1>1 DEF FailAccepted, Ended
  <2>2. now \in Nat \cup {Null} /\ "failed" \in Status /\ report[r] \in ReportRow
    BY DEF ReportRows, Status
  <2>3. PICK row \in ReportRow, t \in Nat \cup {Null} : row = report[r] /\ t = now
    BY <2>2
  <2>4. Ended(row, "failed", t).status = "failed"
    BY <2>2, UpdateCompleted
  <2>5. FailAccepted(R)[r].status = "failed"
    BY <2>1, <2>3, <2>4
  <2> QED BY <1>1, <2>5
<1>2. CASE ~(r \in R /\ report[r].status = "accepted")
    BY <1>2 DEF FailAccepted, ReportRows
<1> QED BY <1>1, <1>2

\* The claim of dispatchOutbox().
LEMMA ClaimEventsKeeps ==
    ASSUME PipelineInv, NEW d \in Dispatcher, NEW picked \in SUBSET Report, ClaimEvents(d, picked)
    PROVE  PipelineInv'
<1>0. /\ now \in Nat /\ ReportRows /\ TableTypes /\ DispatcherTypes /\ WorkerTypes
      /\ outbox \in [Report -> EventRow]
    BY PipelineFacts DEF TableTypes
<1>1. SameReports
  <2>1. Dispatch(d)
    BY Zenon DEF Dispatch
  <2> QED BY <2>1, DispatchSame DEF PipelineInv
<1>c. /\ report' = FailAccepted(Exhausted) /\ \A r \in picked : Claimable(r)
      /\ UNCHANGED <<receipt, results, dpc, message, wpc, job, contested>>
      /\ outbox' = [r \in Report |-> outbox'[r]]
    BY Zenon DEF ClaimEvents, queueVars, workerVars, history
<1>o. ASSUME NEW r \in Report
      PROVE  /\ r \in Exhausted => outbox'[r] =
                [outbox[r] EXCEPT !.status = "dead_letter", !.leaseExpiresAt = Null, !.deadAt = now]
             /\ r \notin Exhausted /\ r \in picked => outbox'[r] =
                [outbox[r] EXCEPT !.status = "leased", !.leaseExpiresAt = now + OutboxLease,
                                  !.attempts = outbox[r].attempts + 1]
             /\ r \notin Exhausted /\ r \notin picked => outbox'[r] = outbox[r]
    BY Zenon DEF ClaimEvents
<1>b. PICK claims : /\ batch' = [batch EXCEPT ![d] = claims]
                    /\ \A e \in claims : \E r \in picked :
                            e = [report |-> r, attempts |-> outbox[r].attempts + 1]
    BY Zenon DEF ClaimEvents
<1>2. ASSUME NEW r \in Report
      PROVE  /\ outbox'[r] \in EventRow
             /\ outbox[r].attempts <= OutboxMaxAttempts => outbox'[r].attempts <= OutboxMaxAttempts
             /\ outbox'[r].sentAt = outbox[r].sentAt
             /\ outbox'[r].status = outbox[r].status \/ outbox'[r].status = "dead_letter" \/ r \in picked
  <2>0. outbox[r] \in EventRow
    BY <1>0
  <2>1. CASE r \in Exhausted
    <3>1. outbox'[r] = [outbox[r] EXCEPT !.status = "dead_letter", !.leaseExpiresAt = Null, !.deadAt = now]
      BY <1>o, <2>1, Zenon
    <3> QED BY <1>0, <2>0, <3>1 DEF EventRow, Instant, Null
  <2>2. CASE r \notin Exhausted /\ r \in picked
    <3>1. outbox'[r] = [outbox[r] EXCEPT !.status = "leased", !.leaseExpiresAt = now + OutboxLease,
                                  !.attempts = outbox[r].attempts + 1]
      BY <1>o, <2>2, Zenon
    <3>2. outbox[r].attempts < OutboxMaxAttempts
      BY <1>c, <2>2 DEF Claimable
    <3>3. now + OutboxLease \in Instant /\ outbox[r].attempts + 1 \in Nat
      BY <1>0, <2>0, HostedAssumption DEF EventRow, Instant
    <3>4. outbox'[r] \in EventRow /\ outbox'[r].attempts = outbox[r].attempts + 1
          /\ outbox'[r].sentAt = outbox[r].sentAt
      BY <2>0, <3>1, <3>3 DEF EventRow
    <3>5. outbox[r].attempts + 1 <= OutboxMaxAttempts
      BY <2>0, <3>2, HostedAssumption DEF EventRow
    <3> QED BY <2>2, <3>4, <3>5
  <2>3. CASE r \notin Exhausted /\ r \notin picked
    <3>1. outbox'[r] = outbox[r]
      BY <1>o, <2>3, Zenon
    <3> QED BY <2>0, <3>1
  <2> QED BY <2>1, <2>2, <2>3
<1>3. TableTypes'
  <2>1. receipt' = receipt /\ outbox' = [r \in Report |-> outbox'[r]]
    BY <1>c
  <2> QED BY <1>0, <1>2, <2>1 DEF TableTypes
<1>4. DispatcherTypes'
  <2>1. \A r \in picked : outbox[r].attempts + 1 \in Nat
    BY <1>0 DEF EventRow
  <2>2. claims \in SUBSET Claim
    BY <1>b, <2>1 DEF Claim
  <2>3. batch' \in [Dispatcher -> SUBSET Claim] /\ dpc' = dpc
    BY <1>0, <1>b, <1>c, <2>2 DEF DispatcherTypes
  <2> QED BY <1>0, <2>3 DEF DispatcherTypes
<1>5. \A r \in picked : InFlight(r)
    BY <1>c DEF Claimable, InFlight
<1>6. \A r \in Report : InFlight(r)' => InFlight(r)
  <2> SUFFICES ASSUME NEW r \in Report, r \notin picked, InFlight(r)' PROVE InFlight(r)
    BY <1>5
  <2>1. \A e \in batch'[d] : e.report \in picked
    BY <1>0, <1>b DEF DispatcherTypes
  <2>2. \A c \in Dispatcher : c # d => batch'[c] = batch[c]
    BY <1>0, <1>b DEF DispatcherTypes
  <2>3. /\ UNCHANGED <<message, job, dpc>>
        /\ outbox'[r].sentAt = outbox[r].sentAt
        /\ outbox'[r].status = outbox[r].status \/ outbox'[r].status = "dead_letter"
    BY <1>2, <1>c
  <2> QED BY <2>1, <2>2, <2>3 DEF InFlight
<1>7. \A r \in Report :
        /\ report[r].status # "accepted" => report'[r].status = report[r].status
        /\ report[r].status = "accepted" => report'[r].status \in {"accepted", "failed"}
    BY <1>0, <1>c, FailAcceptedStatus
<1>8. UNCHANGED <<receipt, results, wpc, job, contested>> /\ message' \in [Report -> [Message -> Int]]
    BY <1>0, <1>c DEF WorkerTypes
<1> QED BY <1>1, <1>2, <1>3, <1>4, <1>6, <1>7, <1>8, DispatcherStep

\* publishJSON() may leave the queue another message of the event.
LEMMA PublishKeeps ==
    ASSUME PipelineInv, NEW d \in Dispatcher, NEW e \in batch[d], Publish(d, e)
    PROVE  PipelineInv'
<1>0. /\ now \in Nat /\ ReportRows /\ TableTypes /\ DispatcherTypes /\ WorkerTypes
    BY PipelineFacts
<1>1. /\ UNCHANGED <<now, report, outbox, receipt, results, ledger, wpc, job, contested>>
      /\ batch' = [batch EXCEPT ![d] = @ \ {e}]
      /\ \/ dpc' = [dpc EXCEPT ![d] = [at |-> "published", event |-> e]]
         \/ dpc' = [dpc EXCEPT ![d] = [at |-> "failed", event |-> e]]
    BY DEF Publish, databaseVars, workerVars, history
<1>2. SameReports
    BY <1>0, <1>1, QuietSteps DEF PipelineInv
<1>3. e \in Claim /\ e.report \in Report
    BY <1>0 DEF DispatcherTypes, Claim
<1>4. DispatcherTypes'
    BY <1>0, <1>1, <1>3 DEF DispatcherTypes
<1>5. /\ message' \in [Report -> [Message -> Int]]
      /\ \A r \in Report : r # e.report => message'[r] = message[r]
  <2>1. CASE UNCHANGED message
    BY <1>0, <2>1 DEF WorkerTypes
  <2>2. CASE \E i \in Message : message' =
                [message EXCEPT ![e.report] = [message[e.report] EXCEPT ![i] = WorkerMaxAttempts]]
    <3>1. PICK i \in Message : message' =
                [message EXCEPT ![e.report] = [message[e.report] EXCEPT ![i] = WorkerMaxAttempts]]
      BY <2>2
    <3>2. [message[e.report] EXCEPT ![i] = WorkerMaxAttempts] \in [Message -> Int]
      BY <1>0, <1>3, HostedAssumption DEF WorkerTypes
    <3> QED BY <1>0, <1>3, <3>1, <3>2 DEF WorkerTypes
  <2> QED BY <2>1, <2>2 DEF Publish, Take
<1>6. \A r \in Report : InFlight(r)' => InFlight(r)
  <2> SUFFICES ASSUME NEW r \in Report, InFlight(r)' PROVE InFlight(r)
    OBVIOUS
  <2>1. CASE r = e.report
    BY <2>1 DEF InFlight
  <2>2. CASE r # e.report
    <3>1. message'[r] = message[r] /\ job' = job /\ outbox' = outbox
      BY <1>1, <1>5, <2>2
    <3>2. \A c \in Dispatcher : batch'[c] \subseteq batch[c]
      BY <1>0, <1>1 DEF DispatcherTypes
    <3>3. \A c \in Dispatcher : dpc'[c].event.report = r => dpc[c].event.report = r
      BY <1>0, <1>1, <2>2 DEF DispatcherTypes
    <3> QED BY <3>1, <3>2, <3>3 DEF InFlight
  <2> QED BY <2>1, <2>2
<1>7. TableTypes'
    BY <1>0, <1>1 DEF TableTypes
<1> QED BY <1>0, <1>1, <1>2, <1>4, <1>5, <1>6, <1>7, DispatcherStep DEF PipelineInv, LedgerInv, ReportRows, ReportRow

\* The dispatcher lets its event go, or holds on to it.
LEMMA Rested ==
    ASSUME DispatcherTypes, NEW d \in Dispatcher, batch' = batch,
           \/ Rest(d)
           \/ dpc' = [dpc EXCEPT ![d].at = "exhausted"] /\ dpc[d].at # "idle"
           \/ dpc' = [dpc EXCEPT ![d].at = "failed"] /\ dpc[d].at # "idle"
    PROVE  /\ DispatcherTypes'
           /\ \A c \in Dispatcher, r \in Report :
                dpc'[c].event.report = r => dpc[c].event.report = r
<1>0. NoEvent.report \notin Report
    BY HostedAssumption DEF NoEvent
<1>1. CASE Rest(d)
    BY <1>0, <1>1 DEF DispatcherTypes, Rest
<1>2. ASSUME NEW at \in {"failed", "exhausted"}, dpc' = [dpc EXCEPT ![d].at = at], dpc[d].at # "idle"
      PROVE  /\ DispatcherTypes'
             /\ \A c \in Dispatcher : dpc'[c].event = dpc[c].event
  <2>1. dpc[d] \in [at : {"idle", "published", "failed", "exhausted"}, event : Claim \cup {NoEvent}]
    BY DEF DispatcherTypes
  <2>2. /\ dpc'[d] \in [at : {"idle", "published", "failed", "exhausted"}, event : Claim \cup {NoEvent}]
        /\ dpc'[d].event = dpc[d].event
    BY <1>2, <2>1 DEF DispatcherTypes
  <2>3. \A c \in Dispatcher : c # d => dpc'[c] = dpc[c]
    BY <1>2 DEF DispatcherTypes
  <2>4. dpc' = [c \in Dispatcher |-> dpc'[c]]
    BY <1>2 DEF DispatcherTypes
  <2> QED BY <1>2, <2>2, <2>3, <2>4 DEF DispatcherTypes
<1> QED BY <1>1, <1>2

\* Marking an event after its publication, by its id alone.
LEMMA MarkKeeps ==
    ASSUME PipelineInv, NEW d \in Dispatcher, MarkDispatched(d) \/ MarkPending(d)
    PROVE  PipelineInv'
<1>0. /\ now \in Nat /\ ReportRows /\ TableTypes /\ DispatcherTypes /\ WorkerTypes
    BY PipelineFacts
<1>1. PICK r : r = dpc[d].event.report
    OBVIOUS
<1>2. r \in Report /\ dpc[d].at # "idle" /\ InFlight(r)
    BY <1>0, <1>1 DEF MarkDispatched, MarkPending, DispatcherTypes, Claim, InFlight
<1>3. UNCHANGED <<now, report, receipt, results, ledger, batch, message, wpc, job, contested>>
    BY DEF MarkDispatched, MarkPending, queueVars, workerVars, history
<1>4. DispatcherTypes' /\ \A c \in Dispatcher, s \in Report :
                dpc'[c].event.report = s => dpc[c].event.report = s
  <2>1. Rest(d) \/ dpc' = [dpc EXCEPT ![d].at = "exhausted"]
    BY DEF MarkDispatched, MarkPending
  <2> QED BY <1>0, <1>2, <1>3, <2>1, Rested
<1>5. PICK row : /\ outbox' = [outbox EXCEPT ![r] = row] \/ outbox' = outbox
                 /\ row \in EventRow /\ row.attempts = outbox[r].attempts
  <2>0. outbox[r] \in EventRow /\ now + RetryDelay \in Nat
    BY <1>0, <1>2, HostedAssumption DEF TableTypes
  <2> DEFINE sent == [outbox[r] EXCEPT !.status = "dispatched", !.sentAt = now, !.leaseExpiresAt = Null]
             dead == [outbox[r] EXCEPT !.status = "dead_letter", !.leaseExpiresAt = Null, !.deadAt = now]
             pending == [outbox[r] EXCEPT !.status = "pending", !.leaseExpiresAt = Null,
                                          !.deadAt = Null, !.availableAt = now + RetryDelay]
  <2>1. sent \in EventRow /\ sent.attempts = outbox[r].attempts
    BY <1>0, <2>0 DEF EventRow, Instant
  <2>2. dead \in EventRow /\ dead.attempts = outbox[r].attempts
    BY <1>0, <2>0 DEF EventRow, Instant
  <2>3. pending \in EventRow /\ pending.attempts = outbox[r].attempts
    BY <1>0, <2>0 DEF EventRow, Instant
  <2>4. \/ outbox' = outbox \/ outbox' = [outbox EXCEPT ![r] = sent]
        \/ outbox' = [outbox EXCEPT ![r] = dead] \/ outbox' = [outbox EXCEPT ![r] = pending]
    <3>1. CASE MarkDispatched(d)
      BY <1>1, <3>1 DEF MarkDispatched
    <3>2. CASE MarkPending(d)
      BY <1>1, <3>2 DEF MarkPending
    <3> QED BY <3>1, <3>2
  <2> HIDE DEF sent, dead, pending
  <2> QED BY <2>1, <2>2, <2>3, <2>4
<1>6. TableTypes' /\ \A s \in Report : outbox'[s].attempts = outbox[s].attempts
    BY <1>0, <1>2, <1>3, <1>5 DEF TableTypes
<1>7. \A s \in Report : s # r => outbox'[s] = outbox[s]
    BY <1>0, <1>5 DEF TableTypes
<1>8. \A s \in Report : InFlight(s)' => InFlight(s)
    BY <1>2, <1>3, <1>4, <1>7 DEF InFlight
<1>9. SameReports
    BY DispatchSame, Zenon DEF PipelineInv, Dispatch
<1>10. /\ \A s \in Report : report'[s].status = report[s].status
       /\ \A s \in Report : outbox[s].attempts <= OutboxMaxAttempts
                                => outbox'[s].attempts <= OutboxMaxAttempts
       /\ message' \in [Report -> [Message -> Int]]
    BY <1>0, <1>3, <1>6 DEF WorkerTypes
<1> QED BY <1>3, <1>4, <1>6, <1>8, <1>9, <1>10, DispatcherStep

\* The other steps of a dispatcher.
LEMMA GiveUpKeeps ==
    ASSUME PipelineInv, NEW d \in Dispatcher,
           MarkFails(d) \/ FailExhausted(d) \/ DispatcherDies(d)
    PROVE  PipelineInv'
<1>0. /\ now \in Nat /\ ReportRows /\ TableTypes /\ DispatcherTypes /\ WorkerTypes
    BY PipelineFacts
<1>1. UNCHANGED <<now, outbox, receipt, results, ledger, message, wpc, job, contested>>
    BY DEF MarkFails, FailExhausted, DispatcherDies, databaseVars, queueVars, workerVars, history
<1>2. /\ \A c \in Dispatcher : batch'[c] \subseteq batch[c]
      /\ DispatcherTypes' /\ \A c \in Dispatcher, s \in Report :
                dpc'[c].event.report = s => dpc[c].event.report = s
  <2>1. CASE MarkFails(d)
    BY <1>0, <2>1, Rested DEF MarkFails
  <2>2. CASE FailExhausted(d)
    BY <1>0, <2>2, Rested DEF FailExhausted
  <2>3. CASE DispatcherDies(d)
    <3>1. NoEvent.report \notin Report
      BY HostedAssumption DEF NoEvent
    <3>2. /\ dpc' = [dpc EXCEPT ![d] = [at |-> "idle", event |-> NoEvent]]
          /\ batch' = [batch EXCEPT ![d] = {}]
      BY <2>3 DEF DispatcherDies, Rest
    <3> QED BY <1>0, <3>1, <3>2 DEF DispatcherTypes
  <2> QED BY <2>1, <2>2, <2>3
<1>3. \A s \in Report : InFlight(s)' => InFlight(s)
    BY <1>1, <1>2 DEF InFlight
<1>4. \A r \in Report :
        /\ report[r].status # "accepted" => report'[r].status = report[r].status
        /\ report[r].status = "accepted" => report'[r].status \in {"accepted", "failed"}
  <2>1. report' = report \/ report' = FailAccepted({dpc[d].event.report})
    BY DEF MarkFails, FailExhausted, DispatcherDies, databaseVars
  <2> QED BY <1>0, <2>1, FailAcceptedStatus
<1>5. SameReports
  <2>1. CASE Dispatch(d)
    BY <2>1, DispatchSame DEF PipelineInv
  <2>2. CASE DispatcherDies(d)
    BY <1>0, <2>2, QuietSteps DEF DispatcherDies, databaseVars, PipelineInv
  <2> QED BY <2>1, <2>2, Zenon DEF Dispatch
<1>6. TableTypes' /\ message' \in [Report -> [Message -> Int]]
    BY <1>0, <1>1 DEF TableTypes, WorkerTypes
<1> QED BY <1>1, <1>2, <1>3, <1>4, <1>5, <1>6, DispatcherStep

\* An answer takes deliveries away, and gives none.
LEMMA AnswerTakes ==
    ASSUME message \in [Report -> [Message -> Int]], NEW r \in Report, NEW i \in Message,
           NEW ok \in BOOLEAN, Answer(r, i, ok)
    PROVE  /\ message' \in [Report -> [Message -> Int]]
           /\ \A s \in Report, j \in Message : message'[s][j] > 0 => message[s][j] > 0
<1> DEFINE n == IF ok THEN 0 ELSE message[r][i] - 1
           row == [message[r] EXCEPT ![i] = n]
<1>1. n \in Int /\ (n > 0 => message[r][i] > 0)
    OBVIOUS
<1>2. message' = [message EXCEPT ![r] = row]
    BY DEF Answer
<1> HIDE DEF n
<1>3. row \in [Message -> Int] /\ row[i] = n /\ \A j \in Message : j # i => row[j] = message[r][j]
    BY <1>1
<1> HIDE DEF row
<1> QED BY <1>1, <1>2, <1>3

\* The request ends, and its worker is idle.
LEMMA Responded ==
    ASSUME WorkerTypes, NEW w \in Worker, wpc[w] # "idle", NEW ok \in BOOLEAN, Respond(w, ok)
    PROVE  /\ WorkerTypes'
           /\ wpc'[w] = "idle" /\ \A v \in Worker : v # w => wpc'[v] = wpc[v] /\ job'[v] = job[v]
           /\ \A v \in Worker, r \in Report : job'[v].report = r => v # w /\ job[v].report = r
           /\ \A s \in Report, j \in Message : message'[s][j] > 0 => message[s][j] > 0
<1>1. job[w].report \in Report /\ job[w].message \in Message
    BY DEF WorkerTypes
<1>2. /\ message' \in [Report -> [Message -> Int]]
      /\ \A s \in Report, j \in Message : message'[s][j] > 0 => message[s][j] > 0
    BY <1>1, AnswerTakes DEF Respond, WorkerTypes
<1>3. NoJob \in JobRow /\ NoJob.report = NoReport /\ NoReport \notin Report
    BY HostedAssumption DEF NoJob, JobRow
<1>4. /\ wpc' = [wpc EXCEPT ![w] = "idle"] /\ job' = [job EXCEPT ![w] = NoJob]
    BY DEF Respond
<1>5. WorkerTypes'
    BY <1>2, <1>3, <1>4 DEF WorkerTypes
<1>6. /\ wpc'[w] = "idle" /\ job'[w] = NoJob
      /\ \A v \in Worker : v # w => wpc'[v] = wpc[v] /\ job'[v] = job[v]
    BY <1>4 DEF WorkerTypes
<1> QED BY <1>2, <1>3, <1>4, <1>5, <1>6

\* The report under work is one of the table.
LEMMA JobReport ==
    ASSUME WorkerTypes, NEW w \in Worker, wpc[w] # "idle"
    PROVE  job[w].report \in Report
BY DEF WorkerTypes

\* Steps of workers and of the queue that change no table.
LEMMA QuietWork ==
    ASSUME PipelineInv, WorkerTypes', UNCHANGED <<now, databaseVars, dispatcherVars, contested>>,
           \A v \in Worker : /\ wpc'[v] # "idle" => wpc[v] # "idle"
                             /\ job'[v].report \in {job[v].report, NoReport},
           \A s \in Report, j \in Message : message'[s][j] > 0 => message[s][j] > 0
    PROVE  PipelineInv'
<1>0. now \in Nat /\ TableTypes /\ DispatcherTypes
    BY PipelineFacts
<1>1. UNCHANGED <<now, report, outbox, receipt, results, ledger, batch, dpc, contested>>
    BY DEF databaseVars, dispatcherVars
<1>2. SameReports
    BY <1>0, <1>1, QuietSteps DEF PipelineInv
<1>3. LedgerInv'
    BY <1>2, SameReportsKeep DEF PipelineInv
<1>4. TableTypes' /\ DispatcherTypes'
    BY <1>0, <1>1 DEF TableTypes, DispatcherTypes
<1>5. ReceiptsHaveReports' /\ ReceiptsAgree'
    BY <1>1 DEF PipelineInv, ReceiptsHaveReports, ReceiptsAgree, Stored
<1>6. WorkIsExclusive'
  <2>0. NoReport \notin Report
    BY HostedAssumption
  <2>1. \A v \in Worker, r \in Report : Busy(v, r)' => Busy(v, r)
    BY <2>0 DEF Busy
  <2>2. \A r \in Report : InFlight(r)' => InFlight(r)
    BY <1>1, <2>0 DEF InFlight
  <2> QED BY <1>1, <2>1, <2>2, LeftAlone DEF PipelineInv, WorkIsExclusive
<1> QED BY <1>3, <1>4, <1>5, <1>6 DEF PipelineInv, PipelineTypes

\* processReportEvent() between its transactions, and requests that are cut off.
LEMMA QuietWorkKeeps ==
    ASSUME PipelineInv, NEW w \in Worker,
           \/ ProcessFails(w) \/ ReadAttempts(w) \/ WorkerDies(w) \/ QueueTimesOut(w)
           \/ \E r \in Report, i \in Message : DeliveryFails(w, r, i)
    PROVE  PipelineInv'
<1>0. WorkerTypes
    BY PipelineFacts
<1>1. CASE ProcessFails(w)
  <2>1. /\ UNCHANGED <<now, databaseVars, dispatcherVars, contested, message, job>>
        /\ wpc[w] = "claimed"
        /\ wpc' = [wpc EXCEPT ![w] = "rejected"] \/ wpc' = [wpc EXCEPT ![w] = "failed"]
    BY <1>1 DEF ProcessFails, queueVars, history
  <2>2. WorkerTypes' /\ \A v \in Worker : wpc[v] = "idle" <=> wpc'[v] = "idle"
    BY <1>0, <2>1 DEF WorkerTypes
  <2> QED BY <2>1, <2>2, QuietWork
<1>2. CASE ReadAttempts(w)
  <2>1. PICK dead : /\ job' = [job EXCEPT ![w].dead = dead] /\ dead \in BOOLEAN
    BY <1>2 DEF ReadAttempts
  <2>2. /\ UNCHANGED <<now, databaseVars, dispatcherVars, contested, message>>
        /\ wpc[w] # "idle" /\ wpc' = [wpc EXCEPT ![w] = "recording"]
    BY <1>2 DEF ReadAttempts, queueVars, history
  <2>3. /\ job'[w] \in JobRow /\ job'[w].report = job[w].report /\ job'[w].message = job[w].message
        /\ job'[w].awaited = job[w].awaited
        /\ job' = [v \in Worker |-> job'[v]] /\ \A v \in Worker : v # w => job'[v] = job[v]
    BY <1>0, <2>1 DEF WorkerTypes, JobRow
  <2>4. WorkerTypes' /\ \A v \in Worker : wpc[v] = "idle" <=> wpc'[v] = "idle"
    BY <1>0, <2>2, <2>3 DEF WorkerTypes
  <2> QED BY <2>2, <2>3, <2>4, QuietWork
<1>3. CASE WorkerDies(w)
  <2>1. wpc[w] # "idle" /\ Respond(w, FALSE) /\ UNCHANGED <<now, databaseVars, dispatcherVars, contested>>
    BY <1>3 DEF WorkerDies
  <2>2. /\ WorkerTypes' /\ wpc'[w] = "idle"
        /\ \A v \in Worker : v # w => wpc'[v] = wpc[v] /\ job'[v] = job[v]
        /\ \A s \in Report, j \in Message : message'[s][j] > 0 => message[s][j] > 0
    BY <1>0, <2>1, Responded
  <2>3. job'[w].report = NoReport
    BY <2>2 DEF WorkerTypes, NoJob
  <2> QED BY <2>1, <2>2, <2>3, QuietWork
<1>4. CASE QueueTimesOut(w)
  <2>1. UNCHANGED <<now, databaseVars, dispatcherVars, contested, wpc>> /\ job[w].awaited
    BY <1>4 DEF QueueTimesOut
  <2>2. wpc[w] # "idle"
    BY <1>0, <2>1 DEF WorkerTypes, NoJob
  <2>3. /\ message' \in [Report -> [Message -> Int]]
        /\ \A s \in Report, j \in Message : message'[s][j] > 0 => message[s][j] > 0
    BY <1>0, <1>4, <2>2, AnswerTakes DEF QueueTimesOut, WorkerTypes
  <2>4. /\ job'[w] \in JobRow /\ job'[w].report = job[w].report /\ job'[w].message = job[w].message
        /\ job' = [v \in Worker |-> job'[v]] /\ \A v \in Worker : v # w => job'[v] = job[v]
    BY <1>0, <1>4 DEF QueueTimesOut, WorkerTypes, JobRow
  <2>5. WorkerTypes'
    BY <1>0, <2>1, <2>2, <2>3, <2>4 DEF WorkerTypes
  <2> QED BY <2>1, <2>3, <2>4, <2>5, QuietWork
<1>5. ASSUME NEW r \in Report, NEW i \in Message, DeliveryFails(w, r, i) PROVE PipelineInv'
  <2>1. UNCHANGED <<now, databaseVars, dispatcherVars, contested, wpc, job>> /\ Answer(r, i, FALSE)
    BY <1>5 DEF DeliveryFails, workerVars
  <2>2. /\ message' \in [Report -> [Message -> Int]]
        /\ \A s \in Report, j \in Message : message'[s][j] > 0 => message[s][j] > 0
    BY <1>0, <2>1, AnswerTakes DEF WorkerTypes
  <2>3. WorkerTypes'
    BY <1>0, <2>1, <2>2 DEF WorkerTypes
  <2> QED BY <2>1, <2>2, <2>3, QuietWork
<1> QED BY <1>1, <1>2, <1>3, <1>4, <1>5

\* What steps on one report leave alone: the rows of the others.
LEMMA OneReport ==
    ASSUME PipelineInv, SameReports, WorkerTypes', NEW r \in Report, NEW row \in ReceiptRow,
           UNCHANGED <<outbox, dispatcherVars>>,
           receipt' = [receipt EXCEPT ![r] = row],
           \A s \in Report : s # r => report'[s] = report[s] /\ (s \in results' <=> s \in results),
           row.status = "none" => row = NoReceipt,
           report[r].status = "none" => row = NoReceipt,
           row.status = "completed" => report'[r].status = "completed" /\ r \in results',
           row.status = "dead_letter" => report'[r].status = "failed",
           row.attempts <= WorkerMaxAttempts
    PROVE  /\ LedgerInv' /\ PipelineTypes' /\ ReceiptsHaveReports' /\ ReceiptsAgree'
           /\ receipt'[r] = row /\ \A s \in Report : s # r => receipt'[s] = receipt[s]
<1>0. TableTypes /\ DispatcherTypes
    BY PipelineFacts
<1>1. receipt'[r] = row /\ \A s \in Report : s # r => receipt'[s] = receipt[s]
    BY <1>0 DEF TableTypes
<1>2. LedgerInv'
    BY SameReportsKeep DEF PipelineInv
<1>3. TableTypes'
    BY <1>0 DEF TableTypes
<1>4. DispatcherTypes'
    BY <1>0 DEF DispatcherTypes, dispatcherVars
<1>5. ReceiptsHaveReports'
    BY <1>1, StoredSame DEF PipelineInv, ReceiptsHaveReports, Stored
<1>6. ReceiptsAgree'
    BY <1>1, StoredSame DEF PipelineInv, ReceiptsAgree, Stored
<1> QED BY <1>1, <1>2, <1>3, <1>4, <1>5, <1>6 DEF PipelineTypes

\* claimReport() takes a report that nobody works on, or the report is contested.
LEMMA ClaimReportKeeps ==
    ASSUME PipelineInv, NEW w \in Worker, NEW r \in Report, NEW i \in Message, ClaimReport(w, r, i)
    PROVE  PipelineInv'
<1>0. now \in Nat /\ TableTypes /\ WorkerTypes /\ ReportRows /\ EventsHaveReports
    BY PipelineFacts
<1>1. SameReports
  <2>1. Work(w)
    BY Zenon DEF Work
  <2> QED BY <2>1, WorkSame DEF PipelineInv
<1> DEFINE row == [status |-> "processing", attempts |-> receipt[r].attempts + 1,
                   leaseExpiresAt |-> now + WorkerLease,
                   completedAt |-> receipt[r].completedAt, failedAt |-> Null]
<1>2. /\ receipt' = [receipt EXCEPT ![r] = row]
      /\ UNCHANGED <<outbox, results, message>> /\ UNCHANGED dispatcherVars
      /\ contested' = IF \E v \in Worker : Busy(v, r) THEN contested \cup {r} ELSE contested
      /\ wpc' = [wpc EXCEPT ![w] = "claimed"]
      /\ job' = [job EXCEPT ![w] = [report |-> r, message |-> i, awaited |-> TRUE, dead |-> FALSE]]
      /\ Stored(r) /\ (receipt[r].status = "none" \/ Reclaimable(r))
    BY <1>0 DEF ClaimReport, queueVars, EventsHaveReports
<1>3. /\ row \in ReceiptRow /\ row.status = "processing"
      /\ row.attempts <= WorkerMaxAttempts
  <2>1. receipt[r] \in ReceiptRow
    BY <1>0 DEF TableTypes
  <2>2. row \in ReceiptRow
    BY <1>0, <2>1, HostedAssumption DEF ReceiptRow, Instant
  <2>3. receipt[r].attempts < WorkerMaxAttempts
    BY <1>2, HostedAssumption DEF Reclaimable, PipelineInv, ReceiptsHaveReports, NoReceipt
  <2> QED BY <2>1, <2>2, <2>3, HostedAssumption DEF ReceiptRow
<1> HIDE DEF row
<1>4. /\ \A s \in Report : s # r => report'[s] = report[s]
      /\ report[r].status # "completed" => report'[r].status = "processing"
      /\ report[r].status = "completed" => report'[r] = report[r]
  <2>1. report[r] \in ReportRow /\ report[r].status # "none" /\ report \in [Report -> ReportRow]
    BY <1>0, <1>2 DEF ReportRows, Stored
  <2>2. CASE report[r].status \in {"accepted", "failed"}
    <3>1. report' = [report EXCEPT ![r] = WithStatus(report[r], "processing")]
      BY <2>2 DEF ClaimReport, WithStatus
    <3>2. WithStatus(report[r], "processing").status = "processing"
      BY <2>1, UpdateStatus DEF Status
    <3> QED BY <2>1, <2>2, <3>1, <3>2
  <2>3. CASE report[r].status \notin {"accepted", "failed"}
    BY <2>1, <2>3 DEF ClaimReport, ReportRow
  <2> QED BY <2>2, <2>3
<1>5. /\ wpc'[w] = "claimed" /\ job'[w].report = r /\ job'[w].awaited
      /\ \A v \in Worker : v # w => wpc'[v] = wpc[v] /\ job'[v] = job[v]
      /\ WorkerTypes'
    BY <1>0, <1>2 DEF WorkerTypes, JobRow
<1>6. /\ LedgerInv' /\ PipelineTypes' /\ ReceiptsHaveReports' /\ ReceiptsAgree'
      /\ receipt'[r] = row /\ \A s \in Report : s # r => receipt'[s] = receipt[s]
  <2>1. report[r].status # "none"
    BY <1>2 DEF Stored
  <2> QED BY <1>1, <1>2, <1>3, <1>4, <1>5, <2>1, OneReport
<1>7. WorkIsExclusive'
  <2>1. wpc[w] = "idle" /\ message[r][i] > 0
    BY DEF ClaimReport, Deliverable
  <2>2. ASSUME r \notin contested' PROVE ExclusiveFor(r)'
    <3>1. (\A v \in Worker : ~Busy(v, r)) /\ r \notin contested
      BY <1>2, <2>2
    <3>2. report[r].status # "completed"
      <4>1. InFlight(r)
        BY <2>1 DEF InFlight
      <4>2. receipt[r].status # "completed"
        BY <1>2 DEF Reclaimable
      <4> QED BY <3>1, <4>1, <4>2 DEF PipelineInv, WorkIsExclusive, ExclusiveFor
    <3>3. \A v \in Worker : Busy(v, r)' => v = w
      BY <1>5, <3>1 DEF Busy
    <3> QED BY <1>3, <1>4, <1>6, <3>2, <3>3 DEF ExclusiveFor
  <2>3. ASSUME NEW s \in Report, s # r, s \notin contested' PROVE ExclusiveFor(s)'
    <3>1. \A v \in Worker : Busy(v, s)' => Busy(v, s)
      BY <1>5, <2>3 DEF Busy
    <3>2. InFlight(s)' => InFlight(s)
      BY <1>2, <1>5, <2>3 DEF InFlight, dispatcherVars
    <3>3. s \notin contested
      BY <1>2, <2>3
    <3> QED BY <1>4, <1>6, <2>3, <3>1, <3>2, <3>3, LeftAlone DEF PipelineInv, WorkIsExclusive
  <2> QED BY <2>2, <2>3 DEF WorkIsExclusive
<1> QED BY <1>6, <1>7 DEF PipelineInv

\* A request that ends gives its report back, and the others keep theirs.
LEMMA WorkEnds ==
    ASSUME PipelineInv, NEW w \in Worker, wpc[w] # "idle", NEW ok \in BOOLEAN, Respond(w, ok),
           NEW r \in Report, r = job[w].report,
           UNCHANGED <<outbox, dispatcherVars, contested>>,
           \A s \in Report : s # r => report'[s] = report[s] /\ receipt'[s] = receipt[s],
           receipt[r].status = "processing" /\ report'[r].status = "completed"
                => receipt'[r].status = "completed"
    PROVE  WorkIsExclusive'
<1>0. WorkerTypes
    BY PipelineFacts
<1>1. /\ wpc'[w] = "idle" /\ \A v \in Worker : v # w => wpc'[v] = wpc[v] /\ job'[v] = job[v]
      /\ \A v \in Worker, s \in Report : job'[v].report = s => v # w /\ job[v].report = s
      /\ \A s \in Report, j \in Message : message'[s][j] > 0 => message[s][j] > 0
    BY <1>0, Responded
<1>2. \A v \in Worker, s \in Report : Busy(v, s)' => Busy(v, s) /\ v # w
    BY <1>1 DEF Busy
<1>3. ASSUME r \notin contested PROVE ExclusiveFor(r)'
  <2>1. Busy(w, r)
    BY DEF Busy
  <2>2. ExclusiveFor(r)
    BY <1>3 DEF PipelineInv, WorkIsExclusive
  <2>3. \A v \in Worker : ~Busy(v, r)'
    BY <1>2, <2>1, <2>2 DEF ExclusiveFor
  <2> QED BY <2>1, <2>2, <2>3 DEF ExclusiveFor
<1>4. ASSUME NEW s \in Report, s # r, s \notin contested PROVE ExclusiveFor(s)'
  <2>1. InFlight(s)' => InFlight(s)
    BY <1>1 DEF InFlight, dispatcherVars
  <2> QED BY <1>2, <1>4, <2>1, LeftAlone DEF PipelineInv, WorkIsExclusive
<1> QED BY <1>3, <1>4 DEF WorkIsExclusive

\* A change of the row of a report leaves the other rows alone.
LEMMA RowChanged ==
    ASSUME report \in [Report -> ReportRow], NEW r \in Report, NEW s \in Status, NEW t \in Instant,
           report' = [report EXCEPT ![r] = Ended(report[r], s, t)]
    PROVE  report'[r].status = s /\ \A q \in Report : q # r => report'[q] = report[q]
<1>1. Ended(report[r], s, t).status = s
    BY UpdateCompleted DEF Instant
<1> QED BY <1>1

\* The transaction that completes a report completes its receipt.
LEMMA CompleteKeeps ==
    ASSUME PipelineInv, NEW w \in Worker, CompleteReport(w), WorkerTypes', SameReports,
           NEW r \in Report, r = job[w].report
    PROVE  /\ LedgerInv' /\ PipelineTypes' /\ ReceiptsHaveReports' /\ ReceiptsAgree'
           /\ report'[r].status = "completed"
           /\ receipt[r].status = "processing" => receipt'[r].status = "completed"
           /\ \A s \in Report : s # r => report'[s] = report[s] /\ receipt'[s] = receipt[s]
<1>0. now \in Nat /\ TableTypes /\ WorkerTypes /\ report \in [Report -> ReportRow]
    BY PipelineFacts
<1>3. /\ wpc[w] # "idle" /\ report[r].status = "processing"
      /\ results' = results \cup {r} /\ UNCHANGED <<outbox, dispatcherVars>>
      /\ report' = [report EXCEPT ![r] = Ended(report[r], "completed", now)]
    BY DEF CompleteReport, Ended
<1>4. report'[r].status = "completed" /\ \A s \in Report : s # r => report'[s] = report[s]
    BY <1>0, <1>3, RowChanged DEF Status, Instant
<1>5. PICK row \in ReceiptRow :
        /\ receipt' = [receipt EXCEPT ![r] = row]
        /\ row.status = "none" => row = receipt[r] /\ receipt[r].status = "none"
        /\ row.status \in {"none", "completed"} /\ row.attempts = receipt[r].attempts
  <2>0. receipt[r] \in ReceiptRow /\ receipt \in [Report -> ReceiptRow]
    BY <1>0 DEF TableTypes
  <2>1. CASE receipt[r].status = "none"
    <3>1. receipt' = receipt /\ receipt = [receipt EXCEPT ![r] = receipt[r]]
      BY <2>0, <2>1 DEF CompleteReport
    <3> QED BY <2>0, <2>1, <3>1
  <2>2. CASE receipt[r].status # "none"
    <3> DEFINE done == [receipt[r] EXCEPT !.status = "completed", !.leaseExpiresAt = Null, !.completedAt = now]
    <3>1. receipt' = [receipt EXCEPT ![r] = done]
      BY <2>2 DEF CompleteReport
    <3>2. done \in ReceiptRow /\ done.status = "completed" /\ done.attempts = receipt[r].attempts
      BY <1>0, <2>0 DEF ReceiptRow, Instant
    <3> HIDE DEF done
    <3> QED BY <3>1, <3>2
  <2> QED BY <2>1, <2>2
<1>7. receipt[r].attempts <= WorkerMaxAttempts
    BY <1>3 DEF PipelineInv, ReceiptsAgree, Stored
<1>8. row.status = "none" => row = NoReceipt
    BY <1>5 DEF PipelineInv, ReceiptsHaveReports
<1>9. /\ LedgerInv' /\ PipelineTypes' /\ ReceiptsHaveReports' /\ ReceiptsAgree'
      /\ receipt'[r] = row /\ \A s \in Report : s # r => receipt'[s] = receipt[s]
    BY <1>3, <1>4, <1>5, <1>7, <1>8, OneReport
<1> QED BY <1>4, <1>5, <1>9

\* The job ends with it, or the worker does not learn that the report is completed.
LEMMA ProcessKeeps ==
    ASSUME PipelineInv, NEW w \in Worker, Process(w) \/ ProcessUnacknowledged(w)
    PROVE  PipelineInv'
<1>0. WorkerTypes /\ CompleteReport(w)
    BY PipelineFacts DEF Process, ProcessUnacknowledged
<1>1. SameReports
  <2>1. Work(w)
    BY Zenon DEF Work
  <2> QED BY <2>1, WorkSame DEF PipelineInv
<1>2. wpc[w] # "idle" /\ UNCHANGED <<outbox, dispatcherVars>>
    BY <1>0 DEF CompleteReport
<1>3. PICK r \in Report : r = job[w].report
    BY <1>0, <1>2, JobReport
<1>4. CASE Process(w)
  <2>1. Respond(w, TRUE) /\ contested' = contested
    BY <1>4 DEF Process
  <2>2. WorkerTypes'
    BY <1>0, <1>2, <2>1, Responded
  <2>3. WorkIsExclusive'
    BY <1>0, <1>1, <1>2, <1>3, <2>1, <2>2, CompleteKeeps, WorkEnds
  <2> QED BY <1>0, <1>1, <1>3, <2>2, <2>3, CompleteKeeps DEF PipelineInv
<1>5. CASE ProcessUnacknowledged(w)
  <2>1. /\ wpc' = [wpc EXCEPT ![w] = "failed"] /\ contested' = contested \cup {r}
        /\ UNCHANGED <<message, job>>
    BY <1>3, <1>5 DEF ProcessUnacknowledged, queueVars
  <2>2. WorkerTypes'
    BY <1>0, <1>2, <2>1 DEF WorkerTypes
  <2>3. ASSUME NEW s \in Report, s \notin contested' PROVE ExclusiveFor(s)'
    <3>1. s # r /\ s \notin contested
      BY <2>1, <2>3
    <3>2. \A v \in Worker : Busy(v, s)' => Busy(v, s)
      BY <1>0, <1>2, <2>1 DEF Busy, WorkerTypes
    <3>3. InFlight(s)' => InFlight(s)
      BY <1>2, <2>1 DEF InFlight, dispatcherVars
    <3>4. report'[s] = report[s] /\ receipt'[s] = receipt[s]
      BY <1>0, <1>1, <1>3, <2>2, <3>1, CompleteKeeps
    <3> QED BY <3>1, <3>2, <3>3, <3>4, LeftAlone DEF PipelineInv, WorkIsExclusive
  <2> QED BY <1>0, <1>1, <1>3, <2>2, <2>3, CompleteKeeps DEF PipelineInv, WorkIsExclusive
<1> QED BY <1>4, <1>5

\* The transaction that records a failure updates report and receipt together.
LEMMA RecordFailureKeeps ==
    ASSUME PipelineInv, NEW w \in Worker, RecordFailure(w)
    PROVE  PipelineInv'
<1>0. now \in Nat /\ TableTypes /\ WorkerTypes /\ report \in [Report -> ReportRow]
    BY PipelineFacts
<1>1. SameReports
  <2>1. Work(w)
    BY Zenon DEF Work
  <2> QED BY <2>1, WorkSame DEF PipelineInv
<1>2. PICK r \in Report : r = job[w].report
    BY <1>0, JobReport DEF RecordFailure
<1>3. PICK dead \in BOOLEAN : dead = job[w].dead
    BY <1>0 DEF WorkerTypes, JobRow
<1>4. /\ wpc[w] # "idle" /\ Respond(w, dead)
      /\ UNCHANGED <<outbox, results, dispatcherVars, contested>>
    BY <1>3 DEF RecordFailure, history
<1>5. /\ \A s \in Report : s # r => report'[s] = report[s]
      /\ report[r].status # "none" => report'[r].status = IF dead THEN "failed" ELSE "accepted"
  <2>1. CASE Stored(r)
    <3>1. PICK s \in Status : s = IF dead THEN "failed" ELSE "accepted"
      BY DEF Status
    <3>2. PICK t \in Instant : t = IF dead THEN now ELSE Null
      BY <1>0 DEF Instant
    <3>3. report' = [report EXCEPT ![r] = Ended(report[r], s, t)]
      BY <1>2, <1>3, <2>1, <3>1, <3>2 DEF RecordFailure, Ended
    <3> QED BY <1>0, <3>1, <3>3, RowChanged
  <2>2. CASE ~Stored(r)
    BY <1>2, <2>2 DEF RecordFailure, Stored
  <2> QED BY <2>1, <2>2
<1>6. PICK row \in ReceiptRow :
        /\ receipt' = [receipt EXCEPT ![r] = row]
        /\ receipt[r].status = "none" => row = receipt[r]
        /\ receipt[r].status # "none" => row.status = IF dead THEN "dead_letter" ELSE "failed"
        /\ row.attempts = receipt[r].attempts
  <2>0. receipt[r] \in ReceiptRow /\ receipt \in [Report -> ReceiptRow]
    BY <1>0 DEF TableTypes
  <2>1. CASE receipt[r].status = "none"
    <3>1. receipt' = receipt /\ receipt = [receipt EXCEPT ![r] = receipt[r]]
      BY <1>2, <2>0, <2>1 DEF RecordFailure
    <3> QED BY <2>0, <2>1, <3>1
  <2>2. CASE receipt[r].status # "none"
    <3>1. PICK s \in {"dead_letter", "failed"} : s = IF dead THEN "dead_letter" ELSE "failed"
      OBVIOUS
    <3> DEFINE ended == [receipt[r] EXCEPT !.status = s, !.leaseExpiresAt = Null, !.failedAt = now]
    <3>2. receipt' = [receipt EXCEPT ![r] = ended]
      BY <1>2, <1>3, <2>2, <3>1 DEF RecordFailure
    <3>3. ended \in ReceiptRow /\ ended.status = s /\ ended.attempts = receipt[r].attempts
      BY <1>0, <2>0 DEF ReceiptRow, Instant
    <3> HIDE DEF ended
    <3> QED BY <2>2, <3>1, <3>2, <3>3
  <2> QED BY <2>1, <2>2
<1>7. WorkerTypes'
    BY <1>0, <1>4, Responded
<1>8. /\ receipt[r].status = "none" \/ report[r].status = "none" => receipt[r] = NoReceipt
      /\ NoReceipt.status = "none" /\ NoReceipt.attempts = 0
    BY DEF PipelineInv, ReceiptsHaveReports, Stored, NoReceipt
<1>9. row.attempts <= WorkerMaxAttempts
    BY <1>6, <1>8, HostedAssumption DEF PipelineInv, ReceiptsAgree, Stored
<1>10. /\ row.status = "none" \/ report[r].status = "none" => row = NoReceipt
       /\ row.status # "completed"
       /\ row.status = "dead_letter" => report'[r].status = "failed"
    BY <1>5, <1>6, <1>8
<1>11. /\ LedgerInv' /\ PipelineTypes' /\ ReceiptsHaveReports' /\ ReceiptsAgree'
       /\ receipt'[r] = row /\ \A s \in Report : s # r => receipt'[s] = receipt[s]
    BY <1>1, <1>4, <1>5, <1>6, <1>7, <1>9, <1>10, OneReport
<1>12. WorkIsExclusive'
  <2>1. receipt[r].status = "processing" => /\ row.status # "processing"
                                            /\ report'[r].status # "completed"
    BY <1>5, <1>6, <1>8
  <2> QED BY <1>2, <1>4, <1>5, <1>11, <2>1, WorkEnds
<1> QED BY <1>11, <1>12 DEF PipelineInv

\* A delivery that is refused ends the report only if nobody works on it.
LEMMA ClaimRefusedKeeps ==
    ASSUME PipelineInv, NEW w \in Worker, NEW r \in Report, NEW i \in Message, ClaimRefused(w, r, i)
    PROVE  PipelineInv'
<1>0. /\ now \in Nat /\ TableTypes /\ WorkerTypes /\ report \in [Report -> ReportRow]
      /\ EventsHaveReports
    BY PipelineFacts
<1>1. SameReports
  <2>1. Work(w)
    BY Zenon DEF Work
  <2> QED BY <2>1, WorkSame DEF PipelineInv
<1>2. /\ UNCHANGED <<now, outbox, results, ledger, contested, wpc, job>> /\ UNCHANGED dispatcherVars
      /\ message[r][i] > 0 /\ \A v \in Worker : ~(job[v].awaited /\ job[v].report = r)
    BY DEF ClaimRefused, workerVars, Deliverable
<1>3. PICK ok \in BOOLEAN : Answer(r, i, ok)
    BY DEF ClaimRefused
<1>4. /\ message' \in [Report -> [Message -> Int]]
      /\ \A s \in Report, j \in Message : message'[s][j] > 0 => message[s][j] > 0
    BY <1>0, <1>3, AnswerTakes DEF WorkerTypes
<1>5. WorkerTypes'
    BY <1>0, <1>2, <1>4 DEF WorkerTypes
<1>6. \A s \in Report : InFlight(s)' => InFlight(s)
    BY <1>2, <1>4 DEF InFlight, dispatcherVars
<1>7. \A v \in Worker, s \in Report : Busy(v, s)' <=> Busy(v, s)
    BY <1>2 DEF Busy
<1>8. \A v \in Worker : wpc[v] # "idle" => job[v].report \in Report
    BY <1>0, JobReport
<1>9. CASE Queued(r) /\ receipt[r].status = "failed"
  <2>1. report' = [report EXCEPT ![r] = Ended(report[r], "failed", now)]
    BY <1>9 DEF ClaimRefused, Ended
  <2>2. report'[r].status = "failed" /\ \A s \in Report : s # r => report'[s] = report[s]
    BY <1>0, <2>1, RowChanged DEF Status, Instant
  <2>3. receipt \in [Report -> ReceiptRow] /\ receipt[r] \in ReceiptRow
    BY <1>0 DEF TableTypes
  <2> DEFINE row == [receipt[r] EXCEPT !.status = "dead_letter", !.failedAt = now]
  <2>4. receipt' = [receipt EXCEPT ![r] = row]
    BY <1>9, <2>3 DEF ClaimRefused
  <2>5. row \in ReceiptRow /\ row.status = "dead_letter" /\ row.attempts = receipt[r].attempts
    BY <1>0, <2>3 DEF ReceiptRow, Instant
  <2> HIDE DEF row
  <2>6. Stored(r)
    BY <1>0, <1>9 DEF EventsHaveReports
  <2>7. receipt[r].attempts <= WorkerMaxAttempts
    BY <2>6 DEF PipelineInv, ReceiptsAgree
  <2>8. /\ LedgerInv' /\ PipelineTypes' /\ ReceiptsHaveReports' /\ ReceiptsAgree'
        /\ receipt'[r] = row /\ \A s \in Report : s # r => receipt'[s] = receipt[s]
    <3>1. report[r].status # "none"
      BY <2>6 DEF Stored
    <3> QED BY <1>1, <1>2, <1>5, <2>2, <2>4, <2>5, <2>7, <3>1, OneReport
  <2>9. WorkIsExclusive'
    <3>1. ASSUME NEW s \in Report, s \notin contested PROVE ExclusiveFor(s)'
      <4>1. ExclusiveFor(s)
        BY <3>1 DEF PipelineInv, WorkIsExclusive
      <4>2. CASE s = r
        <5>1. \A v \in Worker : ~Busy(v, r)
          BY <1>9, <4>1, <4>2 DEF ExclusiveFor
        <5> QED BY <1>7, <2>2, <4>2, <5>1 DEF ExclusiveFor
      <4>3. CASE s # r
        BY <1>6, <1>7, <2>2, <2>8, <4>1, <4>3, LeftAlone
      <4> QED BY <4>2, <4>3
    <3> QED BY <1>2, <3>1 DEF WorkIsExclusive
  <2> QED BY <2>8, <2>9 DEF PipelineInv
<1>10. CASE ~(Queued(r) /\ receipt[r].status = "failed")
  <2>1. UNCHANGED <<report, receipt>>
    BY <1>10 DEF ClaimRefused
  <2>2. LedgerInv'
    BY <1>1, SameReportsKeep DEF PipelineInv
  <2>3. PipelineTypes'
    BY <1>2, <1>5, <2>1 DEF PipelineInv, PipelineTypes, TableTypes, DispatcherTypes, dispatcherVars
  <2>4. ReceiptsHaveReports' /\ ReceiptsAgree'
    BY <1>2, <2>1 DEF PipelineInv, ReceiptsHaveReports, ReceiptsAgree, Stored
  <2>5. WorkIsExclusive'
    BY <1>2, <1>6, <1>7, <2>1, LeftAlone DEF PipelineInv, WorkIsExclusive
  <2> QED BY <2>2, <2>3, <2>4, <2>5 DEF PipelineInv
<1> QED BY <1>9, <1>10

\* acceptReport() starts with an empty row, which nobody has heard of.
LEMMA AcceptReportKeeps ==
    ASSUME PipelineInv, NEW k \in Key, NEW c \in Content, NEW r \in Report, AcceptReport(k, c, r)
    PROVE  PipelineInv'
<1>0. now \in Nat /\ TableTypes /\ DispatcherTypes /\ WorkerTypes /\ report \in [Report -> ReportRow]
    BY PipelineFacts
<1>1. LedgerInv'
    BY AcceptKeeps DEF PipelineInv
<1> DEFINE row == [status |-> "pending", attempts |-> 0, availableAt |-> now,
                   leaseExpiresAt |-> Null, sentAt |-> Null, deadAt |-> Null]
<1>2. /\ report' = [report EXCEPT ![r] = [status |-> "accepted", content |-> c, completedAt |-> Null]]
      /\ outbox' = [outbox EXCEPT ![r] = row]
      /\ UNCHANGED <<receipt, results, batch, dpc, message, wpc, job, contested>>
      /\ ~Stored(r)
    BY DEF AcceptReport, PipelineInv, ReceiptsHaveReports, dispatcherVars, queueVars, workerVars, history
<1>3. row \in EventRow /\ row.attempts = 0
    BY <1>0 DEF EventRow, Instant
<1> HIDE DEF row
<1>4. /\ \A s \in Report : s # r => outbox'[s] = outbox[s] /\ report'[s] = report[s]
      /\ outbox'[r] = row /\ report'[r].status = "accepted" /\ report'[r].content = c
    BY <1>0, <1>2 DEF TableTypes
<1>5. PipelineTypes'
    BY <1>0, <1>2, <1>3 DEF PipelineTypes, TableTypes, DispatcherTypes, WorkerTypes
<1>6. receipt[r] = NoReceipt /\ NoReceipt.status = "none" /\ NoReceipt.attempts = 0
    BY <1>2 DEF PipelineInv, ReceiptsHaveReports, NoReceipt
<1>7. ReceiptsHaveReports'
    BY <1>2, <1>4, <1>6, HostedAssumption DEF PipelineInv, ReceiptsHaveReports, Stored
<1>8. ReceiptsAgree'
    BY <1>2, <1>3, <1>4, <1>6, HostedAssumption DEF PipelineInv, ReceiptsAgree, Stored
<1>9. WorkIsExclusive'
  <2>1. \A v \in Worker, s \in Report : Busy(v, s)' <=> Busy(v, s)
    BY <1>2 DEF Busy
  <2>2. \A s \in Report : s # r => (InFlight(s)' => InFlight(s))
    BY <1>2, <1>4 DEF InFlight
  <2>3. ASSUME r \notin contested PROVE ExclusiveFor(r)'
    <3>1. \A v \in Worker : ~Busy(v, r)
      BY <1>2, <2>3 DEF PipelineInv, WorkIsExclusive, ExclusiveFor, Stored
    <3> QED BY <1>4, <2>1, <3>1 DEF ExclusiveFor
  <2>4. ASSUME NEW s \in Report, s # r, s \notin contested PROVE ExclusiveFor(s)'
    BY <1>2, <1>4, <2>1, <2>2, <2>4, LeftAlone DEF PipelineInv, WorkIsExclusive
  <2> QED BY <1>2, <2>3, <2>4 DEF WorkIsExclusive
<1> QED BY <1>1, <1>5, <1>7, <1>8, <1>9 DEF PipelineInv

\* runCleanup() deletes a receipt with its report, or when nobody will ask for it again.
LEMMA CleanupKeepsAll ==
    ASSUME PipelineInv, Cleanup
    PROVE  PipelineInv'
<1>0. now \in Nat /\ TableTypes /\ DispatcherTypes /\ WorkerTypes /\ report \in [Report -> ReportRow]
    BY PipelineFacts
<1>1. LedgerInv'
    BY CleanupKeeps DEF PipelineInv
<1> DEFINE gone == {r \in Report : OldReport(r)}
           sent == gone \cup {r \in Report : OldEvent(r)}
           done == sent \cup {r \in Report : OldReceipt(r)}
<1>2. /\ \A r \in done : OldReport(r) \/ ~InFlight(r)
      /\ results' = results \ gone /\ UNCHANGED <<batch, dpc, message, wpc, job, contested>>
    BY DEF Cleanup, dispatcherVars, queueVars, workerVars, history
<1>3. \A r \in Report : receipt'[r] = IF r \in done THEN NoReceipt ELSE receipt[r]
    BY DEF Cleanup
<1>4. ASSUME NEW r \in Report
      PROVE  /\ outbox'[r] \in EventRow /\ outbox'[r].attempts = outbox[r].attempts
             /\ outbox'[r].sentAt = outbox[r].sentAt
             /\ outbox'[r].status \in {outbox[r].status, "none"}
  <2>1. outbox[r] \in EventRow
    BY <1>0 DEF TableTypes
  <2>2. CASE r \in sent
    <3>1. outbox'[r] = [outbox[r] EXCEPT !.status = "none"]
      BY <2>2 DEF Cleanup
    <3> QED BY <2>1, <3>1 DEF EventRow
  <2>3. CASE r \notin sent
    BY <2>1, <2>3 DEF Cleanup
  <2> QED BY <2>2, <2>3
<1>5. ASSUME NEW r \in Report
      PROVE  /\ report'[r].content = report[r].content
             /\ report'[r].status = IF r \in gone THEN "none" ELSE report[r].status
             /\ r \in gone => report[r].status \in {"completed", "failed"}
  <2>1. report[r] \in ReportRow
    BY <1>0
  <2>2. CASE r \in gone
    <3>1. report'[r] = [report[r] EXCEPT !.status = "none"]
      BY <2>2 DEF Cleanup
    <3> QED BY <2>1, <2>2, <3>1 DEF ReportRow, OldReport
  <2>3. CASE r \notin gone
    BY <2>3 DEF Cleanup
  <2> QED BY <2>2, <2>3
<1>6. NoReceipt \in ReceiptRow /\ NoReceipt.status = "none" /\ NoReceipt.attempts = 0
    BY DEF NoReceipt, ReceiptRow, Instant
<1>7. PipelineTypes'
  <2>1. TableTypes'
    <3>1. receipt' = [r \in Report |-> receipt'[r]] /\ outbox' = [r \in Report |-> outbox'[r]]
      BY DEF Cleanup
    <3>2. \A r \in Report : receipt'[r] \in ReceiptRow
      BY <1>0, <1>3, <1>6 DEF TableTypes
    <3> QED BY <1>4, <3>1, <3>2 DEF TableTypes
  <2> QED BY <1>0, <1>2, <2>1 DEF PipelineTypes, DispatcherTypes, WorkerTypes
<1>8. gone \subseteq done
    OBVIOUS
<1> HIDE DEF gone, sent, done
<1>9. ReceiptsHaveReports'
    BY <1>3, <1>5, <1>6, <1>8 DEF PipelineInv, ReceiptsHaveReports, Stored
<1>10. ReceiptsAgree'
    BY <1>2, <1>3, <1>4, <1>5, <1>6, <1>8, HostedAssumption DEF PipelineInv, ReceiptsAgree, Stored
<1>11. \A r \in Report : InFlight(r)' => InFlight(r)
    BY <1>2, <1>4 DEF InFlight
<1>12. WorkIsExclusive'
  <2>1. \A v \in Worker, s \in Report : Busy(v, s)' <=> Busy(v, s)
    BY <1>2 DEF Busy
  <2>2. \A r \in Report : r \in done /\ r \notin gone => ~InFlight(r)
    BY <1>2 DEF gone
  <2>3. ASSUME NEW r \in Report, r \notin contested PROVE ExclusiveFor(r)'
    <3>1. ExclusiveFor(r)
      BY <2>3 DEF PipelineInv, WorkIsExclusive
    <3>2. CASE r \in done
      <4>1. \A v \in Worker : ~Busy(v, r)
        <5>1. \A v \in Worker : Busy(v, r) => InFlight(r)
          BY DEF Busy, InFlight
        <5>2. r \in gone => \A v \in Worker : ~Busy(v, r)
          BY <1>5, <3>1 DEF ExclusiveFor
        <5> QED BY <2>2, <3>2, <5>1, <5>2
      <4>2. report'[r].status = "completed" => receipt'[r].status = "none" /\ ~InFlight(r)'
        BY <1>3, <1>5, <1>6, <1>11, <2>2, <3>2
      <4> QED BY <2>1, <4>1, <4>2 DEF ExclusiveFor
    <3>3. CASE r \notin done
      <4>1. receipt'[r] = receipt[r] /\ report'[r].status = report[r].status
        BY <1>3, <1>5, <1>8, <3>3
      <4> QED BY <1>11, <2>1, <3>1, <4>1, LeftAlone
    <3> QED BY <3>2, <3>3
  <2> QED BY <1>2, <2>3 DEF WorkIsExclusive
<1> QED BY <1>1, <1>7, <1>9, <1>10, <1>12 DEF PipelineInv

\* The clock, and steps that change nothing.
LEMMA StillKeeps ==
    ASSUME PipelineInv, HostedTick \/ UNCHANGED hostedVars
    PROVE  PipelineInv'
<1>0. now \in Nat /\ TableTypes /\ DispatcherTypes /\ WorkerTypes
    BY PipelineFacts
<1>1. UNCHANGED <<report, outbox, receipt, results, ledger, batch, dpc, message, wpc, job, contested>>
    BY DEF HostedTick, hostedVars, databaseVars, dispatcherVars, queueVars, workerVars, history
<1>2. now' \in Nat
    BY <1>0 DEF HostedTick, Tick, hostedVars
<1>3. SameReports
    BY <1>1, <1>2, QuietSteps DEF PipelineInv
<1>4. TableTypes' /\ DispatcherTypes' /\ message' \in [Report -> [Message -> Int]]
    BY <1>0, <1>1 DEF TableTypes, DispatcherTypes, WorkerTypes
<1>5. \A r \in Report : InFlight(r)' => InFlight(r)
    BY <1>1 DEF InFlight
<1> QED BY <1>1, <1>3, <1>4, <1>5, DispatcherStep

\* Every step of the pipeline preserves the invariant.
LEMMA PipelineStep == PipelineInv /\ [HostedNext]_hostedVars => PipelineInv'
<1> SUFFICES ASSUME PipelineInv, [HostedNext]_hostedVars PROVE PipelineInv'
    OBVIOUS
<1>1. ASSUME NEW k \in Key, NEW c \in Content, NEW r \in Report, AcceptReport(k, c, r)
      PROVE  PipelineInv'
    BY <1>1, AcceptReportKeeps
<1>2. CASE Cleanup
    BY <1>2, CleanupKeepsAll
<1>3. CASE HostedTick \/ UNCHANGED hostedVars
    BY <1>3, StillKeeps
<1>4. ASSUME NEW d \in Dispatcher, Dispatch(d) PROVE PipelineInv'
  <2>1. ASSUME NEW picked \in SUBSET Report, ClaimEvents(d, picked) PROVE PipelineInv'
    BY <2>1, ClaimEventsKeeps
  <2>2. ASSUME NEW e \in batch[d], Publish(d, e) PROVE PipelineInv'
    BY <2>2, PublishKeeps
  <2>3. CASE MarkDispatched(d) \/ MarkPending(d)
    BY <2>3, MarkKeeps
  <2>4. CASE MarkFails(d) \/ FailExhausted(d)
    BY <2>4, GiveUpKeeps
  <2> QED BY <1>4, <2>1, <2>2, <2>3, <2>4, Zenon DEF Dispatch
<1>5. ASSUME NEW d \in Dispatcher, DispatcherDies(d) PROVE PipelineInv'
    BY <1>5, GiveUpKeeps
<1>6. ASSUME NEW w \in Worker, Work(w) PROVE PipelineInv'
  <2>1. ASSUME NEW r \in Report, NEW i \in Message, ClaimReport(w, r, i) PROVE PipelineInv'
    BY <2>1, ClaimReportKeeps
  <2>2. ASSUME NEW r \in Report, NEW i \in Message, ClaimRefused(w, r, i) PROVE PipelineInv'
    BY <2>2, ClaimRefusedKeeps
  <2>3. CASE Process(w) \/ ProcessUnacknowledged(w)
    BY <2>3, ProcessKeeps
  <2>4. CASE ProcessFails(w) \/ ReadAttempts(w)
    BY <2>4, QuietWorkKeeps
  <2>5. CASE RecordFailure(w)
    BY <2>5, RecordFailureKeeps
  <2> QED BY <1>6, <2>1, <2>2, <2>3, <2>4, <2>5, Zenon DEF Work
<1>7. ASSUME NEW w \in Worker, WorkerDies(w) \/ QueueTimesOut(w) PROVE PipelineInv'
    BY <1>7, QuietWorkKeeps
<1>8. ASSUME NEW w \in Worker, NEW r \in Report, NEW i \in Message, DeliveryFails(w, r, i)
      PROVE  PipelineInv'
    BY <1>8, QuietWorkKeeps
<1> QED BY <1>1, <1>2, <1>3, <1>4, <1>5, <1>6, <1>7, <1>8, Zenon DEF HostedNext

\* The tables, the queue and the processes keep their types, and work on a report that is
\* not contested is exclusive, for any number of reports, dispatchers and workers.
THEOREM PipelineInvariance == HostedSpec => []PipelineInv
BY PipelineInit, PipelineStep, PTL DEF HostedSpec

\* What the API shows of a report agrees with the receipt of its job, whoever writes
\* late, and no event or job is tried more often than allowed.
THEOREM ReceiptsAlwaysAgree == HostedSpec => []ReceiptsAgree
<1>1. PipelineInv => ReceiptsAgree
    BY DEF PipelineInv
<1> QED BY <1>1, PipelineInvariance, PTL

\* No step takes a report back that is completed and not contested.
LEMMA CompletedStep ==
    ASSUME PipelineInv, [HostedNext]_hostedVars,
           NEW r \in Report, r \notin contested, report[r].status = "completed"
    PROVE  report'[r].status \in {"completed", "none"}
<1>0. now \in Nat /\ ReportRows /\ WorkerTypes /\ report \in [Report -> ReportRow]
    BY PipelineFacts
<1>1. receipt[r].status \in {"completed", "none"} /\ \A w \in Worker : ~Busy(w, r)
    BY DEF PipelineInv, WorkIsExclusive, ExclusiveFor
<1>2. ASSUME NEW k \in Key, NEW c \in Content, NEW s \in Report, AcceptReport(k, c, s)
      PROVE  report'[r] = report[r]
  <2>1. s # r
    BY <1>2 DEF AcceptReport, PipelineInv, ReceiptsHaveReports, Stored
  <2> QED BY <1>0, <1>2, <2>1 DEF AcceptReport
<1>3. CASE Cleanup
    BY <1>0, <1>3 DEF Cleanup, ReportRow
<1>4. ASSUME NEW R, report' = FailAccepted(R) PROVE report'[r] = report[r]
    BY <1>4, Zenon DEF FailAccepted
<1>5. ASSUME NEW d \in Dispatcher, Dispatch(d) \/ DispatcherDies(d) PROVE report'[r] = report[r]
  <2>1. ASSUME NEW picked \in SUBSET Report, ClaimEvents(d, picked) PROVE report'[r] = report[r]
    <3>1. report' = FailAccepted(Exhausted)
      BY <2>1, Zenon DEF ClaimEvents
    <3> QED BY <1>4, <3>1
  <2>2. ASSUME NEW e \in batch[d], Publish(d, e) PROVE report'[r] = report[r]
    BY <2>2 DEF Publish, databaseVars
  <2>3. CASE MarkDispatched(d) \/ MarkPending(d) \/ MarkFails(d) \/ DispatcherDies(d)
    BY <2>3 DEF MarkDispatched, MarkPending, MarkFails, DispatcherDies, databaseVars
  <2>4. CASE FailExhausted(d)
    <3>1. report' = FailAccepted({dpc[d].event.report})
      BY <2>4, Zenon DEF FailExhausted
    <3> QED BY <1>4, <3>1
  <2> QED BY <1>5, <2>1, <2>2, <2>3, <2>4, Zenon DEF Dispatch
<1>6. ASSUME NEW w \in Worker, Work(w) PROVE report'[r] = report[r]
  <2>1. ASSUME NEW s \in Report, NEW i \in Message, ClaimReport(w, s, i) PROVE report'[r] = report[r]
    BY <1>0, <2>1 DEF ClaimReport
  <2>2. ASSUME NEW s \in Report, NEW i \in Message, ClaimRefused(w, s, i) PROVE report'[r] = report[r]
    BY <1>0, <1>1, <2>2 DEF ClaimRefused
  <2>3. CASE Process(w) \/ ProcessUnacknowledged(w)
    <3>1. CompleteReport(w)
      BY <2>3 DEF Process, ProcessUnacknowledged
    <3>2. job[w].report # r
      BY <3>1 DEF CompleteReport
    <3> QED BY <1>0, <3>1, <3>2 DEF CompleteReport
  <2>4. CASE ProcessFails(w) \/ ReadAttempts(w)
    BY <2>4 DEF ProcessFails, ReadAttempts, databaseVars
  <2>5. CASE RecordFailure(w)
    <3>1. job[w].report # r
      BY <1>1, <2>5 DEF RecordFailure, Busy
    <3> QED BY <1>0, <2>5, <3>1 DEF RecordFailure
  <2> QED BY <1>6, <2>1, <2>2, <2>3, <2>4, <2>5, Zenon DEF Work
<1>7. CASE \/ HostedTick \/ UNCHANGED hostedVars
           \/ \E w \in Worker : WorkerDies(w) \/ QueueTimesOut(w)
           \/ \E w \in Worker, s \in Report, i \in Message : DeliveryFails(w, s, i)
    BY <1>7 DEF HostedTick, hostedVars, databaseVars, WorkerDies, QueueTimesOut, DeliveryFails
<1> QED BY <1>2, <1>3, <1>5, <1>6, <1>7 DEF HostedNext

\* A report that is completed stays so until runCleanup() deletes it, whoever dies, is slow
\* or is not waited for, unless two requests had it at once or a commit went unseen.
THEOREM CompletedReportsStay == HostedSpec => CompletedStays
<1>1. PipelineInv /\ [HostedNext]_hostedVars =>
        [\A r \in Report : report[r].status = "completed" /\ r \notin contested =>
            report'[r].status \in {"completed", "none"}]_hostedVars
    BY CompletedStep
<1> QED BY <1>1, PipelineInvariance, PTL DEF HostedSpec, CompletedStays
==============================================================================
