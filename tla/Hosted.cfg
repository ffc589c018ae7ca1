CONSTANTS
    NoReport = NoReport
    NoContent = NoContent
    Report = {r1}
    Key = {i1}
    Content = {c1}
    Dispatcher = {d1}
    Worker = {w1, w2}
    Message = {1, 2}
    OutboxMaxAttempts = 2
    WorkerMaxAttempts = 2
    OutboxLease = 0
    WorkerLease = 0
    RetryDelay = 1
    KeyRetention = 1
    ReportRetention = 0
    JobRetention = 0
    ReportQuota = 1
    MaxTime = 2
SPECIFICATION HostedSpec
INVARIANT LedgerAnswers
INVARIANT ReceiptsAgree
PROPERTY CompletedStays
PROPERTY EveryReportSettles
CHECK_DEADLOCK FALSE
