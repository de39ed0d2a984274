CONSTANTS
  Filings = {f1, f2}
  Amendments = {f2}
  MaxTime = 2
  MaxPolls = 2
  MaxExecutions = 2
  MaxRevisions = 1
SPECIFICATION MonitorSpec
INVARIANTS
    ReportsExact
    PollIsOneRead
CHECK_DEADLOCK FALSE
