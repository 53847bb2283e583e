SPECIFICATION FairSpec
CONSTANTS
  MaxScan = 2
  Workers = {1, 2}
  Requests = {1, 2}
  Instances <- MCInstances
  Renderers = {k1}
  MaxAttempts = 2
  MaxRetries = 1
INVARIANTS TypeOK SlotLimit QueueLimit ReportShowsSuccess
PROPERTIES TerminalForGood NothingRunsForEver AcceptedScanEnds ReportSettles
CHECK_DEADLOCK FALSE
