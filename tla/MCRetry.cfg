\* A vendor rejects a request.
CONSTANTS
  Items = {i1}
  Jobs = {j1}
  NoJob = NoJob
  Procs = {p1}
  MaxAttempts = 5
  QueueAttempts = 5
  MaxStalls = 1
  MaxFaults = 0
  MayReject = TRUE
  Staff = {"create"}
\* A fulfilled or cancelled order may leave nothing to do.
CHECK_DEADLOCK FALSE
SPECIFICATION FairSpec
PROPERTY FailedJobRetried
