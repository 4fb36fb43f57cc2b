\* A worker crashes between the vendor's answer and the update.
CONSTANTS
  Items = {i1}
  Jobs = {j1}
  NoJob = NoJob
  Procs = {p1}
  MaxAttempts = 2
  QueueAttempts = 2
  MaxStalls = 1
  MaxFaults = 1
  MayReject = FALSE
  Staff = {"create"}
\* A fulfilled or cancelled order may leave nothing to do.
CHECK_DEADLOCK FALSE
SPECIFICATION Spec
INVARIANT NotSentTwice
