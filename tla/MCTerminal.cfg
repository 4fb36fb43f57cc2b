\* A worker finishes an order while it is cancelled.
CONSTANTS
  Items = {i1, i2}
  Jobs = {j1, j2}
  NoJob = NoJob
  Procs = {p1, p2}
  MaxAttempts = 2
  QueueAttempts = 2
  MaxStalls = 1
  MaxFaults = 0
  MayReject = FALSE
  Staff = {"create", "cancel"}
\* A fulfilled or cancelled order may leave nothing to do.
CHECK_DEADLOCK FALSE
SPECIFICATION Spec
PROPERTY TerminalStays
