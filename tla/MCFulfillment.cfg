\* Two handlers at a time: every operation of staff without faults; or crashes, lost
\* locks and failed statements.
CONSTANTS
  Items = {i1, i2}
  Jobs = {j1, j2}
  NoJob = NoJob
  Procs = {p1, p2}
  MaxAttempts = 1
  QueueAttempts = 2
  MaxStalls = 1
  MaxFaults = 0
  MayReject = TRUE
  Staff = {"create", "reconcile", "resolve", "retry", "cancel"}
  FaultyStaff = {"create", "reconcile", "transition", "cancel"}
\* A fulfilled or cancelled order may leave nothing to do.
CHECK_DEADLOCK FALSE
SPECIFICATION MCSpec
SYMMETRY Symmetry
INVARIANTS
  OnlyPaidSent
  ConfirmedIsEarned
  FulfilledIsEarned
  DuplicatesExplained
