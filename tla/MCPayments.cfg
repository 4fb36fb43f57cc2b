\* Safety and refinement, in every kind of deployment.
CONSTANTS
  Sessions = {s1, s2}
  Payments = {p1, p2}
  NoRef = NoRef
  Items = {i1}
  Deployments <- MCDeployments
SPECIFICATION Spec
SYMMETRY Symmetry
INVARIANTS
  CapturedWasCharged
  ConfirmedWasPaid
  RestocksExplained
  CancelledKeepsOnlyByEvent
PROPERTIES
  RefundSurvivesRedelivery
  ImplementsLifecycle
