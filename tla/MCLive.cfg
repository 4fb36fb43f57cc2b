\* Liveness of purchases, of settlement, of fulfilment and of an order's page, under fairness.
CONSTANTS
  Sessions = {s1, s2}
  Products = {1, 2}
  Orders = {o1, o2}
  Buyers = {b1}
  Keys = {k1}
  NoKey = NoKey
  Carts <- MCPairCarts
  InitialStock <- MCPairStock
  NoProduct = NoProduct
  MaxStock = 0
  Payments = {p1}
  NoRef = NoRef
  Deployments <- MCDeployments
  Items = {i1, i2}
  Jobs = {j1, j2, j3}
  NoJob = NoJob
  MaxAttempts = 2
  QueueAttempts = 2
  MaxStalls = 1
  MaxFaults = 0
  MayReject = FALSE
  Staff = {"create"}
  MaxRetries = 1
  MaxMoves = 2
  MaxLosses = 2
  NoData = NoData
\* A fulfilled or cancelled order may leave nothing to do.
CHECK_DEADLOCK FALSE
SPECIFICATION Spec
PROPERTIES
  RequestsEnd
  SettlementsEnd
  OrderFulfilled
  ScreenCatchesUp
