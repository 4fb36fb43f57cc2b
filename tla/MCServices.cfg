\* Every part on its own, with two requests at a time.
CONSTANTS
  Sessions = {s1, s2}
  NoRow = NoRow
  Amounts = {1, 2}
  Instants = {1, 2}
  MaxPromos = 2
  Percents = {3333, 5000}
  Shares = {5000}
  Checkouts = {c1}
  Prices = {7}
  Quantities = {1, 3}
  Policies <- MCPolicies
  Users = {u1, u2}
  Staff = {u2}
  Applications = {a1, a2}
  Vendors = {v1, v2}
  Names = {n1, n2}
  Guest = Guest
  None = None
  Addrs = {d1, d2}
  Labels = {l1, l2}
  NoLabel = NoLabel
  Jobs = {j1, j2, j3}
  DefaultConcurrency = 2
  MaxConcurrency = 2
  Requested = {0, 1, 3}
  NoVendor = NoVendor
  Calls = {s1, s2}
  MaxRestores = 2
  MaxStock = 1
  Ids = {1, 2}
  Accounts = {p1, p2}
  MaxSeeds = 2
  MaxCopies = 2
  Questions = {q1, q2}
  Acts = {s1, s2}
  MaxLoads = 4
  Releases = {25, 36}
  Kinds = {"user of no vendor", "two pending applications"}
  Goods = {1, 2, 3}
  Categories = {k1}
  ListPrices = {1, 2}
  PageSize = 2
  Unset = Unset
  MaxEdits = 1
  Shelves = {1, 2}
  Initial = 1
  PoolSize = 3
  MaxChanges = 2
  NoChange = NoChange
  VendorSeeds = {1, 2}
  SeedStock = 2
  MinStock = 2
  TestStock = 1
  Concurrent = 2
  PerProduct = 1
  MaxScripts = 3
  MaxShop = 1
  Nobody = Nobody
  MaxSettings = 3
  Passwords = {w1}
  Links = {k2}
  NoOne = NoOne
  Tokens = {1, 2, 3}
  NoToken = NoToken
  MaxUnits = 2
\* Bounds and single-use rows leave some services nothing to do.
CHECK_DEADLOCK FALSE
SPECIFICATION Spec
SYMMETRY Symmetry
INVARIANTS
  OneAnswer
  AmountsAddUp
  AccountsSound
  OneDefaultUnlessRaced
  JobsHaveWorkers
  SessionsSound
  OneOutcome
  PaidWhereApproved
  SeededOnce
  ScreenAnswers
  SchemaSettles
  OffersServed
  BrowsingIsComplete
  TrailExplainsStock
  ReportsAreTrue
  StartsAgree
PROPERTIES
  DecisionIsFinal
  ListsKept
