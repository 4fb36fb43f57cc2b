\* A Razorpay checkout meets a promotion nobody approved.
CONSTANTS
  MaxPromos = 2
  Percents = {3333, 5000}
  Shares = {5000}
  Checkouts = {c1}
  Prices = {7}
  Quantities = {1, 3}
  Policies = {}
\* Every checkout ends.
CHECK_DEADLOCK FALSE
SPECIFICATION Spec
INVARIANT OnlyApprovedApplied
