\* Safety and refinement, with every action of the model.
CONSTANTS
  Products = {1, 2}
  Orders = {o1, o2}
  Buyers = {b1}
  Keys = {k1}
  NoKey = NoKey
  Carts <- MCCarts
  InitialStock <- MCStock
  Sessions = {s1, s2}
  NoProduct = NoProduct
  MaxStock = 2
SPECIFICATION Spec
SYMMETRY Symmetry
INVARIANTS
  TypeOK
  StockConserved
  NothingSoldTwice
  OneOrderPerKey
  OneLiveAttemptPerBuyer
  BuyersNeverDeadlock
PROPERTY RefinesStore
