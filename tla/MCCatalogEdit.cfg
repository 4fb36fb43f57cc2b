\* A product is edited while it is sold.
CONSTANTS
  Products = {1}
  Orders = {o1}
  Buyers = {b1}
  Keys = {k1}
  NoKey = NoKey
  Carts <- MCSingleCart
  InitialStock <- MCSingleStock
  Sessions = {s1}
  NoProduct = NoProduct
  MaxStock = 1
  Editors = {e1}
  NoEdit = NoEdit
SPECIFICATION EditSpec
INVARIANT StockSurvivesEdits
