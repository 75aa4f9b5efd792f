\* Every loan may be closed and everything sold, with no room for more layers.
CHECK_DEADLOCK FALSE
SPECIFICATION MCSpec
CONSTANTS
  Products = {p, q}
  Bulk = {p}
  Packs = {q}
  UnitCosts = {2}
  MaxLayers = 2
  MaxStock = 2
  MaxQty = 2
  Loans = {l1}
  Provisional = 2
  Prices = {4}
  NoProduct = NoProduct
  Accounts = {1, 2}
  Amounts = {1}
  MaxBalance = 1
  Workers = {w1, w2}
INVARIANT
  WorthItsPrice
