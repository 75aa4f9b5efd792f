\* Everything may be bought, returned and sold, with nothing left to do.
CHECK_DEADLOCK FALSE
SPECIFICATION MCSpec
CONSTANTS
  Suppliers = {s1,s2}
  Orders = {o1}
  Invoices = {i1, i2}
  NoOrder = NoOrder
  Amounts = {1}
  Goods <- MCGoods
  MaxBought = 2
  Workers = {w1, w2}
  Returns = {r1, r2}
  Values = {1}
  MaxPromised = 1
SYMMETRY Symmetry
INVARIANTS
  PayablesReconcile
  OrdersInvoicedOnce
  GoodsReceivedOnce
  LayersHoldStock
  PromisesCovered
  ReturnsWithinPurchase
