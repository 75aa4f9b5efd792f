\* Every opening may be completed and every form closed, with nothing left to do.
CHECK_DEADLOCK FALSE
SPECIFICATION MCSpec
CONSTANTS
  Adjustments = {a1}
  Opnames = {o1}
  Products = {p1}
  Workers = {w1, w2}
  MaxQty = 1
  MaxStock = 2
  MaxEdits = 1
  Parties = {x}
  Goods = {p, q}
  Drafters = {s1}
  Drafts = {d1, d2}
  NoDraft = NoDraft
  Clerks = {w1, w2}
  c1 = c1
  ord1 = ord1
  Customers = {c1}
  Guest = Guest
  Orders = {ord1}
  NoOrder = NoOrder
  Buyer <- MCBuyer
  MaxLines = 2
  MaxQuantity = 2
SYMMETRY Symmetry
VIEW MCView
INVARIANTS
  StockCoversPromises
  OpenedOnce
  AnswersInTime
  NothingOrderedTwice
PROPERTIES
  OpnameLeavesCount
