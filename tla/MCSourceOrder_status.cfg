\* Every order and invoice may be final, with nothing left to do.
CHECK_DEADLOCK FALSE
SPECIFICATION MCSpec
CONSTANTS
  Orders = {o1}
  NoOrder = none
  Invoices = {i1, i2}
  Parties = {c1}
  Lines = {l1, l2}
  Workers = {w1, w2}
  MaxQty = 1
  MaxBonus = 0
SYMMETRY Symmetry
INVARIANT
  CompletedIsFulfilled
