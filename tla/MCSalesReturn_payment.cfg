\* Everything may be paid and returned, with nothing left to do.
CHECK_DEADLOCK FALSE
SPECIFICATION Spec
CONSTANTS
  Returns = {r1, r2}
  Days = {d1}
  Layers = 2
  Allocation <- MCAllocation
  Price = 2
  DocDiscount = 1
  MaxReplacement = 4
  Slots = 2
SYMMETRY Symmetry
INVARIANT
  OutstandingReceivable
