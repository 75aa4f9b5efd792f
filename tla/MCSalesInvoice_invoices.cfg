SPECIFICATION Spec
CONSTANTS
  Invoices = {i1, i2}
  Customers = {c1, c2}
  Guest = guest
  Products = {p1, p2}
  MaxQty = 1
  MaxTotal = 2
  MaxStock = 2
SYMMETRY Symmetry
INVARIANTS
  ReceivablesReconcile
  CustomersReconcile
  AdvancesReconcile
  PaymentsAccepted
  StockReconciles
  PromisesDeliverable
PROPERTIES
  FinalDocumentsFrozen
  ImplementsStockPromises
