--------------------------- MODULE MCSalesInvoice ---------------------------
EXTENDS SalesInvoice, TLC

\* Invoices are created in any order and customers are interchangeable.
Symmetry == Permutations(Invoices) \cup Permutations(Customers) \cup Permutations(Products)
=============================================================================
