SPECIFICATION Spec
CONSTANTS
  Customers = {alice, bob}
  Workers = {w1, w2}
  NoCustomer = nobody
  Rows <- MCRows
  Shelf <- PlainShelf
  InitialStock <- PlainStock
  MaxQty = 1
SYMMETRY Symmetry
INVARIANTS TypeOK LedgerBalanced NoWaitCycle
PROPERTIES CleanCheckout ImplementsLedger
CHECK_DEADLOCK FALSE
