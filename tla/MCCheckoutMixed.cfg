SPECIFICATION FairSpec
CONSTANTS
  Customers = {alice}
  Workers = {w1, w2}
  NoCustomer = nobody
  Rows <- MCRows
  Shelf <- MixedShelf
  InitialStock <- MixedStock
  MaxQty = 1
INVARIANTS NoOversell DeadlockNeedsBothWays
PROPERTIES RequestsEnd
CHECK_DEADLOCK FALSE
