SPECIFICATION FairSpec
CONSTANTS
  Rows <- MCRows
  Carts <- MCCarts
  InitialStock <- MCStock
  Workers = {w1, w2}
  Counts = {0, 2}
  MaxOrders = 2
  MaxOpened = 2
INVARIANTS TypeOK CyclesExplained
PROPERTIES MiscountsExplained ImplementsInventory RequestsEnd
CHECK_DEADLOCK FALSE
