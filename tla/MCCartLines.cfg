SPECIFICATION Spec
CONSTANTS
  Workers = {w1, w2}
  Items <- MCItems
  MaxQty = 1
  MaxRequests = 4
SYMMETRY Symmetry
INVARIANTS TypeOK OneLinePerVariant NothingInvented
PROPERTIES RemovedStaysRemoved
CHECK_DEADLOCK FALSE
