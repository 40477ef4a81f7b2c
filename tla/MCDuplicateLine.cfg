SPECIFICATION Spec
CONSTANTS
  Workers = {w1, w2}
  Items <- MCItems
  MaxQty = 1
  MaxRequests = 2
INVARIANTS OneLinePerProduct
CHECK_DEADLOCK FALSE
