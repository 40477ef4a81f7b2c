SPECIFICATION MCSpec
CONSTANTS
  MaxProducts = 3
  Price <- MCPrice
  Categories <- MCCategories
  ParentOf <- MCParentOf
  Shop = "shop"
  PageSize = 2
  MaxChanges = 2
  MaxOrders = 2
  Total <- MCTotal
  Quantity <- MCQuantity
  SoldProducts = {"candle", "wick", "vase"}
  TopLimit = 2
  Methods = {"COD", "ESEWA"}
  Any = "any"
  MaxDay = 2
  DayLimit = 1
  WeekLength = 2
  MaxMoves = 2
INVARIANTS MethodShares
CHECK_DEADLOCK FALSE
