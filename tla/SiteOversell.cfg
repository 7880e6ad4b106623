CONSTANTS
  o1 = o1
  o2 = o2
  NoOrder = NoOrder
  Order <- TwoOrders
  Quantity <- Ones
  Stock = 1
  MaxSales = 0
  MaxStops = 1
  MaxLate = 0
  MaxDecisions = 0
SPECIFICATION Spec
CHECK_DEADLOCK FALSE
INVARIANTS NothingIsOversold
