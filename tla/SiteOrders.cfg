CONSTANTS
  o1 = o1
  o2 = o2
  NoOrder = NoOrder
  Order <- OneOrder
  Quantity <- Ones
  Stock = 1
  MaxSales = 1
  MaxStops = 1
  MaxLate = 1
  MaxDecisions = 2
SPECIFICATION FairSpec
CHECK_DEADLOCK FALSE
INVARIANTS AckedIsLanded FreedIsInvoiced SyncedIsShown
PROPERTIES PlacedLands DecisionReachesSite
