CONSTANTS
  p1 = p1
  p2 = p2
  NoProc = NoProc
  Proc <- TwoProcs
  Product <- OneProduct
  Location <- TwoLocations
  WarehouseOf <- OneWarehouse
  Kinds <- AllKinds
  MaxQuantity = 1
  MaxRequests = 3
  InitialStock <- SoldUnregistered
SPECIFICATION FairSpec
CHECK_DEADLOCK FALSE
INVARIANTS LockOrderHolds
PROPERTIES PartOnlyByOverwriting NegativeOnlyBySale EveryRequestEnds
