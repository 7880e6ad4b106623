CONSTANTS
  p1 = p1
  p2 = p2
  NoProc = NoProc
  Proc <- TwoProcs
  Product <- OneProduct
  Location <- TwoLocations
  WarehouseOf <- OneWarehouse
  Kinds <- DeltaKinds
  MaxQuantity = 1
  MaxRequests = 3
  InitialStock <- SoldUnregistered
SPECIFICATION Spec
CHECK_DEADLOCK FALSE
PROPERTIES ImplementsAtomicStock
