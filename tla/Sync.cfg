CONSTANTS
  o1 = o1
  h1 = h1
  h2 = h2
  d1 = d1
  d2 = d2
  NoOp = NoOp
  NoSender = NoSender
  Sender <- TwoDrains
  Op <- OneOp
  Photographed <- OneOp
  TypeOf <- OneIn
  Handler <- TwoHandlers
  MaxBatch = 1
  MaxCrashes = 1
  MaxErrors = 1
  MaxStops = 1
SPECIFICATION OSFairSpec
CHECK_DEADLOCK FALSE
INVARIANTS
  StorableIsStored
PROPERTIES
  CapturedIsDelivered
