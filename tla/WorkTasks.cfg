CONSTANTS
  i1 = i1
  i2 = i2
  t1 = t1
  t2 = t2
  t3 = t3
  h1 = h1
  h2 = h2
  NoTick = NoTick
  NoWorker = NoWorker
  Item <- Items
  Tick <- ThreeTicks
  ItemOf <- TheirItem
  WorkerOf <- TheirWorker
  Worker <- TwoWorkers
  Handler <- TwoHandlers
  MaxTrouble = 2
CHECK_DEADLOCK FALSE
SYMMETRY AnyHandler
SPECIFICATION Spec
INVARIANTS
  TickedIsShelved
  OKMeansMine
  CompletedIsDone
