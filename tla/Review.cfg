CONSTANTS
  o1 = o1
  o2 = o2
  h1 = h1
  h2 = h2
  NoOp = NoOp
  NoSender = NoSender
  Sender <- OneSender
  MaxBatch = 2
  Op <- TwoOps
  Photographed <- OneOp
  TypeOf <- InAndCount
  Handler <- TwoHandlers
  MaxCrashes = 1
  MaxErrors = 1
SYMMETRY AnyHandler
SPECIFICATION Spec
INVARIANTS
  CommitsAtMostOnce
  FailedClaimIsReleased
PROPERTIES
  CommitIsFinal
