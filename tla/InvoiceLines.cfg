CONSTANTS
  p1 = p1
  p2 = p2
  k1 = k1
  k2 = k2
  k3 = k3
  NoProc = NoProc
  NoKey = NoKey
  NoLog = NoLog
  MaxLogs = 3
  Proc <- TwoProcs
  Key <- ThreeKeys
  Initial <- Sales
  Requests <- AllRequests
SPECIFICATION Spec
CHECK_DEADLOCK FALSE
SYMMETRY Symmetry
INVARIANTS NoLineBelowZero LinesAccountForGoods DueCoversLedger
PROPERTIES CancelledIsClosed ImplementsAtomicInvoice
