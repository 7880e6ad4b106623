CONSTANTS
  p1 = p1
  p2 = p2
  k1 = k1
  k2 = k2
  k3 = k3
  NoProc = NoProc
  NoKey = NoKey
  NoLog = NoLog
  MaxLogs = 3
  Proc <- TwoProcs
  Key <- TwoKeys
  Initial <- Sales
  Requests <- AllRequests
SPECIFICATION Spec
CHECK_DEADLOCK FALSE
INVARIANTS NothingComesBackTwice
