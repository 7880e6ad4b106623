CONSTANTS
  r1 = r1
  r2 = r2
  p1 = p1
  p2 = p2
  p3 = p3
  b1 = b1
  k1 = k1
  k2 = k2
  m1 = m1
  m2 = m2
  NoJob = NoProduct
  NoProduct = NoProduct
  NoRequest = NoRequest
  Request <- TwoRequests
  Job <- ThreeProducts
  Boxes = {b1}
  BoxOf <- OneBox
  Located <- FirstLocated
  Clerk = {k1, k2}
  Manager = {m1, m2}
  MaxErrors = 1
SYMMETRY AnyName
SPECIFICATION Spec
CHECK_DEADLOCK FALSE
INVARIANTS OneProductEach ApprovedIsOnShelf ApprovedBoxIsKnown PrintedOnce ProcessingIsServed
