CONSTANTS
  h1 = h1
  h2 = h2
  c1 = c1
  NoCheque = NoCheque
  Handler <- TwoHandlers
  Invoice <- TwoInvoices
  Price <- OneAndTwo
  Cheque <- OneCheque
  Charges = {0, 1}
  MaxAmount = 2
  MaxCalls = 5
SYMMETRY AnyHandler
SPECIFICATION Spec
CHECK_DEADLOCK FALSE
INVARIANTS DueWithinPrice LedgerReconciles CreditCoversPayout ChequesReconcile
