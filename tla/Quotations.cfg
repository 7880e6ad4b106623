CONSTANTS
  q1 = q1
  b1 = b1
  l1 = l1
  l2 = l2
  h1 = h1
  h2 = h2
  NoSheet = NoSheet
  Quotation <- OneQuotation
  Blank <- OneBlank
  Line <- TwoLines
  Handler <- TwoHandlers
  MaxSheets = 1
  MaxEdits = 2
  MaxErrors = 1
SPECIFICATION FairSpec
CHECK_DEADLOCK FALSE
INVARIANTS OneSalePerSheet SoldAsShown CancelledIsUnsold TotalIsOfLines PricedIsPriced NothingGivenAway
PROPERTIES ConvertedStays RetryHeals
