SPECIFICATION SerialSpec
CONSTANTS
  r1 = r1 r2 = r2 r3 = r3
  Requests = {r1, r2}
  OpenBills <- NoOpenBills
  BillAmounts <- None
  InvoiceInputs <- None
  Rates <- MCRates
  Jobs = {"s1", "s2"}
  Statement <- Returning
  Matches <- MCMatches
  Categories <- MCCategories
  MaxTries = 1
CHECK_DEADLOCK FALSE
INVARIANT PostedOrUpForReview
