SPECIFICATION Spec
CONSTANTS
  r1 = r1 r2 = r2 r3 = r3
  Requests = {r1, r2}
  OpenBills <- OneOpenBill
  BillAmounts <- None
  InvoiceInputs <- None
  Rates <- MCRates
  Jobs = {}
  Statement <- NoStatements
  Matches <- MCMatches
  Categories <- MCCategories
  MaxTries = 1
CHECK_DEADLOCK FALSE
INVARIANT NoDoublePayment
