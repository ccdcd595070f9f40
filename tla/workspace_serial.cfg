SPECIFICATION SerialSpec
CONSTANTS
  r1 = r1 r2 = r2 r3 = r3
  Requests = {r1, r2, r3}
  OpenBills <- OneOpenBill
  BillAmounts <- MCOneBill
  InvoiceInputs <- MCNumbered
  Rates <- MCRates
  Jobs = {"s1"}
  Statement <- TwoAlike
  Matches <- MCMatches
  Categories <- MCCategories
  MaxTries = 2
SYMMETRY Symmetric3
CHECK_DEADLOCK FALSE
INVARIANTS TypeOK NumbersAreSequential PaidOnce PayableIsOpenBills OneRulePerPattern ShownAsPosted
