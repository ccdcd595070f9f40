SPECIFICATION FairSpec
CONSTANTS
  r1 = r1 r2 = r2 r3 = r3
  Requests = {r1, r2}
  OpenBills <- OneOpenBill
  BillAmounts <- MCBills
  InvoiceInputs <- MCInvoices
  Rates <- MCRates
  Jobs = {"s1"}
  Statement <- TwoRows
  Matches <- MCMatches
  Categories <- MCCategories
  MaxTries = 2
CHECK_DEADLOCK FALSE
INVARIANTS InvoicesTieOut LinksAreRight PaidMeansPosted ImportedWhole OffQueueIsExplained
  AuditTellsDocuments
PROPERTIES CallsEnd
