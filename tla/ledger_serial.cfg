SPECIFICATION SerialSpec
CONSTANTS
  r1 = r1 r2 = r2 r3 = r3 r4 = r4
  Requests = {r1, r2, r3, r4}
  Tenants = {"acme", "beta"}
  Accounts <- MCAccounts
  AccountType <- MCAccountType
  Submissions <- MCSales
  Dates <- MCDates
  Years <- MCYears
  YearOf <- MCYearOf
  Periods <- MCPeriods
  Span <- MCSpan
  PeriodKeywords = {"posting_date", "entry_date"}
SYMMETRY Symmetric4
CHECK_DEADLOCK FALSE
INVARIANTS NoDoubleReversal OneOwnerPerCall
PROPERTIES NoPostingIntoClosedPeriod ClosedPeriodIsFrozen YearIsClosed ReportsStayApart
