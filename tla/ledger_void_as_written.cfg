SPECIFICATION Spec
CONSTANTS
  r1 = r1 r2 = r2 r3 = r3 r4 = r4
  Requests = {r1, r2, r3}
  Tenants = {"acme"}
  Accounts <- MCAccounts
  Submissions <- MCSales
  Dates <- MCDates
  Years <- MCYears
  YearOf <- MCYearOf
  Periods = {"m1"}
  Span <- OneMonth
  AccountType <- MCAccountType
  PeriodKeywords = {"entry_date"}
CHECK_DEADLOCK FALSE
INVARIANT VoidIsAnswered
