SPECIFICATION FairSpec
CONSTANTS
  r1 = r1 r2 = r2 r3 = r3 r4 = r4
  Requests = {r1, r2, r3}
  Tenants = {"acme"}
  Accounts <- MCAccounts
  Submissions <- MCSubmissions
  Dates <- MCDates
  Years <- MCYears
  YearOf <- MCYearOf
  Periods = {"m1"}
  Span <- OneMonth
  AccountType <- MCAccountType
  PeriodKeywords = {"posting_date", "entry_date"}
CHECK_DEADLOCK FALSE
INVARIANTS TypeOK VoidedIsReversed UnfinishedVoidIsKnown AuditTellsLedger
  StoredEntriesBalance BooksTieOut
PROPERTIES JournalSpec MarkingVoidKeepsReports VoidCompletes
