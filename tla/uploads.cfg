SPECIFICATION FairSpec
CONSTANTS
  r1 = r1 r2 = r2 r3 = r3
  Requests = {r1, r2}
  KeyOf <- MCKeyOf
  WorkspaceOf <- OneWorkspace
  Expiring = {"retried"}
  Harmless = {r1}
  MaxTries = 2
CHECK_DEADLOCK FALSE
INVARIANTS TypeOK ReadableIsClean InfectedIsGone HarmlessIsKept PendingIsExplained ReplayedIsRecorded
PROPERTY ScanSettles
