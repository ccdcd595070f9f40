SPECIFICATION Spec
CONSTANTS
  r1 = r1 r2 = r2 r3 = r3
  Requests = {r1, r2, r3}
  KeyOf <- MCKeyOf
  WorkspaceOf <- TwoWorkspaces
  Expiring = {}
  Harmless = {r1, r3}
  MaxTries = 2
CHECK_DEADLOCK FALSE
INVARIANT ReplayStaysInWorkspace
