SPECIFICATION FairSpec
CONSTANTS
  r1 = r1 r2 = r2 r3 = r3
  Requests = {r1, r2, r3}
  Emails = {"ann", "bob", "longer than its column"}
  TooLong = {"longer than its column"}
  Chart = {"1020", "4010"}
  Roles = {"owner", "viewer"}
  MaxRegroups = 2
CHECK_DEADLOCK FALSE
INVARIANTS  AdmittedIsListed TrailNeedsRoleThere
PROPERTIES OnboardingSpec CallsEnd
