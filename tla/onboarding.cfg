SPECIFICATION Spec
CONSTANTS
  e1 = e1
  e2 = e2
  Emails = {e1, e2}
  Slugs = {s1, s2}
  Calls = {r1, r2}
  Home = Home
  None = None
  Workloads <- MCWorkloads
  MaxTenants = 2
  MaxTokens = 2
  MaxFailures = 1
SYMMETRY Symmetry
CHECK_DEADLOCK FALSE
INVARIANTS TypeOK VerifiedIsComplete TokenMakesOneTenant CreationIsClean
