\* Transactions through the patched client; every task that waits ends.
SPECIFICATION FairSpec
CONSTANTS
  tA = tA  tB = tB  c1 = c1  c2 = c2  k1 = k1  k2 = k2
  Tenants = {tA, tB}
  Conns = {c1}
  Tasks = {k1, k2}
  MaxStatements = 2
  HookInTransactions = TRUE
  ConfigMayFail = FALSE
  Kinds = {"framework", "insert"}
  NoTenant = NoTenant
  Unset = Unset
  NoConn = NoConn
INVARIANTS RowsBelong
PROPERTIES TasksEnd
