\* Transactions through an unpatched client; set_config may fail.
SPECIFICATION Spec
CONSTANTS
  tA = tA  tB = tB  c1 = c1  c2 = c2  k1 = k1  k2 = k2
  Tenants = {tA, tB}
  Conns = {c1}
  Tasks = {k1, k2}
  MaxStatements = 2
  HookInTransactions = FALSE
  ConfigMayFail = TRUE
  Kinds = {"framework", "scoped", "insert", "token"}
  NoTenant = NoTenant
  Unset = Unset
  NoConn = NoConn
SYMMETRY Symmetry
INVARIANTS TenantIsolation OwnRowsReached
