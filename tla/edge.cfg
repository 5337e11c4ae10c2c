SPECIFICATION Spec
CONSTANTS
  t1 = t1
  t2 = t2
  ip1 = ip1
  u1 = u1
  Tenants = {t1, t2}
  System = System
  Ips = {ip1}
  Actors = {u1}
  NoActor = NoActor
  NoScope = NoScope
  Requests = {r1, r2}
  Shapes <- MCShapes
  Deliveries = {d1, d2}
  Nonces = {n1}
  NoNonce = NoNonce
  MaxIp = 2
  MaxMutation = 1
  Throttle = 3
  Hard = 1
  Grace = 1
  AlertAt = 2
  SpikeAt = 2
  RateWindow = 2
  QuotaWindow = 3
  PatternWindow = 3
  MaxSkew = 2
  Ttl = 4
  MaxQuery = 1
  MaxTime = 4
  Workloads = {{"limits"}, {"mutations"}, {"limits", "invalidation"}, {"leakage", "invalidation"}, {"webhooks", "invalidation"}}
SYMMETRY Symmetry
INVARIANTS TypeOK RatesBounded
PROPERTIES CrossTenantReported ReplayOnlyAtBoundary
