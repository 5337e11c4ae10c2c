\* First logins, activations, assignments and tenant routes, two at a time.
SPECIFICATION Spec
CONSTANTS
  u1 = u1  u2 = u2  t0 = t0  t1 = t1  t2 = t2
  Users = {u1, u2}
  Tenants = {t0, t1, t2}
  Given = {t0}
  Reqs = {r1, r2}
  Ops = {"catalog", "use", "reactivate", "activate", "assign", "select"}
  LegacyHeader = FALSE
  MaxEvents = 3
  None = None
SYMMETRY Symmetry
INVARIANTS NoOrphanTenant HandlerInScope BlockedStaysOut PlatformOnly
PROPERTIES ImplementsPolicy
