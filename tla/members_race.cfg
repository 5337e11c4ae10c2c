\* Two overlapping requests that change roles or the tenant's status, while
\* operators place and lift the legal hold.
SPECIFICATION Spec
CONSTANTS
  u1 = u1  u2 = u2
  Users = {u1, u2}
  Seats <- OwnerAndAdmin
  MemberIds = {m1, m2}
  InviteIds = {i1}
  Reqs = {r1, r2}
  Ops = {"updateMemberRole", "removeMember", "transferOwnership", "deactivateTenant", "suspendTenant", "reactivateTenant", "requestTenantDeletion"}
  AskedRoles = {"owner", "staff"}
  TokenColumn = "text"
  MayFail = TRUE
  Holds = {TRUE, FALSE}
  None = None
SYMMETRY RowSymmetry
INVARIANTS OwnersAreLegitimate
PROPERTIES LegalHoldBlocksDeletion LifecycleByOwnersOnly
