\* One request at a time, of any kind, any of them cut short anywhere.
SPECIFICATION Spec
CONSTANTS
  u1 = u1  u2 = u2
  Users = {u1, u2}
  Seats <- OwnerAndAdmin
  MemberIds = {m1, m2, m3}
  InviteIds = {i1}
  Reqs = {r1}
  Ops = {"invite", "acceptInvitation", "updateMemberRole", "removeMember", "transferOwnership", "deactivateTenant", "suspendTenant", "reactivateTenant", "requestTenantDeletion"}
  AskedRoles = {"owner", "staff"}
  TokenColumn = "text"
  MayFail = TRUE
  Holds = {TRUE, FALSE}
  None = None
INVARIANTS AuditIsTrue
PROPERTIES  ImplementsLifecycle
