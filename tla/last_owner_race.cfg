\* Two owners removed or downgraded at once.
SPECIFICATION Spec
CONSTANTS
  u1 = u1  u2 = u2
  Users = {u1, u2}
  Seats <- TwoOwners
  MemberIds = {m1, m2}
  InviteIds = {i1}
  Reqs = {r1, r2}
  Ops = {"updateMemberRole", "removeMember"}
  AskedRoles = {"owner", "staff"}
  TokenColumn = "text"
  MayFail = FALSE
  Holds = {FALSE}
  None = None
INVARIANTS OwnerRemains
