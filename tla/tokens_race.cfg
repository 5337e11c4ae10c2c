\* Two overlapping requests around invitations; requests may stop half-way.
SPECIFICATION Spec
CONSTANTS
  u1 = u1  u2 = u2
  Users = {u1, u2}
  Seats <- OneOwner
  MemberIds = {m1, m2, m3}
  InviteIds = {i1, i2}
  Reqs = {r1, r2}
  Ops = {"invite", "acceptInvitation", "removeMember"}
  AskedRoles = {"owner", "staff"}
  TokenColumn = "text"
  MayFail = TRUE
  Holds = {FALSE}
  None = None
SYMMETRY RowSymmetry
INVARIANTS AcceptedImpliesApplied 
