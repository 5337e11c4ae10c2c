------------------------- MODULE MCTenantManagement -------------------------
(* Instances of TenantManagement: two addresses, two or three row ids (so *)
(* that a removed member can come back under a new id), one or two tokens.  *)
EXTENDS TenantManagement, TLC

CONSTANTS u1, u2

\* One owner and one admin; two owners; one owner.
OwnerAndAdmin == u1 :> "owner" @@ u2 :> "admin"
TwoOwners     == u1 :> "owner" @@ u2 :> "owner"
OneOwner      == u1 :> "owner"

RowSymmetry == Permutations(MemberIds) \cup Permutations(Reqs) \cup Permutations(InviteIds)
=============================================================================
