------------------------- MODULE MCTenantUserAccess -------------------------
(* Instances of TenantUserAccess: one tenant that exists before, one or two *)
(* left for first logins.                                                   *)
EXTENDS TenantUserAccess, TLC

CONSTANTS u1, u2, t0, t1, t2

Symmetry == Permutations(Users) \cup Permutations(Tenants \ Given) \cup Permutations(Reqs)
=============================================================================
