---------------------------- MODULE MCOnboarding ----------------------------
(* Two calls, one address or two, and up to two tenants.                   *)
EXTENDS Onboarding, TLC
CONSTANTS e1, e2
Symmetry == Permutations(Slugs)
MCWorkloads == {{"signup", "verify", e1, e2}, {"create", e1}, {"signup", "verify", "wizard", "policy", e1}}
=============================================================================
