------------------------------- MODULE MCBilling -------------------------------
(* A small tenant for Billing and Apps.                                    *)
EXTENDS Billing, TLC
Symmetry == Permutations(AppNames) \cup Permutations(Jobs)
=============================================================================
