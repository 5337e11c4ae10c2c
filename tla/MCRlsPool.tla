----------------------------- MODULE MCRlsPool -----------------------------
(* Instances of RlsPool for TLC. *)
EXTENDS RlsPool, TLC

CONSTANTS tA, tB, c1, c2, k1, k2

\* Tenants, connections and tasks are interchangeable.
Symmetry == Permutations(Tenants) \cup Permutations(Conns) \cup Permutations(Tasks)
=============================================================================
