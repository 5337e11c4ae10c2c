---------------------------- MODULE AccessPolicy ----------------------------
(***************************************************************************)
(* What the access records promise, each change a single step: a user has  *)
(* at most one workspace of their own, comes into a tenant by getting one  *)
(* or by being assigned, and acts only for tenants that exist.             *)
(***************************************************************************)
CONSTANTS Users, Tenants, None

VARIABLES home,   \* the tenant each user acts for
          admins, \* the recorded platform admins
          owner,  \* who each tenant was created for
          exists

policyVars == <<home, admins, owner, exists>>

PInit == /\ home = [u \in Users |-> None] /\ admins = {}
         /\ owner = [t \in Tenants |-> None] /\ exists \in SUBSET Tenants

GetWorkspace(u) == \E t \in Tenants \ exists :
  /\ u \notin admins /\ home[u] = None /\ u \notin {owner[x] : x \in Tenants}
  /\ exists' = exists \cup {t} /\ owner' = [owner EXCEPT ![t] = u]
  /\ home' = [home EXCEPT ![u] = t] /\ UNCHANGED admins

BecomeAdmin(u) == \E t \in exists \cup {None} :
  /\ u \notin admins /\ admins' = admins \cup {u}
  /\ home' = [home EXCEPT ![u] = t] /\ UNCHANGED <<owner, exists>>

Activate(u) == \E t \in exists \cup {None} :
  /\ u \in admins /\ home' = [home EXCEPT ![u] = t]
  /\ UNCHANGED <<admins, owner, exists>>

Assign(u) == \E t \in exists :
  /\ home' = [home EXCEPT ![u] = t] /\ admins' = admins \ {u}
  /\ UNCHANGED <<owner, exists>>

PNext == \E u \in Users : GetWorkspace(u) \/ BecomeAdmin(u) \/ Activate(u) \/ Assign(u)

PSpec == PInit /\ [][PNext]_policyVars
=============================================================================
