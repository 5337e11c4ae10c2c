--------------------------- MODULE TenantLifecycle ---------------------------
(***************************************************************************)
(* What the lifecycle policy promises of one tenant, each operation a      *)
(* single step: a blocked tenant accepts nothing but reactivation, and a   *)
(* scheduled deletion is not undone.                                       *)
(***************************************************************************)
VARIABLES status, legalHold, scheduledPurge

lifecycleVars == <<status, legalHold, scheduledPurge>>

LInit == /\ status = "active"
         /\ legalHold \in BOOLEAN
         /\ scheduledPurge = FALSE

Deactivate == status = "active" /\ status' = "inactive"
              /\ UNCHANGED <<legalHold, scheduledPurge>>

Suspend == status = "active" /\ status' = "suspended"
           /\ UNCHANGED <<legalHold, scheduledPurge>>

Reactivate == status \in {"active", "suspended", "inactive"} /\ status' = "active"
              /\ UNCHANGED <<legalHold, scheduledPurge>>

RequestDeletion == /\ status = "active" /\ ~legalHold
                   /\ status' = "pending_deletion" /\ scheduledPurge' = TRUE
                   /\ UNCHANGED legalHold

\* An operator places or lifts the hold; a purge already scheduled stays so.
ChangeHold == legalHold' = ~legalHold /\ UNCHANGED <<status, scheduledPurge>>

LNext == Deactivate \/ Suspend \/ Reactivate \/ RequestDeletion \/ ChangeHold

LSpec == LInit /\ [][LNext]_lifecycleVars
=============================================================================
