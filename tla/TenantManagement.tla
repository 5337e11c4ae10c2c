-------------------------- MODULE TenantManagement --------------------------
(***************************************************************************)
(* One tenant of the tenant-management module: its tenant row, its         *)
(* tenant_membership and tenant_invitation rows, and the admin requests    *)
(* that change them.                                                       *)
(*                                                                         *)
(* A request is what one HTTP handler does: authorizeTenantAction, then    *)
(* one method of TenantManagementModuleService.  Neither runs in a         *)
(* transaction (the ownership transfer's two updates apart), so every      *)
(* awaited statement is a step of its own and the statements of concurrent *)
(* requests interleave.  req[r] holds the request's program counter and    *)
(* the values it has read and carries across its awaits.                   *)
(*                                                                         *)
(* A request may also stop between two statements: a statement fails, the  *)
(* 409 tenant mismatch of a multi-tenant actor, the process stops.         *)
(* Resetting the in-process maps (invalidateTenantRuntimeState) follows    *)
(* the audit row; those maps belong to the middleware, not to this module. *)
(***************************************************************************)
EXTENDS Naturals, FiniteSets

CONSTANTS
  Users,        \* e-mail addresses
  Seats,        \* addresses that are members at the start, and their roles
  MemberIds,    \* ids of tenant_membership rows, never reused
  InviteIds,    \* ids of tenant_invitation rows, one token each
  Reqs,         \* requests that can be in flight at the same time
  Ops,          \* the operations clients call in this instance
  AskedRoles,   \* role strings found in request bodies
  TokenColumn,  \* type of invitation_token: "uuid" (migration) or "text" (model)
  MayFail,      \* whether a request may stop between two statements
  Holds,        \* values operators give tenant.legal_hold
  None          \* no row, no user, no invitation

AllOps == {"invite", "acceptInvitation", "updateMemberRole", "removeMember",
           "transferOwnership", "deactivateTenant", "suspendTenant",
           "reactivateTenant", "requestTenantDeletion"}

TenantRoles  == {"owner", "admin", "member", "viewer"}
Seated == DOMAIN Seats

ASSUME NoneAssumption   == None \notin Users \cup MemberIds \cup InviteIds
ASSUME SeatsAssumption  == /\ Seated \subseteq Users
                           /\ Seats \in [Seated -> TenantRoles]
                           /\ \E u \in Seated : Seats[u] = "owner"
ASSUME FiniteAssumption == IsFiniteSet(MemberIds)
ASSUME OpsAssumption    == Ops \subseteq AllOps
ASSUME ColumnAssumption == TokenColumn \in {"uuid", "text"}
ASSUME FailAssumption   == MayFail \in BOOLEAN /\ Holds \subseteq BOOLEAN

TenantStatus == {"active", "suspended", "inactive", "pending_deletion", "deleted"}

\* Every status but 'active' blocks access.
IsTenantAccessBlocked(s) == s \in {"suspended", "inactive", "pending_deletion", "deleted"}

\* 'staff' and every unknown role become 'member'.
NormalizeRole(asked) == IF asked \in TenantRoles THEN asked ELSE "member"

\* Variant: admins may do everything.
ActionPermissions_Admins(op) == {"owner", "admin"}

\* The TenantAction a handler asks authorizeTenantAction for, by its roles.
ActionPermissions(op) ==
  IF op \in {"invite", "updateMemberRole", "removeMember"} THEN {"owner", "admin"}
                                                          ELSE {"owner"}

LifecycleOps == {"deactivateTenant", "suspendTenant", "reactivateTenant",
                 "requestTenantDeletion"}

\* The status a lifecycle operation writes.
NewStatus(op) == CASE op = "deactivateTenant"      -> "inactive"
                   [] op = "suspendTenant"         -> "suspended"
                   [] op = "reactivateTenant"      -> "active"
                   [] op = "requestTenantDeletion" -> "pending_deletion"

VARIABLES
  status,        \* tenant.status
  legalHold,     \* tenant.legal_hold: set by operators, never by this code
  scheduledPurge,\* whether tenant.scheduled_purge_at is set
  rows,          \* tenant_membership
  invites,       \* tenant_invitation
  req,           \* requests in flight
  ownersEver,    \* history: rows made owner at the start, by transfer or by invitation
  applied        \* history: invitations whose membership write has run

vars == <<status, legalHold, scheduledPurge, rows, invites, req, ownersEver,
          applied>>
tenantVars  == <<status, legalHold, scheduledPurge>>
historyVars == <<ownersEver, applied>>

Row == [state  : {"free", "live", "deleted"},
        email  : Users \cup {None},
        role   : TenantRoles,
        status : {"active", "inactive"}]

Invitation == [state   : {"free", "pending", "accepted"},
               email   : Users \cup {None},
               role    : TenantRoles,
               expired : BOOLEAN]

Phase == {"idle", "authMember", "authStatus", "readTenant", "readMember",
          "countOwners", "readActor", "readTarget", "readInvitation",
          "readExisting", "write", "writeMembers", "markAccepted", "audit"}

Request == [pc     : Phase,
            op     : AllOps \cup {"none"},
            actor  : Users \cup {None},
            role   : TenantRoles,             \* role to give
            email  : Users \cup {None},       \* address to invite
            inv    : InviteIds \cup {None},
            target : MemberIds \cup {None},   \* row named by the path or read
            source : MemberIds \cup {None},   \* row of the owner who transfers
            seen   : TenantRoles,             \* actor's role; until authorised
            held   : BOOLEAN]                 \* history, of a deletion: under legal
                                              \* hold ever since it was asked for

TypeOK ==
  /\ status \in TenantStatus
  /\ legalHold \in BOOLEAN
  /\ scheduledPurge \in BOOLEAN
  /\ rows \in [MemberIds -> Row]
  /\ invites \in [InviteIds -> Invitation]
  /\ req \in [Reqs -> Request]
  /\ ownersEver \subseteq MemberIds
  /\ applied \subseteq InviteIds

FreeRow    == [state |-> "free", email |-> None, role |-> "member", status |-> "inactive"]
FreeInvite == [state |-> "free", email |-> None, role |-> "member", expired |-> FALSE]
Idle == [pc |-> "idle", op |-> "none", actor |-> None, role |-> "member",
         email |-> None, inv |-> None, target |-> None, source |-> None,
         seen |-> "member", held |-> FALSE]

Live        == {m \in MemberIds : rows[m].state = "live"}
LiveActive  == {m \in Live : rows[m].status = "active"}
OwnerRows   == {m \in Live : rows[m].role = "owner"}
ActiveOwners == OwnerRows \cap LiveActive
RowsOf(u)   == {m \in Live : rows[m].email = u}

\* A tenant in service: active, with the members its creation, accepted
\* invitations and transfers have left, all active, at least one an owner.
Init ==
  /\ status = "active"
  /\ legalHold \in Holds
  /\ scheduledPurge = FALSE
  /\ \E seat \in [Seated -> MemberIds] :
       /\ \A u, v \in Seated : seat[u] = seat[v] => u = v
       /\ rows = [m \in MemberIds |->
                    IF \E u \in Seated : seat[u] = m
                    THEN LET u == CHOOSE v \in Seated : seat[v] = m IN
                           [state |-> "live", email |-> u, role |-> Seats[u],
                            status |-> "active"]
                    ELSE FreeRow]
       /\ ownersEver = {seat[u] : u \in {v \in Seated : Seats[v] = "owner"}}
  /\ invites = [i \in InviteIds |-> FreeInvite]
  /\ req = [r \in Reqs |-> Idle]
  /\ applied = {}

-----------------------------------------------------------------------------
(* Requests arrive, move on and end.                                       *)

Begin(r, new) ==
  /\ req[r].pc = "idle"
  /\ new.op \in Ops
  /\ req' = [req EXCEPT ![r] = new]
  /\ UNCHANGED <<tenantVars, rows, invites, historyVars>>

\* Bound: an invitation is asked for while an unused id is left.
BeginInvite(r) == \E u, e \in Users, asked \in AskedRoles, i \in InviteIds :
  /\ invites[i].state = "free" /\ \A s \in Reqs : req[s].inv # i
  /\ Begin(r, [Idle EXCEPT !.pc = "authMember", !.op = "invite", !.actor = u, !.inv = i,
                           !.email = e, !.role = NormalizeRole(asked)])

BeginUpdateRole(r) == \E u \in Users, asked \in AskedRoles, m \in MemberIds :
  /\ rows[m].state # "free"
  /\ Begin(r, [Idle EXCEPT !.pc = "authMember", !.op = "updateMemberRole", !.actor = u,
                           !.target = m, !.role = NormalizeRole(asked)])

BeginOnMember(r) == \E u \in Users, m \in MemberIds, op \in {"removeMember", "transferOwnership"} :
  /\ rows[m].state # "free"
  /\ Begin(r, [Idle EXCEPT !.pc = "authMember", !.op = op, !.actor = u, !.target = m])

BeginLifecycle(r) == \E u \in Users, op \in LifecycleOps :
  Begin(r, [Idle EXCEPT !.pc = "authMember", !.op = op, !.actor = u,
                        !.held = legalHold /\ op = "requestTenantDeletion"])

\* Accepting needs the token only.  Bound: every request that accepts can be
\* given a row id of its own.
BeginAccept(r) == \E i \in InviteIds :
  /\ invites[i].state # "free"
  /\ Cardinality({s \in Reqs : req[s].op = "acceptInvitation"})
       < Cardinality({m \in MemberIds : rows[m].state = "free"})
  /\ Begin(r, [Idle EXCEPT !.pc = "readInvitation", !.op = "acceptInvitation", !.inv = i])

Goto(r, phase) == req' = [req EXCEPT ![r].pc = phase]
Finish(r)      == req' = [req EXCEPT ![r] = Idle]

\* A read of request r: nothing but the request itself changes.
ReadOnly == UNCHANGED <<tenantVars, rows, invites, historyVars>>

\* A request ends between two statements.
Abort(r) == /\ MayFail /\ req[r].pc # "idle"
            /\ Finish(r) /\ ReadOnly

\* An operator places or lifts the legal hold, in SQL.  The statement counts
\* as a request of its own: it comes when no other one has the slot r.
ChangeHold(r) ==
  /\ req[r].pc = "idle"
  /\ legalHold' \in Holds \ {legalHold}
  /\ req' = [s \in Reqs |-> [req[s] EXCEPT !.held = @ /\ legalHold']]
  /\ UNCHANGED <<status, scheduledPurge, rows, invites, historyVars>>

-----------------------------------------------------------------------------
(* authorizeTenantAction: the membership is read first, the status after.  *)

AuthoriseMember(r) ==
  /\ req[r].pc = "authMember"
  /\ \/ \E m \in RowsOf(req[r].actor) :
          /\ rows[m].status = "active"
          /\ req' = [req EXCEPT ![r].pc = "authStatus", ![r].seen = rows[m].role]
     \/ /\ \A m \in RowsOf(req[r].actor) : rows[m].status # "active"
        /\ Finish(r)
  /\ ReadOnly

\* Where the service method of op starts.
FirstPhase(op) == CASE op = "invite"                               -> "write"
                    [] op \in {"updateMemberRole", "removeMember"} -> "readMember"
                    [] op = "transferOwnership"                    -> "readActor"
                    [] op \in LifecycleOps                         -> "readTenant"

\* Variant: the status is not looked at.
Authorised_NoStatus(r) == req[r].seen \in ActionPermissions(req[r].op)

Authorised(r) ==
  /\ req[r].op = "reactivateTenant" \/ ~IsTenantAccessBlocked(status)
  /\ req[r].seen \in ActionPermissions(req[r].op)

\* The other methods pass the actor on to the audit row only.
UsesActor(op) == op \in LifecycleOps \cup {"transferOwnership"}

AuthoriseStatus(r) ==
  /\ req[r].pc = "authStatus"
  /\ IF Authorised(r)
     THEN req' = [req EXCEPT ![r].pc = FirstPhase(req[r].op), ![r].seen = "member",
                             ![r].actor = IF UsesActor(req[r].op) THEN @ ELSE None]
     ELSE Finish(r)
  /\ ReadOnly

-----------------------------------------------------------------------------
(* inviteUserToTenant                                                      *)

\* The token "<tenant>.<role>.<nonce>" is no UUID: a uuid column refuses it.
InsertInvitation(r) ==
  /\ req[r].pc = "write" /\ req[r].op = "invite"
  /\ IF TokenColumn = "text"
     THEN /\ invites' = [invites EXCEPT ![req[r].inv] =
                            [state |-> "pending", email |-> req[r].email,
                             role |-> req[r].role, expired |-> FALSE]]
          /\ Goto(r, "audit")
     ELSE Finish(r) /\ UNCHANGED invites
  /\ UNCHANGED <<tenantVars, rows, historyVars>>

\* expires_at passes.
ExpireInvitation(i) ==
  /\ invites[i].state = "pending"
  /\ invites' = [invites EXCEPT ![i].expired = TRUE]
  /\ UNCHANGED <<tenantVars, rows, req, historyVars>>

-----------------------------------------------------------------------------
(* acceptInvitation                                                        *)

\* Variant: the address comes from the request, not from the invitation.
ReadInvitation_AnyEmail(r) ==
  /\ req[r].pc = "readInvitation"
  /\ LET i == invites[req[r].inv] IN
       IF i.state = "pending" /\ ~i.expired
       THEN \E u \in Users :
              req' = [req EXCEPT ![r].pc = "readExisting", ![r].email = u, ![r].role = i.role]
       ELSE Finish(r)
  /\ ReadOnly

ReadInvitation(r) ==
  /\ req[r].pc = "readInvitation"
  /\ LET i == invites[req[r].inv] IN
       IF i.state = "pending" /\ ~i.expired
       THEN req' = [req EXCEPT ![r].pc = "readExisting", ![r].email = i.email, ![r].role = i.role]
       ELSE Finish(r)
  /\ ReadOnly

ReadExistingMember(r) ==
  /\ req[r].pc = "readExisting"
  /\ \/ \E m \in RowsOf(req[r].email) :
          req' = [req EXCEPT ![r].pc = "write", ![r].target = m]
     \/ /\ RowsOf(req[r].email) = {}
        /\ Goto(r, "write")
  /\ ReadOnly

\* An UPDATE by id of a row that is gone changes nothing and does not fail.
SetRow(m, role, st) ==
  rows' = [rows EXCEPT ![m] = IF @.state = "live" THEN [@ EXCEPT !.role = role, !.status = st]
                                                  ELSE @]

NoteOwner(m, role) ==
  ownersEver' = IF role = "owner" THEN ownersEver \cup {m} ELSE ownersEver

AcceptUpdate(r) ==
  /\ req[r].pc = "write" /\ req[r].op = "acceptInvitation" /\ req[r].target # None
  /\ SetRow(req[r].target, req[r].role, "active")
  /\ NoteOwner(req[r].target, req[r].role)
  /\ applied' = applied \cup {req[r].inv}
  /\ Goto(r, "markAccepted")
  /\ UNCHANGED <<tenantVars, invites>>

\* Variant: a unique violation is taken for success.
AcceptInsert_IgnoreConflict(r) ==
  /\ req[r].pc = "write" /\ req[r].op = "acceptInvitation" /\ req[r].target = None
  /\ \/ /\ RowsOf(req[r].email) = {}
        /\ \E m \in MemberIds :
             /\ rows[m].state = "free"
             /\ rows' = [rows EXCEPT ![m] = [state |-> "live", email |-> req[r].email,
                                             role |-> req[r].role, status |-> "active"]]
             /\ NoteOwner(m, req[r].role)
        /\ applied' = applied \cup {req[r].inv}
     \/ /\ RowsOf(req[r].email) # {}
        /\ UNCHANGED <<rows, historyVars>>
  /\ Goto(r, "markAccepted")
  /\ UNCHANGED <<tenantVars, invites>>

\* UNIQUE(tenant_id, user_email): the insert fails if the address got a row.
AcceptInsert(r) ==
  /\ req[r].pc = "write" /\ req[r].op = "acceptInvitation" /\ req[r].target = None
  /\ \/ /\ RowsOf(req[r].email) = {}
        /\ \E m \in MemberIds :
             /\ rows[m].state = "free"
             /\ rows' = [rows EXCEPT ![m] = [state |-> "live", email |-> req[r].email,
                                             role |-> req[r].role, status |-> "active"]]
             /\ NoteOwner(m, req[r].role)
        /\ applied' = applied \cup {req[r].inv}
        /\ Goto(r, "markAccepted")
     \/ /\ RowsOf(req[r].email) # {}
        /\ Finish(r)
        /\ UNCHANGED <<rows, historyVars>>
  /\ UNCHANGED <<tenantVars, invites>>

MarkAccepted(r) ==
  /\ req[r].pc = "markAccepted"
  /\ invites' = [invites EXCEPT ![req[r].inv].state = "accepted"]
  /\ Goto(r, "audit")
  /\ UNCHANGED <<tenantVars, rows, historyVars>>

-----------------------------------------------------------------------------
(* updateMemberRole and removeMember                                       *)

\* The owner count matters only to a request that takes an owner away.
TakesOwnerAway(r, m) ==
  /\ rows[m].role = "owner"
  /\ req[r].op = "removeMember" \/ req[r].role # "owner"

\* Variant: any role may be given, 'owner' included.
ReadMember_AnyRole(r) ==
  /\ req[r].pc = "readMember"
  /\ LET m == req[r].target IN
       IF rows[m].state # "live"
       THEN Finish(r)
       ELSE Goto(r, IF TakesOwnerAway(r, m) THEN "countOwners" ELSE "write")
  /\ ReadOnly

ReadMember(r) ==
  /\ req[r].pc = "readMember"
  /\ LET m == req[r].target IN
       IF \/ rows[m].state # "live"
          \/ req[r].op = "updateMemberRole" /\ req[r].role = "owner" /\ rows[m].role # "owner"
       THEN Finish(r)
       ELSE Goto(r, IF TakesOwnerAway(r, m) THEN "countOwners" ELSE "write")
  /\ ReadOnly

\* Variant: the comparison is off by one.
CountOwners_OffByOne(r) ==
  /\ req[r].pc = "countOwners"
  /\ IF Cardinality(ActiveOwners) < 1 THEN Finish(r) ELSE Goto(r, "write")
  /\ ReadOnly

CountOwners(r) ==
  /\ req[r].pc = "countOwners"
  /\ IF Cardinality(ActiveOwners) <= 1 THEN Finish(r) ELSE Goto(r, "write")
  /\ ReadOnly

WriteRole(r) ==
  /\ req[r].pc = "write" /\ req[r].op = "updateMemberRole"
  /\ SetRow(req[r].target, req[r].role, rows[req[r].target].status)
  /\ Goto(r, "audit")
  /\ UNCHANGED <<tenantVars, invites, historyVars>>

DeleteMember(r) ==
  /\ req[r].pc = "write" /\ req[r].op = "removeMember"
  /\ rows' = [rows EXCEPT ![req[r].target].state = "deleted"]
  /\ Goto(r, "audit")
  /\ UNCHANGED <<tenantVars, invites, historyVars>>

-----------------------------------------------------------------------------
(* transferOwnership                                                       *)

ReadActor(r) ==
  /\ req[r].pc = "readActor"
  /\ \/ \E m \in RowsOf(req[r].actor) \cap ActiveOwners :
          req' = [req EXCEPT ![r].pc = "readTarget", ![r].source = m]
     \/ /\ RowsOf(req[r].actor) \cap ActiveOwners = {}
        /\ Finish(r)
  /\ ReadOnly

ReadTarget(r) ==
  /\ req[r].pc = "readTarget"
  /\ IF req[r].target \in LiveActive \ {req[r].source} THEN Goto(r, "write") ELSE Finish(r)
  /\ ReadOnly

\* Variant: the second update is forgotten.
WriteTransfer_FirstOnly(r) ==
  /\ req[r].pc = "write" /\ req[r].op = "transferOwnership"
  /\ SetRow(req[r].source, "admin", rows[req[r].source].status)
  /\ Goto(r, "audit")
  /\ UNCHANGED <<tenantVars, invites, historyVars>>

\* One transaction: both updates by id, each a no-op on a row that is gone.
WriteTransfer(r) ==
  /\ req[r].pc = "write" /\ req[r].op = "transferOwnership"
  /\ rows' = [m \in MemberIds |->
                IF m \in Live /\ m = req[r].target THEN [rows[m] EXCEPT !.role = "owner"]
                ELSE IF m \in Live /\ m = req[r].source THEN [rows[m] EXCEPT !.role = "admin"]
                ELSE rows[m]]
  /\ ownersEver' = ownersEver \cup {req[r].target}
  /\ Goto(r, "audit")
  /\ UNCHANGED <<tenantVars, invites, applied>>

-----------------------------------------------------------------------------
(* deactivate, suspend, reactivate, request deletion                       *)

\* Variants: legal hold is not looked at; a pending deletion is not.
ReadTenant_NoHold(r) ==
  /\ req[r].pc = "readTenant"
  /\ IF req[r].op = "reactivateTenant" /\ status \in {"pending_deletion", "deleted"}
     THEN Finish(r)
     ELSE Goto(r, "write")
  /\ ReadOnly

\* The tenant row is never deleted, so reading it fails only on its contents.
ReadTenant(r) ==
  /\ req[r].pc = "readTenant"
  /\ IF \/ req[r].op = "reactivateTenant" /\ status \in {"pending_deletion", "deleted"}
        \/ req[r].op = "requestTenantDeletion" /\ legalHold
     THEN Finish(r)
     ELSE Goto(r, "write")
  /\ ReadOnly

WriteStatus(r) ==
  /\ req[r].pc = "write" /\ req[r].op \in LifecycleOps
  /\ status' = NewStatus(req[r].op)
  /\ scheduledPurge' = (scheduledPurge \/ req[r].op = "requestTenantDeletion")
  /\ Goto(r, IF req[r].op \in {"deactivateTenant", "reactivateTenant"}
             THEN "writeMembers" ELSE "audit")
  /\ UNCHANGED <<legalHold, rows, invites, historyVars>>

WriteMembers(r) ==
  /\ req[r].pc = "writeMembers"
  /\ rows' = [m \in MemberIds |->
                IF m \in Live
                THEN [rows[m] EXCEPT !.status = IF req[r].op = "reactivateTenant"
                                                THEN "active" ELSE "inactive"]
                ELSE rows[m]]
  /\ Goto(r, "audit")
  /\ UNCHANGED <<tenantVars, invites, historyVars>>

-----------------------------------------------------------------------------
(* recordEvent, after which the handler resets the runtime maps and answers *)

\* audit_log is append-only and nothing here reads it: the row this step
\* adds, (op, target or inv, role), is not kept.
RecordEvent(r) ==
  /\ req[r].pc = "audit"
  /\ Finish(r)
  /\ ReadOnly

Arrive(r) == BeginInvite(r) \/ BeginUpdateRole(r) \/ BeginOnMember(r)
               \/ BeginLifecycle(r) \/ BeginAccept(r)

Proceed(r) ==
  \/ AuthoriseMember(r) \/ AuthoriseStatus(r)
  \/ InsertInvitation(r)
  \/ ReadInvitation(r) \/ ReadExistingMember(r)
  \/ AcceptUpdate(r) \/ AcceptInsert(r) \/ MarkAccepted(r)
  \/ ReadMember(r) \/ CountOwners(r) \/ WriteRole(r) \/ DeleteMember(r)
  \/ ReadActor(r) \/ ReadTarget(r) \/ WriteTransfer(r)
  \/ ReadTenant(r) \/ WriteStatus(r) \/ WriteMembers(r)
  \/ RecordEvent(r)

Next == \/ \E r \in Reqs : Arrive(r) \/ Proceed(r) \/ Abort(r) \/ ChangeHold(r)
        \/ \E i \in InviteIds : ExpireInvitation(i)

Spec == Init /\ [][Next]_vars

-----------------------------------------------------------------------------
(* What holds however requests interleave and wherever they stop.          *)

\* A deletion is scheduled by a request that came without a legal hold or saw
\* it lifted: one that has been under the hold ever since it was asked for
\* schedules nothing, though operators place and lift the hold between the
\* read of it and the write (requestTenantDeletion).
LegalHoldBlocksDeletion ==
  [][(\/ status # "pending_deletion" /\ status' = "pending_deletion"
      \/ scheduledPurge' # scheduledPurge)
       => \E r \in Reqs : /\ req[r].pc = "write" /\ req'[r].pc # "write"
                          /\ req[r].op = "requestTenantDeletion" /\ ~req[r].held]_vars

\* A token is used up only after the membership write it stands for has run:
\* a crash between the two leaves the token usable (acceptInvitation).
AcceptedImpliesApplied ==
  \A i \in InviteIds : invites[i].state = "accepted" => i \in applied

\* A row is an owner only if it was once made one by a transfer or by an
\* owner invitation: updateMemberRole never makes a first-time owner.
OwnersAreLegitimate == OwnerRows \subseteq ownersEver

\* Nobody is a member who was neither there at the start nor invited.
MembersWereInvited ==
  \A m \in Live : \/ rows[m].email \in Seated
                  \/ \E i \in InviteIds : invites[i].state # "free"
                                         /\ invites[i].email = rows[m].email

\* The tenant's status is changed only by a request of somebody who has been
\* an owner, however stale that is by the time of the write.
LifecycleByOwnersOnly ==
  [][status' # status =>
       \E r \in Reqs : /\ req[r].pc = "write" /\ req'[r].pc # "write"
                       /\ \E m \in ownersEver : rows[m].email = req[r].actor]_vars

-----------------------------------------------------------------------------
(* What holds as long as requests do not overlap.                          *)

\* Nothing but an accepted invitation takes the last owner away
\* (updateMemberRole and removeMember refuse, transferOwnership moves the role).
LastOwnerKept ==
  [][OwnerRows # {} /\ OwnerRows' = {}
       => \E r \in Reqs : req[r].op = "acceptInvitation" /\ req[r].pc = "write"]_vars

\* The tables hold what the audit row of the request says was done.
Audited(r) == LET op == req[r].op IN
  /\ op = "updateMemberRole"  => rows[req[r].target].role = req[r].role
  /\ op = "removeMember"      => req[r].target \notin Live
  /\ op = "transferOwnership" => req[r].target \in OwnerRows /\ req[r].source \notin OwnerRows
  /\ op = "acceptInvitation"  => invites[req[r].inv].state = "accepted" /\ RowsOf(req[r].email) # {}
  /\ op \in LifecycleOps      => status = NewStatus(op)

\* A request about to write its audit row writes the truth (recordEvent).
AuditIsTrue == \A r \in Reqs : req[r].pc = "audit" => Audited(r)

\* The requests implement the lifecycle policy.
Lifecycle == INSTANCE TenantLifecycle
ImplementsLifecycle == Lifecycle!LSpec

-----------------------------------------------------------------------------
(* The inductive invariant behind the proofs.                              *)

Authorising == {"authMember", "authStatus"}

\* The operations whose requests go through each phase.
PhaseInv(pc, op) ==
  /\ pc = "idle" <=> op = "none"
  /\ pc \in Authorising => op # "acceptInvitation"
  /\ pc \in {"readMember", "countOwners"} => op \in {"updateMemberRole", "removeMember"}
  /\ pc \in {"readActor", "readTarget"} => op = "transferOwnership"
  /\ pc \in {"readTenant", "writeMembers"} => op \in LifecycleOps
  /\ pc \in {"readInvitation", "readExisting", "markAccepted"} => op = "acceptInvitation"

OwnerOnce(u) == \E m \in ownersEver : rows[m].email = u

\* What a request in flight can rely on, whatever the others have done since.
RequestInv(r) ==
  LET q == req[r] IN
  /\ PhaseInv(q.pc, q.op)
  /\ q.target # None => rows[q.target].state # "free"
  /\ q.op \in {"updateMemberRole", "removeMember", "transferOwnership"} => q.target # None
  /\ q.op = "acceptInvitation" => q.inv # None
  /\ q.op = "updateMemberRole" /\ q.pc \in {"countOwners", "write", "audit"} /\ q.role = "owner"
       => q.target \in ownersEver
  /\ q.held => legalHold
  /\ q.op = "requestTenantDeletion" /\ q.pc = "write" => ~q.held
  /\ q.pc = "markAccepted" => q.inv \in applied
  /\ q.op \in LifecycleOps /\ q.pc = "authStatus" /\ q.seen = "owner" => OwnerOnce(q.actor)
  /\ q.op \in LifecycleOps /\ q.pc \in {"readTenant", "write"} => OwnerOnce(q.actor)

IInv == /\ TypeOK
        /\ AcceptedImpliesApplied
        /\ OwnersAreLegitimate
        /\ \A m \in ownersEver : rows[m].state # "free"
        /\ \A r \in Reqs : RequestInv(r)

-----------------------------------------------------------------------------
(* What the code's own messages say, and concurrent requests do not keep.   *)

\* "Cannot remove the last owner.": the tenant keeps an owner.
OwnerRemains == OwnerRows # {}
=============================================================================
