-------------------------- MODULE TenantUserAccess --------------------------
(***************************************************************************)
(* From an authenticated user to a tenant: the access records, their       *)
(* synchronisation with PLATFORM_ADMIN_EMAILS, the request middleware that *)
(* puts a tenant into the context, and the routes that change it.          *)
(*                                                                         *)
(* A statement outside a transaction is a step.  resolveTenantUserAccess   *)
(* is a transaction under READ COMMITTED: a step that reads and one that   *)
(* writes and commits.  Statements on tenant_membership obey the policy    *)
(* of RlsPool under the request's context; tenant and tenant_user_access   *)
(* have no policy.  The two environment values belong to the process: they change by  *)
(* a restart only, which drops the requests in progress.                   *)
(***************************************************************************)
EXTENDS Naturals, FiniteSets

CONSTANTS
  Users, Tenants, Reqs,
  Given,         \* tenants created by other means before
  Ops,           \* operations of this instance
  LegacyHeader,  \* ALLOW_LEGACY_TENANT_HEADER
  MaxEvents,     \* bound: requests, status changes and restarts of a behaviour
  None

ASSUME GivenAssumption == Given \subseteq Tenants
ASSUME EventsAssumption == MaxEvents \in Nat
ASSUME OpsAssumption ==
  Ops \subseteq {"catalog", "use", "reactivate", "activate", "assign", "select"}
ASSUME NoneAssumption == None \notin Users \cup Tenants

VARIABLES
  adminList,  \* PLATFORM_ADMIN_EMAILS
  autoCreate, \* AUTO_CREATE_TENANT_ON_FIRST_LOGIN
  access,     \* tenant_user_access by user_email (UNIQUE)
  owner,      \* tenant.owner_email of the auto-created tenants
  status,     \* tenant.status, as far as isTenantAccessBlocked tells it apart
  member,     \* the tenant_membership row of each tenant and user
  writing,    \* lifecycle requests between their UPDATEs of tenant and tenant_membership
  req,
  events      \* still to come (bound)

vars == <<adminList, autoCreate, access, owner, status, member, writing, req, events>>
tables == <<access, owner, status, member, writing>>
others == <<adminList, autoCreate, events>>

AllOps == {"catalog", "use", "reactivate", "activate", "assign", "select"}

\* Routes under TENANT_OPTIONAL_ROUTE_PATTERNS: no scope or status check.
OptionalOps == {"activate", "assign", "select"}

Scope == Tenants \cup {None}
Record == [tenant : Scope, admin : BOOLEAN, active : Scope]
NoRecord == [tenant |-> None, admin |-> FALSE, active |-> None]
\* The CHECK of the table: NoRecord does not satisfy it, so it stands for
\* the absence of a row.
ScopeCheck(rec) == rec.admin <=> rec.tenant = None

Request == [pc : {"idle", "resolve", "commit", "status", "memberships", "member",
                  "tenantStatus", "handler", "select", "activate", "readAccess", "writeAccess",
                  "readMember", "writeMember"},
            stage   : {"middleware", "scope", "route", "service"}, \* who resolves
            op      : AllOps,
            user    : Users \cup {None},    \* getActorEmail
            who     : Users \cup {None},    \* the user to assign
            want    : Scope,                \* tenant_id of the path or the body
            claim   : Scope,                \* the tenant header, slug or session names
            operator : BOOLEAN,             \* an admin path, and isPlatformOperator
            seen    : Record,               \* the row last read
            member  : BOOLEAN,              \* whether a membership row was seen
            ctx     : Scope,                \* tenantContextStorage
            tenant  : Scope,                \* the tenant the handler works for
            \* History: the tenants that have been blocked, and those the user has
            \* had no active membership of, ever since the request came.
            blocked : SUBSET Tenants, outside : SUBSET Tenants]

Idle == [pc |-> "idle", stage |-> "middleware", op |-> "catalog", user |-> None, who |-> None,
         want |-> None, claim |-> None, operator |-> FALSE, seen |-> NoRecord,
         member |-> FALSE, ctx |-> None, tenant |-> None, blocked |-> {}, outside |-> {}]

\* status of a membership row; "removed": there was one, and it is gone.
Membership == {"none", "active", "inactive", "removed"}

TypeOK ==
  /\ adminList \subseteq Users /\ autoCreate \in BOOLEAN
  /\ access \in [Users -> {rec \in Record : ScopeCheck(rec)} \cup {NoRecord}]
  /\ owner  \in [Tenants -> Users \cup {None}]
  /\ status \in [Tenants -> {"none", "active", "blocked"}]
  /\ member \in [Tenants -> [Users -> Membership]]
  /\ writing \in [Tenants -> [{"active", "inactive"} -> Nat]]
  /\ req \in [Reqs -> Request]
  /\ events \in 0..MaxEvents

Exists == {t \in Tenants : status[t] # "none"}
isTenantAccessBlocked(t) == status[t] # "active"
HasRow(t, u) == member[t][u] \in {"active", "inactive"}

Init == /\ adminList \in SUBSET Users /\ autoCreate = TRUE \* the default
        /\ access = [u \in Users |-> NoRecord]
        /\ owner = [t \in Tenants |-> None]
        /\ status = [t \in Tenants |-> IF t \in Given THEN "active" ELSE "none"]
        /\ member = [t \in Tenants |-> [u \in Users |-> "none"]]
        /\ writing = [t \in Tenants |-> [s \in {"active", "inactive"} |-> 0]]
        /\ req = [r \in Reqs |-> Idle]
        /\ events = MaxEvents

RowVisible(ctx, t) == ctx = None \/ t = ctx

Count == events > 0 /\ events' = events - 1

Put(r, q) == req' = [req EXCEPT ![r] = q]
Goto(r, pc) == Put(r, [req[r] EXCEPT !.pc = pc])

\* effectiveTenantId
Effective(rec) == IF rec.admin THEN rec.active ELSE rec.tenant

-----------------------------------------------------------------------------
(* What follows a resolution, without another statement in between.        *)

\* authorizeTenantAction, behind reactivation, does not look at the access record.
ToRoute(q) == [q EXCEPT !.pc = CASE q.op = "catalog"    -> "handler"
                                 [] q.op = "select"     -> "select"
                                 [] q.op = "reactivate" -> "memberships"
                                 [] OTHER               -> "resolve",
                        !.stage = "route",
                        !.tenant = CASE q.op = "catalog"    -> q.ctx
                                     [] q.op = "reactivate" -> q.want
                                     [] OTHER               -> None,
                        !.claim = IF q.ctx = None THEN @ ELSE None]

\* resolveEffectiveTenantForAuthenticatedUser, resolveTenantId for requests
\* without a user, and enforceTenantScope, which resolves once more when an
\* administrator has no tenant; isPlatformOperator matters without a tenant only.
ResolveEffectiveTenant(q, rec) ==
  LET named  == IF q.user = None \/ LegacyHeader THEN q.claim ELSE None
      tenant == IF Effective(rec) # None THEN Effective(rec) ELSE named
      scoped == [q EXCEPT !.ctx = tenant]
  IN IF q.user # None /\ ~rec.admin /\ rec.tenant = None THEN Idle
     ELSE IF q.op \in OptionalOps THEN ToRoute(scoped)
     ELSE IF tenant # None THEN [scoped EXCEPT !.pc = "status", !.operator = FALSE]
     ELSE IF q.user = None THEN IF q.operator THEN ToRoute(scoped) ELSE Idle
     ELSE [scoped EXCEPT !.pc = "resolve", !.stage = "scope"]

EnforceTenantScope(q, rec) == IF rec.admin \/ q.operator THEN ToRoute(q) ELSE Idle

\* The start of resolveAuthenticatedTenantAccess.
ChooseTenant(q, rec) ==
  LET tenant == IF Effective(rec) # None THEN Effective(rec)
                ELSE IF q.ctx # None THEN q.ctx ELSE q.claim
  IN IF tenant = None THEN Idle ELSE [q EXCEPT !.pc = "memberships", !.tenant = tenant]

\* The route resolves and checks, and for an activation the service does it again.
RequirePlatformAdmin(q, rec) ==
  IF ~rec.admin THEN Idle
  ELSE IF q.op = "assign" THEN [q EXCEPT !.pc = "readAccess"]
  ELSE IF q.stage = "route" THEN [q EXCEPT !.pc = "resolve", !.stage = "service"]
  ELSE [q EXCEPT !.pc = "activate"]

Proceed(q, rec) == IF q.stage = "middleware" THEN ResolveEffectiveTenant(q, rec)
                   ELSE IF q.stage = "scope" THEN EnforceTenantScope(q, rec)
                   ELSE IF q.op = "use" THEN ChooseTenant(q, rec)
                   ELSE RequirePlatformAdmin(q, rec)

Resolved(r, rec) == Put(r, Proceed([req[r] EXCEPT !.seen = NoRecord], rec))

-----------------------------------------------------------------------------
(* Requests arrive; the world around them changes.                         *)

Blocked == {t \in Tenants : isTenantAccessBlocked(t)}
Outside(u) == {t \in Tenants : member[t][u] # "active"}

Send(r, op, user) == \E who \in Users \cup {None}, want, claim \in Scope, operator \in BOOLEAN :
  LET q == [Idle EXCEPT !.pc = "resolve", !.op = op, !.user = user, !.who = who, !.want = want,
                        !.claim = claim, !.operator = operator,
                        !.blocked = IF op \in {"catalog", "use"} THEN Blocked ELSE {},
                        !.outside = IF op \in {"use", "reactivate"} THEN Outside(user) ELSE {}] IN
  /\ op = "assign" <=> who # None
  /\ op \in {"assign", "reactivate"} => want # None
  /\ op \in {"catalog", "use", "select"} => want = None
  /\ claim # None => op \notin OptionalOps
  /\ claim # None /\ op = "catalog" => user = None \/ LegacyHeader
  /\ operator => user = None \* a user who is asked for it is an administrator by then
  /\ Put(r, IF user = None THEN ResolveEffectiveTenant(q, NoRecord) ELSE q)

Arrive(r) ==
  /\ req[r].pc = "idle" /\ Count
  /\ \E op \in Ops, user \in Users \cup {None} :
       (user = None => op = "catalog") /\ Send(r, op, user)
  /\ UNCHANGED <<adminList, autoCreate, tables>>

\* The histories of the requests qs, when t's status and memberships are s and m.
Witness(qs, t, s, m) == [r \in Reqs |-> [qs[r] EXCEPT
  !.blocked = IF s = "active" THEN @ \ {t} ELSE @,
  !.outside = IF qs[r].user \in Users /\ m[qs[r].user] = "active" THEN @ \ {t} ELSE @]]

\* The first UPDATE of deactivateTenant, reactivateTenant and of suspendTenant
\* and requestTenantDeletion, which leave the memberships alone.
\* TenantManagement has what guards them.
ChangeStatus(t) == \E s \in {"active", "inactive", "suspended"} :
  /\ status[t] # "none"
  /\ status' = [status EXCEPT ![t] = IF s = "active" THEN s ELSE "blocked"]
  /\ writing' = IF s = "suspended" THEN writing ELSE [writing EXCEPT ![t][s] = @ + 1]
  /\ req' = Witness(req, t, status'[t], member[t])
  /\ Count /\ UNCHANGED <<adminList, autoCreate, access, owner, member>>

\* Their second UPDATE, of every membership of the tenant.
WriteMembers(t) == \E s \in {"active", "inactive"} :
  /\ writing[t][s] > 0
  /\ writing' = [writing EXCEPT ![t][s] = @ - 1]
  /\ member' = [member EXCEPT ![t] = [u \in Users |-> IF HasRow(t, u) THEN s ELSE @[u]]]
  /\ req' = Witness(req, t, status[t], member'[t])
  /\ UNCHANGED <<others, access, owner, status>>

\* acceptInvitation and removeMember, as TenantManagement describes them.
ChangeMember(t, u) == \E m \in {"active", "removed"} :
  /\ status[t] # "none" /\ (m = "removed" => HasRow(t, u))
  /\ member' = [member EXCEPT ![t][u] = m]
  /\ req' = Witness(req, t, status[t], member'[t])
  /\ Count /\ UNCHANGED <<adminList, autoCreate, access, owner, status, writing>>

Restart == /\ adminList' \in SUBSET Users /\ autoCreate' \in BOOLEAN
           /\ req' = [r \in Reqs |-> Idle]
           /\ writing' = [t \in Tenants |-> [s \in {"active", "inactive"} |-> 0]]
           /\ Count /\ UNCHANGED <<access, owner, status, member>>

\* Nobody sends anything any more.
Quiet == /\ events = 0 /\ \A r \in Reqs : req[r].pc = "idle"
         /\ UNCHANGED vars

-----------------------------------------------------------------------------
(* resolveTenantUserAccess                                                 *)

ResolveRead(r) ==
  /\ req[r].pc = "resolve"
  /\ Put(r, [req[r] EXCEPT !.pc = "commit", !.seen = access[req[r].user]])
  /\ UNCHANGED <<others, tables>>

ConflictOnInsert_KeepsTenant(r) == \E t \in Tenants \ Exists :
  /\ req[r].pc = "commit" /\ req[r].seen = NoRecord /\ access[req[r].user] # NoRecord
  /\ owner' = [owner EXCEPT ![t] = req[r].user]
  /\ status' = [status EXCEPT ![t] = "active"]
  /\ Put(r, Idle) /\ UNCHANGED <<others, access, member, writing>>

\* The insert of a second record for the address violates UNIQUE, and the
\* transaction takes the tenant and the membership back.
ConflictOnInsert(r) ==
  /\ req[r].pc = "commit" /\ req[r].seen = NoRecord /\ access[req[r].user] # NoRecord
  /\ Put(r, Idle) /\ UNCHANGED <<others, tables>>

InsertRecord(r, rec) == LET u == req[r].user IN
  /\ req[r].pc = "commit" /\ req[r].seen = NoRecord /\ access[u] = NoRecord
  /\ access' = [access EXCEPT ![u] = rec]
  /\ UNCHANGED others

EnlistPlatformAdmin(r) == LET rec == [NoRecord EXCEPT !.admin = TRUE] IN
  /\ req[r].user \in adminList
  /\ InsertRecord(r, rec) /\ Resolved(r, rec)
  /\ UNCHANGED <<owner, status, member, writing>>

\* createTenantForUser: a fresh id, in the same transaction.
CreateTenantForUser(r) == \E t \in Tenants \ Exists :
  LET u == req[r].user  rec == [tenant |-> t, admin |-> FALSE, active |-> t] IN
    /\ u \notin adminList /\ autoCreate
    /\ InsertRecord(r, rec)
    /\ status' = [status EXCEPT ![t] = "active"]
    /\ owner'  = [owner EXCEPT ![t] = u]
    /\ member' = [member EXCEPT ![t][u] = "active"]
    /\ req' = Witness([req EXCEPT ![r] = Proceed([req[r] EXCEPT !.seen = NoRecord], rec)],
                      t, "active", member'[t])
    /\ UNCHANGED writing

RefuseUnassigned(r) ==
  /\ req[r].pc = "commit" /\ req[r].seen = NoRecord /\ access[req[r].user] = NoRecord
  /\ req[r].user \notin adminList /\ ~autoCreate
  /\ Put(r, Idle) /\ UNCHANGED <<others, tables>>

\* The record the synchronisation writes, from the row it has read.
Synced(rec, isAdmin) ==
  [tenant |-> IF isAdmin THEN None ELSE rec.tenant, admin |-> isAdmin,
   active |-> IF isAdmin THEN rec.active ELSE rec.tenant]

OutOfStep_Promotes(rec, isAdmin) == isAdmin /\ ~rec.admin

OutOfStep(rec, isAdmin) == rec.admin # isAdmin

SyncRecord(r) ==
  LET u == req[r].user  rec == req[r].seen  next == Synced(rec, u \in adminList) IN
    /\ req[r].pc = "commit" /\ rec # NoRecord
    /\ IF ~OutOfStep(rec, u \in adminList)
       THEN Resolved(r, rec) /\ UNCHANGED access
       ELSE IF ScopeCheck(next)
       THEN Resolved(r, next) /\ access' = [access EXCEPT ![u] = next]
       ELSE Put(r, Idle) /\ UNCHANGED access
    /\ UNCHANGED <<others, owner, status, member, writing>>

LifecycleStops_Suspended(q) == FALSE

\* allowsLifecycleOverride: reactivation passes.
LifecycleStops(q) == q.op # "reactivate" /\ isTenantAccessBlocked(q.ctx)

EnforceTenantLifecycleState(r) ==
  /\ req[r].pc = "status"
  /\ Put(r, IF LifecycleStops(req[r]) THEN Idle ELSE ToRoute(req[r]))
  /\ UNCHANGED <<others, tables>>

-----------------------------------------------------------------------------
(* resolveAuthenticatedTenantAccess for the routes that use it, and         *)
(* authorizeTenantAction for reactivation                                   *)

\* getTenantMembershipByEmail, and whether the row it returns is active
ActiveMember_NoPolicy(q, t) == member[t][q.user] = "active"

ActiveMember(q, t) == member[t][q.user] = "active" /\ RowVisible(q.ctx, t)

\* The middleware has written its tenant into the session's metadata.
ListMemberships(r) ==
  LET q == req[r]
      session == IF q.ctx # None THEN q.ctx ELSE q.claim
      listed  == {t \in Tenants : ActiveMember(q, t) /\ status[t] = "active"}
  IN /\ q.pc = "memberships"
     /\ IF Cardinality(listed) > 1 /\ session \notin {None, q.tenant}
        THEN Put(r, Idle) ELSE Goto(r, "member")
     /\ UNCHANGED <<others, tables>>

CheckMembership(r) ==
  /\ req[r].pc = "member"
  /\ IF ActiveMember(req[r], req[r].tenant) THEN Goto(r, "tenantStatus") ELSE Put(r, Idle)
  /\ UNCHANGED <<others, tables>>

CheckTenantStatus(r) ==
  /\ req[r].pc = "tenantStatus"
  /\ IF req[r].op # "reactivate" /\ isTenantAccessBlocked(req[r].tenant)
     THEN Put(r, Idle) ELSE Goto(r, "handler")
  /\ UNCHANGED <<others, tables>>

\* What the handler of a reactivation does to the tables is ChangeStatus and
\* WriteMembers.
HandlerEnds(r) == /\ req[r].pc = "handler"
                  /\ Put(r, Idle) /\ UNCHANGED <<others, tables>>

-----------------------------------------------------------------------------
(* POST /admin/tenants/active, /admin/tenant-access/activate and /assign   *)

\* It writes to the caller's session only.
SelectActiveTenant(r) ==
  /\ req[r].pc = "select"
  /\ Put(r, Idle)
  /\ UNCHANGED <<others, tables>>

ActivatePlatformAdminTenant_Unchecked(r) == LET q == req[r] IN
  /\ q.pc = "activate"
  /\ access' = [access EXCEPT ![q.user].active = q.want] /\ Put(r, Idle)
  /\ UNCHANGED <<others, owner, status, member, writing>>

ActivatePlatformAdminTenant(r) == LET q == req[r] IN
  /\ q.pc = "activate"
  /\ IF q.want \in Exists \cup {None}
     THEN access' = [access EXCEPT ![q.user].active = q.want] /\ Put(r, Idle)
     ELSE Put(r, Idle) /\ UNCHANGED access
  /\ UNCHANGED <<others, owner, status, member, writing>>

AssignReadsAccess(r) == LET q == req[r] IN
  /\ q.pc = "readAccess"
  /\ IF q.want \in Exists THEN Put(r, [q EXCEPT !.pc = "writeAccess", !.seen = access[q.who]])
     ELSE Put(r, Idle)
  /\ UNCHANGED <<others, tables>>

AssignWritesAccess(r) == LET q == req[r] IN
  /\ q.pc = "writeAccess"
  /\ IF q.seen = NoRecord /\ access[q.who] # NoRecord
     THEN Put(r, Idle) /\ UNCHANGED access
     ELSE /\ access' = [access EXCEPT ![q.who] = [tenant |-> q.want, admin |-> FALSE, active |-> q.want]]
          /\ Put(r, [q EXCEPT !.pc = "readMember", !.seen = NoRecord])
  /\ UNCHANGED <<others, owner, status, member, writing>>

AssignReadsMembership(r) == LET q == req[r] IN
  /\ q.pc = "readMember"
  /\ Put(r, [q EXCEPT !.pc = "writeMember",
                      !.member = HasRow(q.want, q.who) /\ RowVisible(q.ctx, q.want)])
  /\ UNCHANGED <<others, tables>>

\* The policy's WITH CHECK, and UNIQUE (tenant_id, user_email).  An UPDATE finds
\* nothing when the row is gone; one made anew in between counts as the same.
AssignWritesMembership(r) == LET q == req[r] IN
  /\ q.pc = "writeMember"
  /\ IF RowVisible(q.ctx, q.want) /\ q.member = HasRow(q.want, q.who)
     THEN /\ member' = [member EXCEPT ![q.want][q.who] = "active"]
          /\ req' = Witness([req EXCEPT ![r] = Idle], q.want, status[q.want], member'[q.want])
     ELSE Put(r, Idle) /\ UNCHANGED member
  /\ UNCHANGED <<others, access, owner, status, writing>>

-----------------------------------------------------------------------------
Resolve(r) == \/ ResolveRead(r) \/ ConflictOnInsert(r) \/ EnlistPlatformAdmin(r)
              \/ CreateTenantForUser(r) \/ RefuseUnassigned(r) \/ SyncRecord(r)

Route(r) == \/ ListMemberships(r) \/ CheckMembership(r) \/ CheckTenantStatus(r)
            \/ HandlerEnds(r) \/ SelectActiveTenant(r)
            \/ ActivatePlatformAdminTenant(r) \/ AssignReadsAccess(r) \/ AssignWritesAccess(r)
            \/ AssignReadsMembership(r) \/ AssignWritesMembership(r)

Handle(r) == Resolve(r) \/ EnforceTenantLifecycleState(r) \/ Route(r)

Next == \/ \E r \in Reqs : Arrive(r) \/ Handle(r)
        \/ \E t \in Tenants : ChangeStatus(t) \/ WriteMembers(t)
        \/ \E t \in Tenants, u \in Users : ChangeMember(t, u)
        \/ Restart \/ Quiet

Spec == Init /\ [][Next]_vars

-----------------------------------------------------------------------------
(* Properties                                                              *)

\* Two first requests of one user race on UNIQUE (user_email).  The loser's
\* tenant and membership go with its transaction: no user ever owns two
\* workspaces, and every workspace's owner has an access record and got a
\* membership of it, whatever has become of that membership since.
NoOrphanTenant == \A t \in Tenants : owner[t] # None =>
  /\ access[owner[t]] # NoRecord /\ member[t][owner[t]] # "none"
  /\ \A other \in Tenants \ {t} : owner[other] # owner[t]

\* The handler of an authenticated tenant route works for the tenant its
\* queries are confined to, even when the user was reassigned or switched
\* tenants between the middleware's look at the access record and the route's.
HandlerInScope == \A r \in Reqs :
  req[r].pc = "handler" /\ req[r].user # None => req[r].ctx \in {None, req[r].tenant}

\* The checks before a handler may be stale, but are never older than the
\* request: no handler but reactivation's runs for a tenant that has been blocked
\* since the request came, and none of an authorized route for a tenant its
\* user has been no active member of since then, whichever of the two UPDATEs
\* of a lifecycle request had been made.
BlockedStaysOut == \A r \in Reqs : req[r].pc = "handler" =>
  /\ req[r].op # "reactivate" => req[r].tenant \notin req[r].blocked
  /\ req[r].op # "catalog"    => req[r].tenant \notin req[r].outside

\* What only the platform may do is done by users on PLATFORM_ADMIN_EMAILS, however
\* old the role in their access record is and whatever the list was before
\* the last restart: to change anyone's tenant, and to run a handler whose
\* queries are confined to no tenant (which isPlatformOperator allows as well).
PlatformOnly == \A r \in Reqs :
  /\ req[r].pc \in {"activate", "readAccess", "writeAccess", "readMember", "writeMember"} =>
       req[r].user \in adminList
  /\ req[r].pc = "handler" /\ req[r].ctx = None => req[r].user \in adminList \/ req[r].operator

\* The statements of the routes and of the synchronisation implement the
\* policy of AccessPolicy.
Policy == INSTANCE AccessPolicy
            WITH home   <- [u \in Users |-> Effective(access[u])],
                 admins <- {u \in Users : access[u].admin},
                 exists <- Exists
ImplementsPolicy == Policy!PSpec
=============================================================================
