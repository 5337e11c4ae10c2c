---------------------- MODULE TenantUserAccess_proofs ----------------------
(***************************************************************************)
(* The invariants of TenantUserAccess, and that it implements             *)
(* AccessPolicy, for any users, tenants and requests.                      *)
(***************************************************************************)
EXTENDS TenantUserAccess, TLAPS

Recorded == {u \in Users : access[u] # NoRecord}

Members == {p \in Tenants \X Users : member[p[1]][p[2]] = "active"}

\* What a request may rely on between its statements, whatever the others
\* do: records and tenants only come to be, blocks only end, memberships its
\* history knows nothing of only begin, and nobody but a restart changes the
\* list of administrators.
RequestInv(q, recorded, exists, blocked, admins, members) ==
  /\ q.user = None => q.op = "catalog" /\ q.pc \in {"idle", "status", "handler"}
  /\ q.pc = "commit" /\ q.seen # NoRecord
       => q.user \in recorded /\ ScopeCheck(q.seen) /\ q.seen.active \in exists \cup {None}
  /\ q.pc = "activate" => q.user \in recorded
  /\ q.op = "assign" => q.who \in Users
  /\ q.pc \in {"readAccess", "writeAccess", "readMember", "writeMember"} => q.op = "assign"
  /\ q.pc \in {"activate", "readAccess", "writeAccess", "readMember", "writeMember"} => q.user \in admins
  /\ q.pc \in {"writeAccess", "readMember", "writeMember"} => q.want \in exists
  /\ q.stage = "scope" => q.ctx = None
  /\ q.pc = "status" => q.ctx # None
  /\ q.stage = "route" /\ q.op \notin OptionalOps /\ q.ctx = None => q.user \in admins \/ q.operator
  /\ q.pc \in {"resolve", "commit"} /\ q.stage \in {"route", "service"}
       => q.op \in OptionalOps \/ (q.op = "use" /\ q.stage = "route")
  /\ q.pc \in {"memberships", "member", "tenantStatus"} => q.op \in {"use", "reactivate"}
  /\ q.pc \in {"memberships", "member", "tenantStatus", "handler"}
       => q.stage = "route" /\ q.op \notin OptionalOps
  /\ q.pc \in {"tenantStatus", "handler"}
       => RowVisible(q.ctx, q.tenant) /\ (q.op # "catalog" => q.tenant \notin q.outside)
  /\ q.pc = "handler" /\ q.op # "reactivate" => q.tenant \notin q.blocked
  /\ q.blocked \subseteq blocked
  /\ \A t \in q.outside : <<t, q.user>> \notin members

ActiveExists == \A u \in Users : access[u].active \in Exists \cup {None}

RequestsInv == \A r \in Reqs : RequestInv(req[r], Recorded, Exists, Blocked, adminList, Members)

IInv == TypeOK /\ NoOrphanTenant /\ ActiveExists /\ RequestsInv

\* What RequestInv says of any request, wherever it is.
Sound(q) ==
  /\ q.user = None => q.op = "catalog"
  /\ q.op = "assign" => q.who \in Users
  /\ q.blocked \subseteq Blocked
  /\ \A t \in q.outside : <<t, q.user>> \notin Members
-----------------------------------------------------------------------------
(* What follows a resolution.                                              *)

\* The middleware hands the request to its route: a catalog handler starts only
\* when the tenant of the context is none of the blocked ones.
LEMMA ToRouteInv ==
  ASSUME NEW q \in Request, NEW recorded, NEW exists, Sound(q),
         q.op = "catalog" => q.ctx \notin q.blocked,
         q.op \notin OptionalOps /\ q.ctx = None => q.user \in adminList \/ q.operator
  PROVE  ToRoute(q) \in Request /\ RequestInv(ToRoute(q), recorded, exists, Blocked, adminList, Members)
<1> DEFINE s == ToRoute(q)
<1>1. s \in Request
  BY DEF ToRoute, Request, Scope, AllOps
<1>2. /\ s.pc \in {"handler", "select", "resolve", "memberships"} /\ s.stage = "route"
      /\ s.pc = "handler" <=> q.op = "catalog"
      /\ s.pc = "memberships" => q.op = "reactivate"
      /\ s.pc = "resolve" => q.op \in OptionalOps \cup {"use"}
      /\ s.op = q.op /\ s.user = q.user /\ s.who = q.who /\ s.ctx = q.ctx /\ s.blocked = q.blocked
      /\ s.outside = q.outside /\ s.operator = q.operator
      /\ q.op = "catalog" => s.tenant = q.ctx
  BY DEF ToRoute, Request, AllOps, OptionalOps
<1> HIDE DEF s
<1>3. RequestInv(s, recorded, exists, Blocked, adminList, Members)
  BY <1>2 DEF RequestInv, RowVisible, OptionalOps, Sound
<1> QED  BY <1>1, <1>3 DEF s

LEMMA IdleInv ==
  ASSUME NEW recorded, NEW exists, NEW blocked, NEW admins, NEW members
  PROVE  Idle \in Request /\ RequestInv(Idle, recorded, exists, blocked, admins, members)
BY DEF Idle, Request, RequestInv, Scope, AllOps, Record, NoRecord

LEMMA ResolveEffectiveTenantInv ==
  ASSUME NoneAssumption, NEW q \in Request, NEW rec \in Record, NEW recorded, NEW exists, Sound(q),
         q.stage = "middleware"
  PROVE  /\ ResolveEffectiveTenant(q, rec) \in Request
         /\ RequestInv(ResolveEffectiveTenant(q, rec), recorded, exists, Blocked, adminList, Members)
<1> DEFINE named  == IF q.user = None \/ LegacyHeader THEN q.claim ELSE None
           tenant == IF Effective(rec) # None THEN Effective(rec) ELSE named
           scoped == [q EXCEPT !.ctx = tenant]
<1>1. tenant \in Scope
  BY DEF Effective, Request, Record, Scope
<1>2. /\ scoped \in Request /\ scoped.stage = "middleware" /\ scoped.op = q.op /\ scoped.user = q.user /\ scoped.who = q.who
      /\ scoped.blocked = q.blocked /\ scoped.ctx = tenant /\ scoped.outside = q.outside
      /\ scoped.operator = q.operator
  BY <1>1 DEF Request
<1> HIDE DEF tenant, scoped
<1>7. Sound(scoped)
  BY <1>2 DEF Sound
<1>8. scoped.op \in AllOps
  BY <1>2 DEF Request
<1>3. CASE q.user # None /\ ~rec.admin /\ rec.tenant = None
  BY <1>3, IdleInv DEF ResolveEffectiveTenant
<1>4. CASE ~(q.user # None /\ ~rec.admin /\ rec.tenant = None) /\ q.op \in OptionalOps
  <2>1. ResolveEffectiveTenant(q, rec) = ToRoute(scoped)
    BY <1>4 DEF ResolveEffectiveTenant, scoped, tenant, named
  <2>2. scoped.op # "catalog" /\ scoped.op \in OptionalOps
    BY <1>2, <1>4 DEF OptionalOps
  <2> QED  BY <1>2, <1>7, <2>1, <2>2, ToRouteInv
<1>5. CASE ~(q.user # None /\ ~rec.admin /\ rec.tenant = None) /\ q.op \notin OptionalOps /\ tenant # None
  <2> DEFINE s == [scoped EXCEPT !.pc = "status", !.operator = FALSE]
  <2>1. ResolveEffectiveTenant(q, rec) = s
    BY <1>5 DEF ResolveEffectiveTenant, scoped, tenant, named
  <2>2. /\ s \in Request /\ s.pc = "status" /\ s.stage = "middleware" /\ s.op = q.op /\ s.user = q.user
        /\ s.who = q.who /\ s.blocked = q.blocked /\ s.ctx = tenant /\ s.outside = q.outside
    BY <1>2 DEF Request
  <2> HIDE DEF s
  <2>3. RequestInv(s, recorded, exists, Blocked, adminList, Members)
    BY <1>5, <2>2 DEF RequestInv, Sound
  <2> QED  BY <2>1, <2>2, <2>3
<1>6. CASE ~(q.user # None /\ ~rec.admin /\ rec.tenant = None) /\ q.op \notin OptionalOps /\ tenant = None
  <2> DEFINE s == [scoped EXCEPT !.pc = "resolve", !.stage = "scope"]
  <2>1. ResolveEffectiveTenant(q, rec)
          = IF q.user = None THEN IF q.operator THEN ToRoute(scoped) ELSE Idle ELSE s
    BY <1>6 DEF ResolveEffectiveTenant, scoped, tenant, named
  <2>2. /\ s \in Request /\ s.pc = "resolve" /\ s.stage = "scope" /\ s.op = q.op /\ s.user = q.user
        /\ s.who = q.who /\ s.blocked = q.blocked /\ s.ctx = tenant /\ s.outside = q.outside
    BY <1>2 DEF Request
  <2> HIDE DEF s
  <2>3. q.user # None => RequestInv(s, recorded, exists, Blocked, adminList, Members)
    BY <1>6, <2>2 DEF RequestInv, Sound
  <2>4. scoped.ctx \notin scoped.blocked
    BY <1>2, <1>6, NoneAssumption DEF Sound, Blocked
  <2>5. q.operator => /\ ToRoute(scoped) \in Request
                      /\ RequestInv(ToRoute(scoped), recorded, exists, Blocked, adminList, Members)
    BY <1>2, <1>7, <2>4, ToRouteInv
  <2> QED  BY <2>1, <2>2, <2>3, <2>5, IdleInv
<1> QED  BY <1>3, <1>4, <1>5, <1>6

\* The other resolutions: an administrator's second look, the route's look
\* at the tenant, and the routes of the administrators.
LEMMA EnforceTenantScopeInv ==
  ASSUME NoneAssumption, NEW q \in Request, NEW rec \in Record, NEW recorded, NEW exists, Sound(q),
         rec.admin => q.user \in adminList, q.ctx = None
  PROVE  /\ EnforceTenantScope(q, rec) \in Request
         /\ RequestInv(EnforceTenantScope(q, rec), recorded, exists, Blocked, adminList, Members)
<1>1. q.ctx \notin q.blocked
  BY NoneAssumption DEF Sound, Blocked
<1>2. CASE rec.admin \/ q.operator
  <2>1. EnforceTenantScope(q, rec) = ToRoute(q) /\ (q.user \in adminList \/ q.operator)
    BY <1>2 DEF EnforceTenantScope
  <2> QED  BY <1>1, <2>1, ToRouteInv
<1>3. CASE ~(rec.admin \/ q.operator)
  BY <1>3, IdleInv DEF EnforceTenantScope
<1> QED  BY <1>2, <1>3

LEMMA ChooseTenantInv ==
  ASSUME NEW q \in Request, NEW rec \in Record, NEW recorded, NEW exists, Sound(q),
         q.user # None, q.op = "use", q.stage = "route",
         q.ctx = None => q.user \in adminList \/ q.operator
  PROVE  /\ ChooseTenant(q, rec) \in Request
         /\ RequestInv(ChooseTenant(q, rec), recorded, exists, Blocked, adminList, Members)
<1> DEFINE tenant == IF Effective(rec) # None THEN Effective(rec)
                     ELSE IF q.ctx # None THEN q.ctx ELSE q.claim
           s == [q EXCEPT !.pc = "memberships", !.tenant = tenant]
<1>1. tenant \in Scope
  BY DEF Effective, Request, Record, Scope
<1> HIDE DEF tenant
<1>2. s \in Request /\ s.pc = "memberships" /\ s.op = "use" /\ s.user = q.user /\ s.stage = "route"
      /\ s.ctx = q.ctx /\ s.blocked = q.blocked /\ s.outside = q.outside /\ s.operator = q.operator
  BY <1>1 DEF Request
<1>3. ChooseTenant(q, rec) = IF tenant = None THEN Idle ELSE s
  BY DEF ChooseTenant, tenant
<1> HIDE DEF s
<1>4. RequestInv(s, recorded, exists, Blocked, adminList, Members)
  BY <1>2 DEF RequestInv, Sound, OptionalOps
<1> QED  BY <1>2, <1>3, <1>4, IdleInv

LEMMA RequirePlatformAdminInv ==
  ASSUME NEW q \in Request, NEW rec \in Record, NEW recorded, NEW exists, Sound(q),
         q.user # None, q.user \in recorded, rec.admin => q.user \in adminList,
         q.stage \in {"route", "service"}, q.op \in OptionalOps
  PROVE  /\ RequirePlatformAdmin(q, rec) \in Request
         /\ RequestInv(RequirePlatformAdmin(q, rec), recorded, exists, Blocked, adminList, Members)
<1> DEFINE look  == [q EXCEPT !.pc = "readAccess"]
           again == [q EXCEPT !.pc = "resolve", !.stage = "service"]
           act   == [q EXCEPT !.pc = "activate"]
<1>1. /\ look \in Request /\ again \in Request /\ act \in Request
      /\ look.pc = "readAccess" /\ again.pc = "resolve" /\ act.pc = "activate"
      /\ look.stage = q.stage /\ again.stage = "service" /\ act.stage = q.stage
  BY DEF Request
<1>5. \A s \in {look, again, act} :
        /\ s.op = q.op /\ s.user = q.user /\ s.who = q.who /\ s.ctx = q.ctx
        /\ s.blocked = q.blocked /\ s.outside = q.outside
  BY DEF Request
<1> HIDE DEF look, again, act
<1>2. q.op = "assign" /\ rec.admin => RequestInv(look, recorded, exists, Blocked, adminList, Members)
  BY <1>1, <1>5 DEF RequestInv, Sound
<1>3. RequestInv(again, recorded, exists, Blocked, adminList, Members)
  BY <1>1, <1>5 DEF RequestInv, Sound
<1>4. rec.admin => RequestInv(act, recorded, exists, Blocked, adminList, Members)
  BY <1>1, <1>5 DEF RequestInv, Sound
<1>6. RequirePlatformAdmin(q, rec) = IF ~rec.admin THEN Idle ELSE IF q.op = "assign" THEN look
                                     ELSE IF q.stage = "route" THEN again ELSE act
  BY DEF RequirePlatformAdmin, look, again, act
<1> QED  BY <1>1, <1>2, <1>3, <1>4, <1>6, IdleInv

\* A resolution is under way in the middleware, in enforceTenantScope, for a
\* tenant route, or for one of the administrators' routes.
LEMMA ProceedInv ==
  ASSUME NoneAssumption, NEW q \in Request, NEW rec \in Record, NEW recorded, NEW exists, Sound(q),
         q.user # None, q.user \in recorded, rec.admin => q.user \in adminList,
         q.stage = "scope" => q.ctx = None,
         q.stage = "route" /\ q.op \notin OptionalOps /\ q.ctx = None => q.user \in adminList \/ q.operator,
         q.stage \in {"route", "service"} => q.op \in OptionalOps \/ (q.op = "use" /\ q.stage = "route")
  PROVE  /\ Proceed(q, rec) \in Request
         /\ RequestInv(Proceed(q, rec), recorded, exists, Blocked, adminList, Members)
<1>1. CASE q.stage = "middleware"
  <2>1. Proceed(q, rec) = ResolveEffectiveTenant(q, rec)
    BY <1>1 DEF Proceed
  <2> QED  BY <1>1, <2>1, ResolveEffectiveTenantInv
<1>2. CASE q.stage = "scope"
  <2>1. Proceed(q, rec) = EnforceTenantScope(q, rec) /\ q.ctx = None
    BY <1>2 DEF Proceed
  <2> QED  BY <2>1, EnforceTenantScopeInv
<1>3. CASE q.stage \notin {"middleware", "scope"} /\ q.op = "use"
  <2>1. Proceed(q, rec) = ChooseTenant(q, rec)
    BY <1>3 DEF Proceed
  <2>2. q.stage = "route" /\ (q.ctx = None => q.user \in adminList \/ q.operator)
    BY <1>3 DEF Request, OptionalOps
  <2> QED  BY <1>3, <2>1, <2>2, ChooseTenantInv
<1>4. CASE q.stage \notin {"middleware", "scope"} /\ q.op # "use"
  <2>1. Proceed(q, rec) = RequirePlatformAdmin(q, rec)
    BY <1>4 DEF Proceed
  <2>2. q.stage \in {"route", "service"} /\ q.op \in OptionalOps
    BY <1>4 DEF Request
  <2> QED  BY <2>1, <2>2, RequirePlatformAdminInv
<1> QED  BY <1>1, <1>2, <1>3, <1>4
-----------------------------------------------------------------------------
(* What a step leaves alone.                                               *)

\* A request keeps its assertion when records and tenants are added, no
\* tenant it counts as blocked is unblocked, and its user gets no membership.
LEMMA RequestKept ==
  ASSUME NEW q \in Request, NEW recorded, NEW exists, NEW blocked, NEW admins, NEW members,
         NEW recorded2, NEW exists2, NEW blocked2, NEW members2,
         RequestInv(q, recorded, exists, blocked, admins, members),
         recorded \subseteq recorded2, exists \subseteq exists2, q.blocked \subseteq blocked2,
         \A t \in q.outside : <<t, q.user>> \notin members2
  PROVE  RequestInv(q, recorded2, exists2, blocked2, admins, members2)
BY DEF RequestInv

\* What the other state functions of RequestInv depend on.
LEMMA SameTables ==
  ASSUME status' = status, member' = member
  PROVE  Exists' = Exists /\ Blocked' = Blocked /\ Members' = Members
BY DEF Exists, Blocked, isTenantAccessBlocked, Members

LEMMA PutInv ==
  ASSUME IInv, NEW r \in Reqs, NEW q \in Request, Put(r, q),
         RequestInv(q, Recorded', Exists, Blocked, adminList, Members),
         status' = status, member' = member, adminList' = adminList, Recorded \subseteq Recorded'
  PROVE  req' \in [Reqs -> Request] /\ RequestsInv'
<1>1. req \in [Reqs -> Request] /\ RequestsInv
  BY DEF IInv, TypeOK
<1>2. Exists' = Exists /\ Blocked' = Blocked /\ Members' = Members
  BY SameTables
<1>3. req' \in [Reqs -> Request] /\ req'[r] = q /\ \A x \in Reqs \ {r} : req'[x] = req[x]
  BY <1>1 DEF Put
<1>4. ASSUME NEW x \in Reqs PROVE RequestInv(req'[x], Recorded', Exists', Blocked', adminList', Members')
  <2>1. CASE x = r
    BY <1>2, <1>3, <2>1
  <2>2. CASE x # r
    <3>1. req'[x] = req[x] /\ req[x] \in Request /\ RequestInv(req[x], Recorded, Exists, Blocked, adminList, Members)
      BY <1>1, <1>3, <2>2 DEF RequestsInv
    <3>2. req[x].blocked \subseteq Blocked /\ \A t \in req[x].outside : <<t, req[x].user>> \notin Members
      BY <3>1 DEF RequestInv
    <3>3. RequestInv(req[x], Recorded', Exists, Blocked, adminList, Members)
      BY <3>1, <3>2, RequestKept
    <3> QED  BY <1>2, <3>1, <3>3
  <2> QED  BY <2>1, <2>2
<1> QED  BY <1>3, <1>4 DEF RequestsInv

\* A step that changes no table.
LEMMA QuietStep ==
  ASSUME IInv, NEW r \in Reqs, NEW q \in Request, Put(r, q),
         RequestInv(q, Recorded, Exists, Blocked, adminList, Members),
         UNCHANGED <<adminList, autoCreate, tables>>, events' \in 0..MaxEvents
  PROVE  IInv'
<1>1. /\ status' = status /\ access' = access /\ owner' = owner /\ member' = member
      /\ writing' = writing /\ adminList' = adminList
  BY DEF tables
<1>2. Recorded' = Recorded /\ Exists' = Exists
  BY <1>1 DEF Recorded, Exists
<1>3. req' \in [Reqs -> Request] /\ RequestsInv'
  BY <1>1, <1>2, PutInv
<1>4. NoOrphanTenant' /\ ActiveExists'
  BY <1>1, <1>2 DEF IInv, NoOrphanTenant, ActiveExists
<1> QED  BY <1>1, <1>3, <1>4 DEF IInv, TypeOK

\* A record is written and one request goes on.
LEMMA AccessStep ==
  ASSUME IInv, NoneAssumption, NEW r \in Reqs, NEW q \in Request, Put(r, q),
         NEW u \in Users, NEW rec \in Record, ScopeCheck(rec), rec.active \in Exists \cup {None},
         access' = [access EXCEPT ![u] = rec],
         RequestInv(q, Recorded \cup {u}, Exists, Blocked, adminList, Members),
         UNCHANGED <<others, owner, status, member, writing>>
  PROVE  IInv'
<1>1. /\ status' = status /\ owner' = owner /\ member' = member /\ writing' = writing
      /\ adminList' = adminList /\ autoCreate' = autoCreate /\ events' = events
  BY DEF others
<1>2. rec # NoRecord
  BY DEF NoRecord, ScopeCheck
<1>3. access' \in [Users -> {x \in Record : ScopeCheck(x)} \cup {NoRecord}]
  BY DEF IInv, TypeOK
<1>4. access'[u] = rec /\ \A v \in Users \ {u} : access'[v] = access[v]
  BY DEF IInv, TypeOK
<1>5. Recorded' = Recorded \cup {u} /\ Exists' = Exists
  BY <1>1, <1>2, <1>4 DEF Recorded, Exists
<1>6. req' \in [Reqs -> Request] /\ RequestsInv'
  BY <1>1, <1>5, PutInv
<1>7. ActiveExists'
  BY <1>4, <1>5 DEF IInv, ActiveExists
<1>8. NoOrphanTenant'
  <2>1. \A t \in Tenants : owner[t] # None => owner[t] \in Users
    BY DEF IInv, TypeOK
  <2>2. \A v \in Users : access[v] # NoRecord => access'[v] # NoRecord
    BY <1>2, <1>4
  <2> QED  BY <1>1, <2>1, <2>2 DEF IInv, NoOrphanTenant
<1> QED  BY <1>1, <1>3, <1>6, <1>7, <1>8 DEF IInv, TypeOK

\* A resolution ends and nothing else is written.
LEMMA ResolvedInv ==
  ASSUME IInv, NoneAssumption, NEW r \in Reqs, NEW rec \in Record, NEW recorded,
         req[r].pc = "commit", req[r].user \in recorded, rec.admin => req[r].user \in adminList
  PROVE  LET q == Proceed([req[r] EXCEPT !.seen = NoRecord], rec) IN
         q \in Request /\ RequestInv(q, recorded, Exists, Blocked, adminList, Members)
<1> DEFINE s == [req[r] EXCEPT !.seen = NoRecord]
<1>1. req[r] \in Request /\ RequestInv(req[r], Recorded, Exists, Blocked, adminList, Members)
  BY DEF IInv, TypeOK, RequestsInv
<1>2. /\ s \in Request /\ s.pc = "commit" /\ s.user = req[r].user /\ s.op = req[r].op /\ s.who = req[r].who
      /\ s.stage = req[r].stage /\ s.ctx = req[r].ctx /\ s.blocked = req[r].blocked
      /\ s.outside = req[r].outside /\ s.operator = req[r].operator
  <2>1. NoRecord \in Record
    BY DEF NoRecord, Record, Scope
  <2> QED  BY <1>1, <2>1 DEF Request
<1>3. /\ s.user # None
      /\ s.user \in recorded
      /\ s.stage = "scope" => s.ctx = None
      /\ s.stage = "route" /\ s.op \notin OptionalOps /\ s.ctx = None => s.user \in adminList \/ s.operator
      /\ s.stage \in {"route", "service"} => s.op \in OptionalOps \/ (s.op = "use" /\ s.stage = "route")
  BY <1>1, <1>2 DEF RequestInv
<1>5. Sound(s)
  BY <1>1, <1>2 DEF RequestInv, Sound
<1> HIDE DEF s
<1>4. Proceed(s, rec) \in Request /\ RequestInv(Proceed(s, rec), recorded, Exists, Blocked, adminList, Members)
  BY <1>2, <1>3, <1>5, ProceedInv
<1> QED  BY <1>4 DEF s
-----------------------------------------------------------------------------
(* Requests that arrive, and what changes around them.                     *)

LEMMA InitInv == Init => IInv
<1> SUFFICES ASSUME Init PROVE IInv
  OBVIOUS
<1>1. TypeOK
  <2>1. req \in [Reqs -> Request]
    BY IdleInv DEF Init
  <2>2. writing \in [Tenants -> [{"active", "inactive"} -> Nat]] /\ member \in [Tenants -> [Users -> Membership]]
    BY DEF Init, Membership
  <2>3. /\ adminList \subseteq Users /\ autoCreate \in BOOLEAN /\ events \in 0..MaxEvents
        /\ access \in [Users -> {rec \in Record : ScopeCheck(rec)} \cup {NoRecord}]
        /\ owner  \in [Tenants -> Users \cup {None}]
        /\ status \in [Tenants -> {"none", "active", "blocked"}]
    BY EventsAssumption DEF Init
  <2> QED  BY <2>1, <2>2, <2>3 DEF TypeOK
<1>2. NoOrphanTenant /\ ActiveExists
  BY DEF Init, NoOrphanTenant, ActiveExists, NoRecord
<1>3. RequestsInv
  BY IdleInv DEF Init, RequestsInv
<1> QED  BY <1>1, <1>2, <1>3 DEF IInv

LEMMA ArriveInv ==
  ASSUME IInv, EventsAssumption, NoneAssumption, NEW r \in Reqs, Arrive(r)
  PROVE  IInv'
<1>1. /\ Count /\ UNCHANGED <<adminList, autoCreate, tables>>
      /\ \E op \in Ops, user \in Users \cup {None} : (user = None => op = "catalog") /\ Send(r, op, user)
  BY DEF Arrive
<1>2. PICK op \in Ops, user \in Users \cup {None} : (user = None => op = "catalog") /\ Send(r, op, user)
  BY <1>1
<1>3. PICK who \in Users \cup {None}, want \in Scope, claim \in Scope, operator \in BOOLEAN :
        LET q == [Idle EXCEPT !.pc = "resolve", !.op = op, !.user = user, !.who = who, !.want = want,
                              !.claim = claim, !.operator = operator,
                              !.blocked = IF op \in {"catalog", "use"} THEN Blocked ELSE {},
                              !.outside = IF op \in {"use", "reactivate"} THEN Outside(user) ELSE {}] IN
        /\ op = "assign" <=> who # None
        /\ op \in {"assign", "reactivate"} => want # None
        /\ op \in {"catalog", "use", "select"} => want = None
        /\ claim # None => op \notin OptionalOps
        /\ claim # None /\ op = "catalog" => user = None \/ LegacyHeader
        /\ operator => user = None
        /\ Put(r, IF user = None THEN ResolveEffectiveTenant(q, NoRecord) ELSE q)
  BY <1>2, Zenon DEF Send
<1> DEFINE q == [Idle EXCEPT !.pc = "resolve", !.op = op, !.user = user, !.who = who, !.want = want,
                             !.claim = claim, !.operator = operator,
                             !.blocked = IF op \in {"catalog", "use"} THEN Blocked ELSE {},
                             !.outside = IF op \in {"use", "reactivate"} THEN Outside(user) ELSE {}]
<1>4. /\ q \in Request /\ q.pc = "resolve" /\ q.op = op /\ q.user = user /\ q.who = who
      /\ q.stage = "middleware" /\ q.ctx = None
      /\ q.blocked \subseteq Blocked /\ q.outside \subseteq Outside(user)
  <2>1. op \in AllOps
    BY OpsAssumption DEF AllOps
  <2>2. NoRecord \in Record /\ Blocked \subseteq Tenants /\ Outside(user) \subseteq Tenants
    BY DEF NoRecord, Record, Scope, Blocked, Outside
  <2> DEFINE b == IF op \in {"catalog", "use"} THEN Blocked ELSE {}
             o == IF op \in {"use", "reactivate"} THEN Outside(user) ELSE {}
  <2>3. b \in SUBSET Tenants /\ b \subseteq Blocked /\ o \in SUBSET Tenants /\ o \subseteq Outside(user)
    BY <2>2
  <2> HIDE DEF b, o
  <2>4. LET s == [Idle EXCEPT !.pc = "resolve", !.op = op, !.user = user, !.who = who, !.want = want,
                              !.claim = claim, !.operator = operator, !.blocked = b, !.outside = o]
        IN  /\ s \in Request /\ s.pc = "resolve" /\ s.op = op /\ s.user = user /\ s.who = who
            /\ s.stage = "middleware" /\ s.ctx = None /\ s.blocked = b /\ s.outside = o
    BY <2>1, <2>2, <2>3 DEF Idle, Request, Scope
  <2> QED  BY <2>3, <2>4 DEF b, o
<1>5. Put(r, IF user = None THEN ResolveEffectiveTenant(q, NoRecord) ELSE q) /\ (op = "assign" <=> who # None)
  BY <1>3
<1> HIDE DEF q
<1>6. Sound(q)
  <2>1. \A t \in Outside(user) : <<t, user>> \notin Members
    BY DEF Outside, Members
  <2> QED  BY <1>2, <1>4, <1>5, <2>1 DEF Sound
<1>7. events' \in 0..MaxEvents
  BY <1>1, EventsAssumption DEF Count, IInv, TypeOK
<1>8. CASE user = None
  <2>1. Put(r, ResolveEffectiveTenant(q, NoRecord))
    BY <1>5, <1>8
  <2>2. NoRecord \in Record
    BY DEF NoRecord, Record, Scope
  <2>3. /\ ResolveEffectiveTenant(q, NoRecord) \in Request
        /\ RequestInv(ResolveEffectiveTenant(q, NoRecord), Recorded, Exists, Blocked, adminList, Members)
    BY <1>4, <1>6, <2>2, NoneAssumption, ResolveEffectiveTenantInv
  <2> QED  BY <1>1, <1>7, <2>1, <2>3, QuietStep
<1>9. CASE user # None
  <2>1. Put(r, q)
    BY <1>5, <1>9
  <2>2. RequestInv(q, Recorded, Exists, Blocked, adminList, Members)
    BY <1>4, <1>6, <1>9 DEF RequestInv, Sound
  <2> QED  BY <1>1, <1>4, <1>7, <2>1, <2>2, QuietStep
<1> QED  BY <1>8, <1>9

\* Witness, for one request.
Told(q, t, st, m) ==
  [q EXCEPT !.blocked = IF st = "active" THEN @ \ {t} ELSE @,
            !.outside = IF q.user \in Users /\ m[q.user] = "active" THEN @ \ {t} ELSE @]

\* A request keeps its assertion when tenant t changes and the histories are told:
\* blocks end and memberships begin where the histories say so only.
LEMMA Witnessed ==
  ASSUME NEW q \in Request, NEW recorded, NEW exists, NEW blocked, NEW admins, NEW members,
         NEW blocked2, NEW members2, NEW t, NEW st, NEW m,
         RequestInv(q, recorded, exists, blocked, admins, members),
         blocked \ (IF st = "active" THEN {t} ELSE {}) \subseteq blocked2,
         \A x, u : <<x, u>> \in members2 => <<x, u>> \in members \/ (x = t /\ u \in Users /\ m[u] = "active")
  PROVE  /\ Told(q, t, st, m) \in Request
         /\ RequestInv(Told(q, t, st, m), recorded, exists, blocked2, admins, members2)
<1> DEFINE s == Told(q, t, st, m)
<1>1. s \in Request
  BY DEF Request, Told
<1>2. /\ s.pc = q.pc /\ s.stage = q.stage /\ s.op = q.op /\ s.user = q.user /\ s.who = q.who
      /\ s.want = q.want /\ s.seen = q.seen /\ s.ctx = q.ctx /\ s.tenant = q.tenant
      /\ s.operator = q.operator
      /\ s.blocked = IF st = "active" THEN q.blocked \ {t} ELSE q.blocked
      /\ s.outside = IF q.user \in Users /\ m[q.user] = "active" THEN q.outside \ {t} ELSE q.outside
  BY DEF Request, Told
<1> HIDE DEF s
<1>3. s.blocked \subseteq blocked2
  BY <1>2 DEF RequestInv
<1>4. \A x \in s.outside : <<x, s.user>> \notin members2
  BY <1>2 DEF RequestInv
<1>5. s.blocked \subseteq q.blocked /\ s.outside \subseteq q.outside
  BY <1>2
<1>6. RequestInv(s, recorded, exists, blocked2, admins, members2)
  BY <1>2, <1>3, <1>4, <1>5 DEF RequestInv
<1> QED  BY <1>1, <1>6 DEF s

\* The same for all requests at once, some of which may have gone on.
LEMMA WitnessInv ==
  ASSUME NEW qs \in [Reqs -> Request], NEW recorded, NEW t \in Tenants, NEW st, NEW m,
         \A r \in Reqs : RequestInv(qs[r], recorded, Exists, Blocked, adminList, Members),
         req' = Witness(qs, t, st, m), adminList' = adminList,
         recorded \subseteq Recorded', Exists \subseteq Exists',
         Blocked \ (IF st = "active" THEN {t} ELSE {}) \subseteq Blocked',
         \A x, u : <<x, u>> \in Members' => <<x, u>> \in Members \/ (x = t /\ u \in Users /\ m[u] = "active")
  PROVE  req' \in [Reqs -> Request] /\ RequestsInv'
<1>1. ASSUME NEW r \in Reqs
      PROVE  req'[r] \in Request /\ RequestInv(req'[r], Recorded', Exists', Blocked', adminList', Members')
  <2> DEFINE s == Told(qs[r], t, st, m)
  <2>1. req'[r] = s
    BY DEF Witness, Told
  <2>2. s \in Request /\ RequestInv(s, recorded, Exists, Blocked', adminList, Members')
    <3>1. qs[r] \in Request /\ RequestInv(qs[r], recorded, Exists, Blocked, adminList, Members)
      OBVIOUS
    <3> QED  BY <3>1, Witnessed
  <2> HIDE DEF s
  <2>3. s.blocked \subseteq Blocked' /\ \A x \in s.outside : <<x, s.user>> \notin Members'
    BY <2>2 DEF RequestInv
  <2>4. RequestInv(s, Recorded', Exists', Blocked', adminList, Members')
    BY <2>2, <2>3, RequestKept
  <2> QED  BY <2>1, <2>2, <2>4
<1>2. req' = [r \in Reqs |-> req'[r]]
  BY DEF Witness
<1> QED  BY <1>1, <1>2 DEF RequestsInv

LEMMA ChangeStatusInv ==
  ASSUME IInv, EventsAssumption, NEW t \in Tenants, ChangeStatus(t)
  PROVE  IInv'
<1>1. PICK s \in {"active", "inactive", "suspended"} :
        /\ status[t] # "none"
        /\ status' = [status EXCEPT ![t] = IF s = "active" THEN s ELSE "blocked"]
        /\ writing' = IF s = "suspended" THEN writing ELSE [writing EXCEPT ![t][s] = @ + 1]
        /\ req' = Witness(req, t, status'[t], member[t])
        /\ Count /\ UNCHANGED <<adminList, autoCreate, access, owner, member>>
  BY DEF ChangeStatus
<1>2. /\ access' = access /\ owner' = owner /\ member' = member
      /\ adminList' = adminList /\ autoCreate' = autoCreate
      /\ status' \in [Tenants -> {"none", "active", "blocked"}]
      /\ events' \in 0..MaxEvents
  BY <1>1, EventsAssumption DEF Count, IInv, TypeOK
<1>3. writing' \in [Tenants -> [{"active", "inactive"} -> Nat]]
  BY <1>1 DEF IInv, TypeOK
<1>4. /\ Exists' = Exists /\ Recorded' = Recorded /\ Members' = Members
      /\ Blocked \ (IF status'[t] = "active" THEN {t} ELSE {}) \subseteq Blocked'
  BY <1>1, <1>2 DEF Exists, Blocked, isTenantAccessBlocked, IInv, TypeOK, Recorded, Members
<1>5. req' \in [Reqs -> Request] /\ RequestsInv'
  <2>1. req \in [Reqs -> Request] /\ RequestsInv
    BY DEF IInv, TypeOK
  <2>2. \A x, u : <<x, u>> \in Members' => <<x, u>> \in Members \/ (x = t /\ u \in Users /\ member[t][u] = "active")
    BY <1>4
  <2> QED  BY <1>1, <1>2, <1>4, <2>1, <2>2, WitnessInv DEF RequestsInv
<1>6. NoOrphanTenant' /\ ActiveExists'
  BY <1>2, <1>4 DEF IInv, NoOrphanTenant, ActiveExists
<1> QED  BY <1>2, <1>3, <1>5, <1>6 DEF IInv, TypeOK

\* A step that changes memberships, takes none back to where there never was
\* one, and tells the histories.
LEMMA MembersStep ==
  ASSUME IInv, NEW t \in Tenants, NEW qs \in [Reqs -> Request],
         \A r \in Reqs : RequestInv(qs[r], Recorded, Exists, Blocked, adminList, Members),
         req' = Witness(qs, t, status[t], member'[t]),
         member' \in [Tenants -> [Users -> Membership]],
         \A x \in Tenants \ {t} : member'[x] = member[x],
         \A u \in Users : member[t][u] # "none" => member'[t][u] # "none",
         writing' \in [Tenants -> [{"active", "inactive"} -> Nat]], events' \in 0..MaxEvents,
         UNCHANGED <<adminList, autoCreate, access, owner, status>>
  PROVE  IInv'
<1>1. Recorded' = Recorded /\ Exists' = Exists /\ Blocked' = Blocked
  BY DEF Recorded, Exists, Blocked, isTenantAccessBlocked
<1>2. \A x, u : <<x, u>> \in Members'
                  => <<x, u>> \in Members \/ (x = t /\ u \in Users /\ member'[t][u] = "active")
  BY DEF Members
<1>3. req' \in [Reqs -> Request] /\ RequestsInv'
  <2> DEFINE m == member'[t]
  <2>1. \A x, u : <<x, u>> \in Members' => <<x, u>> \in Members \/ (x = t /\ u \in Users /\ m[u] = "active")
    BY <1>2
  <2>2. req' = Witness(qs, t, status[t], m)
    OBVIOUS
  <2> HIDE DEF m
  <2> QED  BY <1>1, <2>1, <2>2, WitnessInv
<1>4. NoOrphanTenant'
  <2>1. \A x \in Tenants : owner[x] # None => owner[x] \in Users
    BY DEF IInv, TypeOK
  <2>2. \A x \in Tenants, u \in Users : member[x][u] # "none" => member'[x][u] # "none"
    OBVIOUS
  <2> QED  BY <2>1, <2>2 DEF IInv, NoOrphanTenant
<1>5. ActiveExists'
  BY <1>1 DEF IInv, ActiveExists
<1> QED  BY <1>3, <1>4, <1>5 DEF IInv, TypeOK

LEMMA WriteMembersInv ==
  ASSUME IInv, NEW t \in Tenants, WriteMembers(t)
  PROVE  IInv'
<1>1. PICK s \in {"active", "inactive"} :
        /\ writing[t][s] > 0
        /\ writing' = [writing EXCEPT ![t][s] = @ - 1]
        /\ member' = [member EXCEPT ![t] = [u \in Users |-> IF HasRow(t, u) THEN s ELSE @[u]]]
        /\ req' = Witness(req, t, status[t], member'[t])
        /\ UNCHANGED <<others, access, owner, status>>
  BY DEF WriteMembers
<1>2. /\ member' \in [Tenants -> [Users -> Membership]]
      /\ \A x \in Tenants \ {t} : member'[x] = member[x]
      /\ \A u \in Users : member[t][u] # "none" => member'[t][u] # "none"
  BY <1>1 DEF IInv, TypeOK, Membership
<1>3. writing' \in [Tenants -> [{"active", "inactive"} -> Nat]] /\ events' \in 0..MaxEvents
      /\ UNCHANGED <<adminList, autoCreate, access, owner, status>>
  BY <1>1 DEF IInv, TypeOK, others
<1>4. req \in [Reqs -> Request] /\ \A r \in Reqs : RequestInv(req[r], Recorded, Exists, Blocked, adminList, Members)
  BY DEF IInv, TypeOK, RequestsInv
<1> QED  BY <1>1, <1>2, <1>3, <1>4, MembersStep

LEMMA ChangeMemberInv ==
  ASSUME IInv, EventsAssumption, NEW t \in Tenants, NEW u \in Users, ChangeMember(t, u)
  PROVE  IInv'
<1>1. PICK m \in {"active", "removed"} :
        /\ member' = [member EXCEPT ![t][u] = m]
        /\ req' = Witness(req, t, status[t], member'[t])
        /\ Count /\ UNCHANGED <<adminList, autoCreate, access, owner, status, writing>>
  BY DEF ChangeMember
<1>2. /\ member' \in [Tenants -> [Users -> Membership]]
      /\ \A x \in Tenants \ {t} : member'[x] = member[x]
      /\ \A v \in Users : member[t][v] # "none" => member'[t][v] # "none"
  BY <1>1 DEF IInv, TypeOK, Membership
<1>3. writing' \in [Tenants -> [{"active", "inactive"} -> Nat]] /\ events' \in 0..MaxEvents
      /\ UNCHANGED <<adminList, autoCreate, access, owner, status>>
  BY <1>1, EventsAssumption DEF IInv, TypeOK, Count
<1>4. req \in [Reqs -> Request] /\ \A r \in Reqs : RequestInv(req[r], Recorded, Exists, Blocked, adminList, Members)
  BY DEF IInv, TypeOK, RequestsInv
<1> QED  BY <1>1, <1>2, <1>3, <1>4, MembersStep

LEMMA RestartInv ==
  ASSUME IInv, EventsAssumption, Restart
  PROVE  IInv'
<1>1. /\ access' = access /\ owner' = owner /\ member' = member /\ status' = status
      /\ adminList' \subseteq Users /\ autoCreate' \in BOOLEAN /\ events' \in 0..MaxEvents
      /\ req' = [r \in Reqs |-> Idle]
      /\ writing' \in [Tenants -> [{"active", "inactive"} -> Nat]]
  BY EventsAssumption DEF Restart, Count, IInv, TypeOK
<1>2. Exists' = Exists /\ Recorded' = Recorded
  BY <1>1 DEF Exists, Recorded
<1>3. RequestsInv' /\ req' \in [Reqs -> Request]
  BY <1>1, <1>2, IdleInv DEF RequestsInv
<1>4. NoOrphanTenant' /\ ActiveExists'
  BY <1>1, <1>2 DEF IInv, NoOrphanTenant, ActiveExists
<1> QED  BY <1>1, <1>3, <1>4 DEF IInv, TypeOK
-----------------------------------------------------------------------------
(* resolveTenantUserAccess                                                 *)

\* What the invariant says of one request.
LEMMA OfRequest ==
  ASSUME IInv, NEW r \in Reqs
  PROVE  req[r] \in Request /\ RequestInv(req[r], Recorded, Exists, Blocked, adminList, Members)
BY DEF IInv, TypeOK, RequestsInv

LEMMA BackToIdle ==
  ASSUME IInv, NEW r \in Reqs, Put(r, Idle), UNCHANGED <<others, tables>>
  PROVE  IInv'
<1>1. /\ UNCHANGED <<adminList, autoCreate, tables>>
      /\ events' \in 0..MaxEvents
  BY DEF others, IInv, TypeOK
<1>2. Idle \in Request /\ RequestInv(Idle, Recorded, Exists, Blocked, adminList, Members)
  BY IdleInv
<1> QED  BY <1>1, <1>2, QuietStep

LEMMA GoOn ==
  ASSUME IInv, NEW r \in Reqs, NEW q \in Request, Put(r, q),
         RequestInv(q, Recorded, Exists, Blocked, adminList, Members), UNCHANGED <<others, tables>>
  PROVE  IInv'
<1>1. /\ UNCHANGED <<adminList, autoCreate, tables>>
      /\ events' \in 0..MaxEvents
  BY DEF others, IInv, TypeOK
<1> QED  BY <1>1, QuietStep

LEMMA ResolveReadInv ==
  ASSUME IInv, NEW r \in Reqs, ResolveRead(r)
  PROVE  IInv'
<1> DEFINE s == [req[r] EXCEPT !.pc = "commit", !.seen = access[req[r].user]]
           u == req[r].user
<1>1. Put(r, s) /\ UNCHANGED <<others, tables>> /\ req[r].pc = "resolve"
  BY DEF ResolveRead
<1>2. req[r] \in Request /\ RequestInv(req[r], Recorded, Exists, Blocked, adminList, Members)
  BY OfRequest
<1>3. u \in Users
  BY <1>1, <1>2 DEF RequestInv, Request
<1>4. access[u] \in Record /\ (access[u] # NoRecord => ScopeCheck(access[u]))
      /\ access[u].active \in Exists \cup {None}
  <2>1. NoRecord \in Record
    BY DEF NoRecord, Record, Scope
  <2> QED  BY <1>3, <2>1 DEF IInv, TypeOK, ActiveExists
<1>5. /\ s \in Request /\ s.pc = "commit" /\ s.seen = access[u] /\ s.user = u /\ s.op = req[r].op
      /\ s.who = req[r].who /\ s.stage = req[r].stage /\ s.ctx = req[r].ctx
      /\ s.blocked = req[r].blocked /\ s.outside = req[r].outside /\ s.operator = req[r].operator
  BY <1>2, <1>4 DEF Request
<1>6. access[u] # NoRecord => u \in Recorded
  BY <1>3 DEF Recorded
<1>7. u # None
  BY <1>3, NoneAssumption
<1> HIDE DEF s, u
<1>8. RequestInv(s, Recorded, Exists, Blocked, adminList, Members)
  <2>1. /\ s.op = "assign" => s.who \in Users
        /\ s.stage = "scope" => s.ctx = None
        /\ s.stage = "route" /\ s.op \notin OptionalOps /\ s.ctx = None => s.user \in adminList \/ s.operator
        /\ s.stage \in {"route", "service"} => s.op \in OptionalOps \/ (s.op = "use" /\ s.stage = "route")
        /\ s.blocked \subseteq Blocked /\ \A t \in s.outside : <<t, s.user>> \notin Members
    BY <1>1, <1>2, <1>5 DEF u, RequestInv
  <2> QED  BY <1>4, <1>5, <1>6, <1>7, <2>1 DEF RequestInv
<1> QED  BY <1>1, <1>5, <1>8, GoOn

LEMMA EnlistPlatformAdminInv ==
  ASSUME IInv, NoneAssumption, NEW r \in Reqs, EnlistPlatformAdmin(r)
  PROVE  IInv'
<1> DEFINE rec == [NoRecord EXCEPT !.admin = TRUE]
           u == req[r].user
           q == Proceed([req[r] EXCEPT !.seen = NoRecord], rec)
<1>1. /\ req[r].pc = "commit" /\ access' = [access EXCEPT ![u] = rec]
      /\ Put(r, q) /\ u \in adminList
      /\ UNCHANGED <<others, owner, status, member, writing>>
  BY DEF EnlistPlatformAdmin, InsertRecord, Resolved
<1>2. u \in Users
  BY <1>1 DEF IInv, TypeOK
<1>3. rec \in Record /\ ScopeCheck(rec) /\ rec.active = None
  BY DEF NoRecord, Record, Scope, ScopeCheck
<1>4. q \in Request /\ RequestInv(q, Recorded \cup {u}, Exists, Blocked, adminList, Members)
  BY <1>1, <1>3, ResolvedInv
<1> HIDE DEF q, u, rec
<1> QED  BY <1>1, <1>2, <1>3, <1>4, AccessStep

\* The synchronisation writes a record only to make its user an administrator:
\* the record of one taken off the list would have no tenant.
LEMMA SyncedAdmin ==
  ASSUME NEW rec \in Record, ScopeCheck(rec), NEW u, ScopeCheck(Synced(rec, u \in adminList)),
         rec.admin # (u \in adminList)
  PROVE  LET next == Synced(rec, u \in adminList) IN
         /\ next \in Record /\ next.admin /\ next.active = rec.active /\ Effective(next) = rec.active
         /\ u \in adminList
<1> DEFINE next == Synced(rec, u \in adminList)
<1>1. u \in adminList
  <2> SUFFICES ASSUME u \notin adminList PROVE FALSE
    OBVIOUS
  <2>1. (u \in adminList) = FALSE
    OBVIOUS
  <2>2. next = Synced(rec, FALSE)
    BY <2>1
  <2>3. next.admin = FALSE /\ next.tenant = rec.tenant
    BY <2>2 DEF Synced
  <2>4. rec.tenant # None
    BY <2>3 DEF ScopeCheck
  <2>5. rec.admin
    BY <2>1 DEF Record
  <2> QED  BY <2>4, <2>5 DEF ScopeCheck
<1>2. next = Synced(rec, TRUE)
  <2>1. (u \in adminList) = TRUE
    BY <1>1
  <2> QED  BY <2>1
<1>3. next = [tenant |-> None, admin |-> TRUE, active |-> rec.active]
  BY <1>2 DEF Synced
<1>4. rec.active \in Scope /\ \A a \in Scope : [tenant |-> None, admin |-> TRUE, active |-> a] \in Record
  BY DEF Record, Scope
<1> QED  BY <1>1, <1>3, <1>4 DEF Effective

LEMMA SyncRecordInv ==
  ASSUME IInv, NoneAssumption, NEW r \in Reqs, SyncRecord(r)
  PROVE  IInv'
<1> DEFINE u == req[r].user
           rec == req[r].seen
           next == Synced(rec, u \in adminList)
<1>1. req[r] \in Request /\ RequestInv(req[r], Recorded, Exists, Blocked, adminList, Members)
  BY OfRequest
<1>2. req[r].pc = "commit" /\ rec # NoRecord /\ UNCHANGED <<others, owner, status, member, writing>>
  BY DEF SyncRecord
<1>3. u \in Recorded /\ u \in Users /\ rec \in Record /\ rec.active \in Exists \cup {None}
      /\ ScopeCheck(rec)
  BY <1>1, <1>2 DEF RequestInv, Request, Recorded
<1>4. CASE rec.admin = (u \in adminList)
  <2> DEFINE q == Proceed([req[r] EXCEPT !.seen = NoRecord], rec)
  <2>1. Put(r, q) /\ UNCHANGED <<others, tables>>
    BY <1>2, <1>4 DEF SyncRecord, OutOfStep, Resolved, tables
  <2>2. q \in Request /\ RequestInv(q, Recorded, Exists, Blocked, adminList, Members)
    BY <1>2, <1>3, <1>4, ResolvedInv
  <2> HIDE DEF q
  <2> QED  BY <2>1, <2>2, GoOn
<1>5. CASE rec.admin # (u \in adminList) /\ ScopeCheck(next)
  <2> DEFINE q == Proceed([req[r] EXCEPT !.seen = NoRecord], next)
  <2>1. Put(r, q) /\ access' = [access EXCEPT ![u] = next]
    BY <1>5 DEF SyncRecord, OutOfStep, Resolved
  <2>4. next \in Record /\ next.active \in Exists \cup {None} /\ u \in adminList
    BY <1>3, <1>5, SyncedAdmin
  <2>5. q \in Request /\ RequestInv(q, Recorded \cup {u}, Exists, Blocked, adminList, Members)
    BY <1>2, <2>4, ResolvedInv
  <2> HIDE DEF q, next
  <2> QED  BY <1>2, <1>3, <1>5, <2>1, <2>4, <2>5, AccessStep
<1>6. CASE rec.admin # (u \in adminList) /\ ~ScopeCheck(next)
  <2>1. Put(r, Idle) /\ UNCHANGED <<others, tables>>
    BY <1>2, <1>6 DEF SyncRecord, OutOfStep, tables
  <2> QED  BY <2>1, BackToIdle
<1> QED  BY <1>4, <1>5, <1>6

\* The new tenant's id is one that none had; its check counts as made.
LEMMA CreateTenantForUserInv ==
  ASSUME IInv, NoneAssumption, NEW r \in Reqs, CreateTenantForUser(r)
  PROVE  IInv'
<1> DEFINE u == req[r].user
<1>1. PICK t \in Tenants \ Exists :
        LET rec == [tenant |-> t, admin |-> FALSE, active |-> t] IN
        /\ u \notin adminList /\ autoCreate
        /\ InsertRecord(r, rec)
        /\ status' = [status EXCEPT ![t] = "active"]
        /\ owner'  = [owner EXCEPT ![t] = u]
        /\ member' = [member EXCEPT ![t][u] = "active"]
        /\ req' = Witness([req EXCEPT ![r] = Proceed([req[r] EXCEPT !.seen = NoRecord], rec)],
                          t, "active", member'[t])
        /\ UNCHANGED writing
  BY DEF CreateTenantForUser
<1> DEFINE rec == [tenant |-> t, admin |-> FALSE, active |-> t]
           q == Proceed([req[r] EXCEPT !.seen = NoRecord], rec)
<1>2. req[r] \in Request /\ RequestInv(req[r], Recorded, Exists, Blocked, adminList, Members)
  BY OfRequest
<1>3. req[r].pc = "commit" /\ access[u] = NoRecord /\ access' = [access EXCEPT ![u] = rec]
      /\ adminList' = adminList /\ autoCreate' = autoCreate /\ events' = events
  BY <1>1 DEF InsertRecord, others
<1>4. u \in Users
  BY <1>2, <1>3 DEF RequestInv, Request
<1>5. t \in Tenants /\ t # None /\ t \notin Exists
  BY NoneAssumption, <1>1
<1>6. rec \in Record /\ ScopeCheck(rec) /\ rec # NoRecord /\ rec.active = t /\ ~rec.admin
  BY <1>5 DEF Record, Scope, ScopeCheck, NoRecord
<1>7. q \in Request /\ RequestInv(q, Recorded \cup {u}, Exists, Blocked, adminList, Members)
  BY <1>3, <1>6, ResolvedInv
<1>8. access' \in [Users -> {x \in Record : ScopeCheck(x)} \cup {NoRecord}]
  BY <1>3, <1>6 DEF IInv, TypeOK
<1>9. access'[u] = rec /\ \A v \in Users \ {u} : access'[v] = access[v]
  BY <1>3, <1>4 DEF IInv, TypeOK
<1>10. status' \in [Tenants -> {"none", "active", "blocked"}]
       /\ status'[t] = "active" /\ \A x \in Tenants \ {t} : status'[x] = status[x]
  BY <1>1, <1>5 DEF IInv, TypeOK
<1>11. owner' \in [Tenants -> Users \cup {None}]
       /\ owner'[t] = u /\ \A x \in Tenants \ {t} : owner'[x] = owner[x]
  BY <1>1, <1>4, <1>5 DEF IInv, TypeOK
<1>12. member' \in [Tenants -> [Users -> Membership]]
       /\ member'[t][u] = "active" /\ \A x \in Tenants \ {t} : member'[x] = member[x]
       /\ \A v \in Users \ {u} : member'[t][v] = member[t][v]
  BY <1>1, <1>4, <1>5 DEF IInv, TypeOK, Membership
<1>13. /\ Recorded' = Recorded \cup {u}
       /\ Exists' = Exists \cup {t}
       /\ Blocked \ {t} \subseteq Blocked'
  BY <1>4, <1>5, <1>6, <1>9, <1>10 DEF Recorded, Exists, Blocked, isTenantAccessBlocked
<1> HIDE DEF rec
<1>14. req' \in [Reqs -> Request] /\ RequestsInv'
  <2> DEFINE qs == [req EXCEPT ![r] = q]
             m  == member'[t]
  <2>1. req' = Witness(qs, t, "active", m)
    BY <1>1 DEF rec
  <2>2. qs \in [Reqs -> Request] /\ qs[r] = q /\ \A x \in Reqs \ {r} : qs[x] = req[x]
    BY <1>7 DEF IInv, TypeOK
  <2>3. \A x, v : <<x, v>> \in Members' => <<x, v>> \in Members \/ (x = t /\ v \in Users /\ m[v] = "active")
    BY <1>12 DEF Members
  <2> HIDE DEF qs, u, q, m
  <2>4. ASSUME NEW x \in Reqs
        PROVE  RequestInv(qs[x], Recorded \cup {u}, Exists, Blocked, adminList, Members)
    <3>1. CASE x = r
      BY <1>7, <2>2, <3>1
    <3>2. CASE x # r
      <4>1. req[x] \in Request /\ RequestInv(req[x], Recorded, Exists, Blocked, adminList, Members)
        BY OfRequest
      <4>2. req[x].blocked \subseteq Blocked /\ \A y \in req[x].outside : <<y, req[x].user>> \notin Members
        BY <4>1 DEF RequestInv
      <4>3. RequestInv(req[x], Recorded \cup {u}, Exists, Blocked, adminList, Members)
        BY <4>1, <4>2, RequestKept
      <4> QED  BY <2>2, <3>2, <4>3
    <3> QED  BY <3>1, <3>2
  <2>5. Recorded \cup {u} \subseteq Recorded' /\ Exists \subseteq Exists'
        /\ Blocked \ (IF "active" = "active" THEN {t} ELSE {}) \subseteq Blocked'
    BY <1>13
  <2>6. adminList' = adminList /\ t \in Tenants
    BY <1>3, <1>5
  <2> QED  BY <2>1, <2>2, <2>3, <2>4, <2>5, <2>6, WitnessInv
<1>16. ActiveExists'
  <2>1. \A v \in Users \ {u} : access[v].active \in Exists \cup {None}
    BY DEF IInv, ActiveExists
  <2> QED  BY <1>6, <1>9, <1>13, <2>1 DEF ActiveExists
<1>17. NoOrphanTenant'
  <2>1. \A x \in Tenants : owner[x] # u
    BY <1>3, <1>4, NoneAssumption DEF IInv, TypeOK, NoOrphanTenant
  <2> SUFFICES ASSUME NEW x \in Tenants, owner'[x] # None
               PROVE  /\ access'[owner'[x]] # NoRecord /\ member'[x][owner'[x]] # "none"
                      /\ \A other \in Tenants \ {x} : owner'[other] # owner'[x]
    BY DEF NoOrphanTenant
  <2>2. CASE x = t
    BY <1>6, <1>9, <1>11, <1>12, <2>1, <2>2
  <2>3. CASE x # t
    <3>1. owner'[x] = owner[x] /\ owner[x] # u /\ member'[x] = member[x] /\ owner[x] \in Users
      BY <1>11, <1>12, <2>1, <2>3
    <3>2. /\ access[owner[x]] # NoRecord /\ member[x][owner[x]] # "none"
          /\ \A other \in Tenants \ {x} : owner[other] # owner[x]
      BY <3>1 DEF IInv, NoOrphanTenant
    <3> QED  BY <1>9, <1>11, <3>1, <3>2
  <2> QED  BY <2>2, <2>3
<1>18. writing' = writing
  BY <1>1
<1> QED  BY <1>3, <1>8, <1>10, <1>11, <1>12, <1>14, <1>16, <1>17, <1>18 DEF IInv, TypeOK

LEMMA ResolveInv ==
  ASSUME IInv, NoneAssumption, NEW r \in Reqs, Resolve(r)
  PROVE  IInv'
<1>1. CASE ConflictOnInsert(r) \/ RefuseUnassigned(r)
  BY <1>1, BackToIdle DEF ConflictOnInsert, RefuseUnassigned
<1> QED  BY <1>1, ResolveReadInv, EnlistPlatformAdminInv, CreateTenantForUserInv, SyncRecordInv
         DEF Resolve
-----------------------------------------------------------------------------
(* The rest of the way to a handler, and the routes that change the tenant.*)

LEMMA EnforceTenantLifecycleStateInv ==
  ASSUME IInv, NEW r \in Reqs, EnforceTenantLifecycleState(r)
  PROVE  IInv'
<1>1. req[r] \in Request /\ RequestInv(req[r], Recorded, Exists, Blocked, adminList, Members)
  BY OfRequest
<1>2. req[r].pc = "status" /\ UNCHANGED <<others, tables>>
  BY DEF EnforceTenantLifecycleState
<1>3. CASE LifecycleStops(req[r])
  BY <1>2, <1>3, BackToIdle DEF EnforceTenantLifecycleState
<1>4. CASE ~LifecycleStops(req[r])
  <2>1. Put(r, ToRoute(req[r]))
    BY <1>4 DEF EnforceTenantLifecycleState
  <2>2. Sound(req[r]) /\ req[r].ctx # None
    BY <1>1, <1>2 DEF RequestInv, Sound
  <2>3. req[r].op = "catalog" => req[r].ctx \notin req[r].blocked
    BY <1>4, <2>2 DEF LifecycleStops, Blocked, Sound
  <2>4. ToRoute(req[r]) \in Request /\ RequestInv(ToRoute(req[r]), Recorded, Exists, Blocked, adminList, Members)
    BY <1>1, <2>2, <2>3, ToRouteInv
  <2> QED  BY <1>2, <2>1, <2>4, GoOn
<1> QED  BY <1>3, <1>4

\* A request goes to another statement and changes nothing else.
LEMMA GotoInv ==
  ASSUME IInv, NEW r \in Reqs, NEW pc \in {"member", "tenantStatus", "handler"}, Goto(r, pc),
         req[r].pc \in {"memberships", "member", "tenantStatus"},
         pc \in {"tenantStatus", "handler"}
           => RowVisible(req[r].ctx, req[r].tenant) /\ req[r].tenant \notin req[r].outside,
         pc = "handler" /\ req[r].op # "reactivate" => req[r].tenant \notin req[r].blocked,
         UNCHANGED <<others, tables>>
  PROVE  IInv'
<1> DEFINE s == [req[r] EXCEPT !.pc = pc]
<1>1. req[r] \in Request /\ RequestInv(req[r], Recorded, Exists, Blocked, adminList, Members)
  BY OfRequest
<1>2. /\ s \in Request /\ s.pc = pc /\ s.stage = req[r].stage /\ s.op = req[r].op
      /\ s.user = req[r].user /\ s.who = req[r].who /\ s.want = req[r].want /\ s.seen = req[r].seen
      /\ s.ctx = req[r].ctx /\ s.tenant = req[r].tenant /\ s.blocked = req[r].blocked
      /\ s.outside = req[r].outside /\ s.operator = req[r].operator
  BY <1>1 DEF Request
<1>3. Put(r, s)
  BY DEF Goto
<1> HIDE DEF s
<1>4. req[r].user # None
  BY <1>1 DEF RequestInv
<1>5. RequestInv(s, Recorded, Exists, Blocked, adminList, Members)
  BY <1>1, <1>2, <1>4 DEF RequestInv
<1> QED  BY <1>2, <1>3, <1>5, GoOn

LEMMA ResolveAuthenticatedTenantAccessInv ==
  ASSUME IInv, NEW r \in Reqs,
         \/ ListMemberships(r) \/ CheckMembership(r) \/ CheckTenantStatus(r)
         \/ HandlerEnds(r) \/ SelectActiveTenant(r)
  PROVE  IInv'
<1>1. req[r] \in Request /\ RequestInv(req[r], Recorded, Exists, Blocked, adminList, Members)
  BY OfRequest
<1>2. UNCHANGED <<others, tables>>
  BY DEF ListMemberships, CheckMembership, CheckTenantStatus, HandlerEnds, SelectActiveTenant
<1>3. CASE Put(r, Idle)
  BY <1>2, <1>3, BackToIdle
<1>4. CASE ~Put(r, Idle) /\ ListMemberships(r)
  <2>1. Goto(r, "member") /\ req[r].pc = "memberships"
    BY <1>4 DEF ListMemberships
  <2> QED  BY <1>2, <2>1, GotoInv
<1>5. CASE ~Put(r, Idle) /\ CheckMembership(r)
  <2>1. Goto(r, "tenantStatus") /\ req[r].pc = "member" /\ ActiveMember(req[r], req[r].tenant)
    BY <1>5 DEF CheckMembership
  <2>2. RowVisible(req[r].ctx, req[r].tenant)
    BY <2>1 DEF ActiveMember
  <2>3. req[r].user # None /\ req[r].outside \subseteq Tenants
    BY <1>1, <2>1 DEF RequestInv, Request
  <2>4. req[r].tenant \notin req[r].outside
    <3>1. ASSUME req[r].tenant \in req[r].outside PROVE FALSE
      <4>1. <<req[r].tenant, req[r].user>> \in Members
        BY <1>1, <2>1, <2>3, <3>1 DEF ActiveMember, Members, Request
      <4> QED  BY <1>1, <3>1, <4>1 DEF RequestInv
    <3> QED  BY <3>1
  <2> QED  BY <1>2, <2>1, <2>2, <2>4, GotoInv
<1>6. CASE ~Put(r, Idle) /\ CheckTenantStatus(r)
  <2>1. Goto(r, "handler") /\ req[r].pc = "tenantStatus"
        /\ (req[r].op # "reactivate" => ~isTenantAccessBlocked(req[r].tenant))
    BY <1>6 DEF CheckTenantStatus
  <2>2. /\ RowVisible(req[r].ctx, req[r].tenant) /\ req[r].blocked \subseteq Blocked
        /\ req[r].user # None /\ req[r].op \notin OptionalOps
        /\ req[r].op # "catalog" => req[r].tenant \notin req[r].outside
    BY <1>1, <2>1 DEF RequestInv
  <2>3. req[r].op # "reactivate" => req[r].tenant \notin req[r].blocked
    BY <2>1, <2>2 DEF Blocked
  <2>4. req[r].op # "catalog"
    BY <1>1, <2>1 DEF RequestInv
  <2> QED  BY <1>2, <2>1, <2>2, <2>3, <2>4, GotoInv
<1>7. CASE HandlerEnds(r) \/ SelectActiveTenant(r)
  BY <1>3, <1>7 DEF HandlerEnds, SelectActiveTenant
<1> QED  BY <1>3, <1>4, <1>5, <1>6, <1>7

LEMMA ActivatePlatformAdminTenantInv ==
  ASSUME IInv, NoneAssumption, NEW r \in Reqs, ActivatePlatformAdminTenant(r)
  PROVE  IInv'
<1> DEFINE u == req[r].user
           want == req[r].want
           rec == [access[u] EXCEPT !.active = want]
<1>1. req[r] \in Request /\ RequestInv(req[r], Recorded, Exists, Blocked, adminList, Members)
  BY OfRequest
<1>2. req[r].pc = "activate" /\ Put(r, Idle) /\ UNCHANGED <<others, owner, status, member, writing>>
  BY DEF ActivatePlatformAdminTenant
<1>3. CASE want \in Exists \cup {None}
  <2>1. u \in Users /\ access[u] # NoRecord
    BY <1>1, <1>2 DEF RequestInv, Recorded
  <2>2. access[u] \in Record /\ ScopeCheck(access[u])
    BY <2>1 DEF IInv, TypeOK
  <2>3. access' = [access EXCEPT ![u] = rec]
    BY <1>3 DEF ActivatePlatformAdminTenant
  <2>4. rec \in Record /\ rec.active = want /\ rec.admin = access[u].admin /\ rec.tenant = access[u].tenant
    BY <1>1, <2>2 DEF Record, Request
  <2> HIDE DEF rec, u, want
  <2>5. ScopeCheck(rec)
    BY <2>2, <2>4 DEF ScopeCheck
  <2>6. Idle \in Request /\ RequestInv(Idle, Recorded \cup {u}, Exists, Blocked, adminList, Members)
    BY IdleInv
  <2>7. rec.active \in Exists \cup {None}
    BY <1>3, <2>4
  <2> QED  BY <1>2, <2>1, <2>3, <2>4, <2>5, <2>6, <2>7, AccessStep
<1>4. CASE want \notin Exists \cup {None}
  <2>1. UNCHANGED <<others, tables>>
    BY <1>2, <1>4 DEF ActivatePlatformAdminTenant, tables
  <2> QED  BY <1>2, <2>1, BackToIdle
<1> QED  BY <1>3, <1>4

LEMMA AssignReadsAccessInv ==
  ASSUME IInv, NEW r \in Reqs, AssignReadsAccess(r)
  PROVE  IInv'
<1> DEFINE who == req[r].who
           s == [req[r] EXCEPT !.pc = "writeAccess", !.seen = access[who]]
<1>1. req[r] \in Request /\ RequestInv(req[r], Recorded, Exists, Blocked, adminList, Members)
  BY OfRequest
<1>2. req[r].pc = "readAccess" /\ UNCHANGED <<others, tables>>
  BY DEF AssignReadsAccess
<1>3. CASE req[r].want \in Exists
  <2>1. Put(r, s)
    BY <1>3 DEF AssignReadsAccess
  <2>2. who \in Users /\ req[r].op = "assign"
    BY <1>1, <1>2 DEF RequestInv
  <2>3. access[who] \in Record
    <3>1. NoRecord \in Record
      BY DEF NoRecord, Record, Scope
    <3> QED  BY <2>2, <3>1 DEF IInv, TypeOK
  <2>4. /\ s \in Request /\ s.pc = "writeAccess" /\ s.stage = req[r].stage /\ s.op = req[r].op
        /\ s.user = req[r].user /\ s.who = who /\ s.want = req[r].want
        /\ s.ctx = req[r].ctx /\ s.tenant = req[r].tenant /\ s.blocked = req[r].blocked
        /\ s.outside = req[r].outside /\ s.operator = req[r].operator
    BY <1>1, <2>3 DEF Request
  <2> HIDE DEF s, who
  <2>5. RequestInv(s, Recorded, Exists, Blocked, adminList, Members)
    BY <1>1, <1>2, <1>3, <2>2, <2>4 DEF RequestInv
  <2> QED  BY <1>2, <2>1, <2>4, <2>5, GoOn
<1>4. CASE req[r].want \notin Exists
  BY <1>2, <1>4, BackToIdle DEF AssignReadsAccess
<1> QED  BY <1>3, <1>4

LEMMA AssignWritesAccessInv ==
  ASSUME IInv, NoneAssumption, NEW r \in Reqs, AssignWritesAccess(r)
  PROVE  IInv'
<1> DEFINE who == req[r].who
           want == req[r].want
           rec == [tenant |-> want, admin |-> FALSE, active |-> want]
           s == [req[r] EXCEPT !.pc = "readMember", !.seen = NoRecord]
<1>1. req[r] \in Request /\ RequestInv(req[r], Recorded, Exists, Blocked, adminList, Members)
  BY OfRequest
<1>2. req[r].pc = "writeAccess" /\ UNCHANGED <<others, owner, status, member, writing>>
  BY DEF AssignWritesAccess
<1>3. CASE req[r].seen = NoRecord /\ access[who] # NoRecord
  <2>1. Put(r, Idle) /\ UNCHANGED <<others, tables>>
    BY <1>2, <1>3 DEF AssignWritesAccess, tables
  <2> QED  BY <2>1, BackToIdle
<1>4. CASE ~(req[r].seen = NoRecord /\ access[who] # NoRecord)
  <2>1. Put(r, s) /\ access' = [access EXCEPT ![who] = rec]
    BY <1>4 DEF AssignWritesAccess
  <2>2. who \in Users /\ req[r].op = "assign" /\ want \in Exists /\ want \in Tenants /\ want # None
    <3>1. want \in Exists
      BY <1>1, <1>2 DEF RequestInv
    <3> QED  BY <1>1, <1>2, <3>1, NoneAssumption DEF RequestInv, Exists
  <2>3. rec \in Record /\ ScopeCheck(rec) /\ rec.active = want
    BY <2>2 DEF Record, Scope, ScopeCheck
  <2>4. /\ s \in Request /\ s.pc = "readMember" /\ s.stage = req[r].stage /\ s.op = req[r].op
        /\ s.user = req[r].user /\ s.who = who /\ s.want = want
        /\ s.ctx = req[r].ctx /\ s.tenant = req[r].tenant /\ s.blocked = req[r].blocked
        /\ s.outside = req[r].outside /\ s.operator = req[r].operator
    <3>1. NoRecord \in Record
      BY DEF NoRecord, Record, Scope
    <3> QED  BY <1>1, <3>1 DEF Request
  <2> HIDE DEF s, who, want, rec
  <2>5. RequestInv(s, Recorded \cup {who}, Exists, Blocked, adminList, Members)
    BY <1>1, <1>2, <2>2, <2>4 DEF RequestInv
  <2>6. rec.active \in Exists \cup {None}
    BY <2>2, <2>3
  <2> QED  BY <1>2, <2>1, <2>2, <2>3, <2>4, <2>5, <2>6, AccessStep
<1> QED  BY <1>3, <1>4

LEMMA AssignReadsMembershipInv ==
  ASSUME IInv, NEW r \in Reqs, AssignReadsMembership(r)
  PROVE  IInv'
<1> DEFINE seen == HasRow(req[r].want, req[r].who) /\ RowVisible(req[r].ctx, req[r].want)
           s == [req[r] EXCEPT !.pc = "writeMember", !.member = seen]
<1>1. req[r] \in Request /\ RequestInv(req[r], Recorded, Exists, Blocked, adminList, Members)
  BY OfRequest
<1>2. req[r].pc = "readMember" /\ UNCHANGED <<others, tables>> /\ Put(r, s)
  BY DEF AssignReadsMembership
<1>3. seen \in BOOLEAN
  BY DEF HasRow, RowVisible
<1> HIDE DEF seen
<1>4. /\ s \in Request /\ s.pc = "writeMember" /\ s.stage = req[r].stage /\ s.op = req[r].op
      /\ s.user = req[r].user /\ s.who = req[r].who /\ s.want = req[r].want
      /\ s.ctx = req[r].ctx /\ s.tenant = req[r].tenant /\ s.blocked = req[r].blocked
      /\ s.outside = req[r].outside /\ s.operator = req[r].operator
  BY <1>1, <1>3 DEF Request
<1> HIDE DEF s
<1>5. RequestInv(s, Recorded, Exists, Blocked, adminList, Members)
  BY <1>1, <1>2, <1>4 DEF RequestInv
<1> QED  BY <1>2, <1>4, <1>5, GoOn

\* A membership becomes active, and none is taken away.
LEMMA AssignWritesMembershipInv ==
  ASSUME IInv, NEW r \in Reqs, AssignWritesMembership(r)
  PROVE  IInv'
<1> DEFINE q == req[r]
           t == req[r].want
           u == req[r].who
           qs == [req EXCEPT ![r] = Idle]
<1>1. req[r] \in Request /\ RequestInv(req[r], Recorded, Exists, Blocked, adminList, Members)
  BY OfRequest
<1>2. q.pc = "writeMember" /\ UNCHANGED <<others, access, owner, status, writing>>
  BY DEF AssignWritesMembership
<1>3. CASE Put(r, Idle) /\ UNCHANGED member
  <2>1. UNCHANGED <<others, tables>>
    BY <1>2, <1>3 DEF tables
  <2> QED  BY <1>3, <2>1, BackToIdle
<1>4. CASE member' = [member EXCEPT ![t][u] = "active"] /\ req' = Witness(qs, t, status[t], member'[t])
  <2>1. t \in Tenants /\ u \in Users
    <3>1. t \in Exists
      BY <1>1, <1>2 DEF RequestInv
    <3> QED  BY <1>1, <1>2, <3>1 DEF RequestInv, Exists
  <2>2. qs \in [Reqs -> Request] /\ \A x \in Reqs : RequestInv(qs[x], Recorded, Exists, Blocked, adminList, Members)
    <3>1. Idle \in Request /\ RequestInv(Idle, Recorded, Exists, Blocked, adminList, Members)
      BY IdleInv
    <3>2. req \in [Reqs -> Request] /\ \A x \in Reqs : RequestInv(req[x], Recorded, Exists, Blocked, adminList, Members)
      BY DEF IInv, TypeOK, RequestsInv
    <3>3. qs \in [Reqs -> Request] /\ \A x \in Reqs : qs[x] = IF x = r THEN Idle ELSE req[x]
      BY <3>1, <3>2
    <3> QED  BY <3>1, <3>2, <3>3
  <2> HIDE DEF q, t, u, qs
  <2>3. /\ member' \in [Tenants -> [Users -> Membership]]
        /\ \A x \in Tenants \ {t} : member'[x] = member[x]
        /\ \A v \in Users : member[t][v] # "none" => member'[t][v] # "none"
    BY <1>4, <2>1 DEF IInv, TypeOK, Membership
  <2>4. writing' \in [Tenants -> [{"active", "inactive"} -> Nat]] /\ events' \in 0..MaxEvents
        /\ UNCHANGED <<adminList, autoCreate, access, owner, status>>
    BY <1>2 DEF IInv, TypeOK, others
  <2> QED  BY <1>4, <2>1, <2>2, <2>3, <2>4, MembersStep
<1> QED  BY <1>3, <1>4 DEF AssignWritesMembership

LEMMA RouteInv ==
  ASSUME IInv, NoneAssumption, NEW r \in Reqs, Route(r)
  PROVE  IInv'
BY ResolveAuthenticatedTenantAccessInv, ActivatePlatformAdminTenantInv, AssignReadsAccessInv,
   AssignWritesAccessInv, AssignReadsMembershipInv, AssignWritesMembershipInv DEF Route

LEMMA StutterInv == ASSUME IInv, UNCHANGED vars PROVE IInv'
<1>1. /\ adminList' = adminList /\ autoCreate' = autoCreate /\ access' = access /\ owner' = owner
      /\ status' = status /\ member' = member /\ req' = req /\ events' = events
      /\ writing' = writing
  BY DEF vars
<1>2. Recorded' = Recorded /\ Exists' = Exists /\ Blocked' = Blocked /\ Members' = Members
  BY <1>1, SameTables DEF Recorded
<1> QED  BY <1>1, <1>2 DEF IInv, TypeOK, NoOrphanTenant, ActiveExists, RequestsInv

LEMMA NextInv == ASSUME IInv, [Next]_vars PROVE IInv'
<1>1. ASSUME NEW r \in Reqs, Arrive(r) PROVE IInv'
  BY <1>1, EventsAssumption, NoneAssumption, ArriveInv
<1>2. ASSUME NEW r \in Reqs, Handle(r) PROVE IInv'
  BY <1>2, NoneAssumption, ResolveInv, EnforceTenantLifecycleStateInv, RouteInv DEF Handle
<1>3. ASSUME NEW t \in Tenants, ChangeStatus(t) PROVE IInv'
  BY <1>3, EventsAssumption, ChangeStatusInv
<1>4. CASE Restart
  BY <1>4, EventsAssumption, RestartInv
<1>5. CASE Quiet \/ UNCHANGED vars
  BY <1>5, StutterInv DEF Quiet
<1>6. ASSUME NEW t \in Tenants, WriteMembers(t) PROVE IInv'
  BY <1>6, WriteMembersInv
<1>7. ASSUME NEW t \in Tenants, NEW u \in Users, ChangeMember(t, u) PROVE IInv'
  BY <1>7, EventsAssumption, ChangeMemberInv
<1> QED  BY <1>1, <1>2, <1>3, <1>4, <1>5, <1>6, <1>7 DEF Next

\* Every state satisfies the inductive invariant: the types, the ownership of
\* workspaces, and what each request may rely on between two statements.
THEOREM Invariant == Spec => []IInv
BY InitInv, NextInv, PTL DEF Spec

\* However many first requests of however many users overlap, no user owns two
\* workspaces, and every workspace's owner has a record and got a membership
\* of it, whatever lifecycle requests and removals did to that since.
THEOREM NoOrphans == Spec => []NoOrphanTenant
BY Invariant, PTL DEF IInv

\* The handler of an authenticated route always works for the tenant its
\* queries are confined to, whatever was reassigned since the middleware ran.
THEOREM InScope == Spec => []HandlerInScope
<1>1. IInv => HandlerInScope
  BY DEF IInv, RequestsInv, RequestInv, RowVisible, HandlerInScope
<1> QED  BY <1>1, Invariant, PTL

\* No handler but reactivation's runs for a tenant blocked since before its
\* request came, and none of an authorized route for a tenant its user has
\* been no active member of since then.
THEOREM BlockedOut == Spec => []BlockedStaysOut
<1>1. IInv => BlockedStaysOut
  BY DEF IInv, RequestsInv, RequestInv, BlockedStaysOut
<1> QED  BY <1>1, Invariant, PTL

\* Only users on the present list of administrators get to change anyone's
\* tenant or to a handler without a tenant (operators apart), whatever role
\* an access record kept from an earlier list.
THEOREM ByThePlatform == Spec => []PlatformOnly
<1>1. IInv => PlatformOnly
  BY DEF IInv, RequestsInv, RequestInv, PlatformOnly
<1> QED  BY <1>1, Invariant, PTL
-----------------------------------------------------------------------------
(* The policy: what each step does to the tenant a user acts for.          *)

Home   == [u \in Users |-> Effective(access[u])]
Admins == {u \in Users : access[u].admin}

LEMMA PolicyInit == Init => Policy!PInit
<1> SUFFICES ASSUME Init PROVE Policy!PInit
  OBVIOUS
<1>1. \A u \in Users : access[u] = NoRecord
  BY DEF Init
<1>2. Effective(NoRecord) = None /\ ~NoRecord.admin
  BY DEF Effective, NoRecord
<1>3. Home = [u \in Users |-> None] /\ Admins = {}
  BY <1>1, <1>2 DEF Home, Admins
<1>4. Exists \in SUBSET Tenants /\ owner = [t \in Tenants |-> None]
  BY DEF Exists, Init
<1> QED  BY <1>3, <1>4 DEF Policy!PInit, Home, Admins

LEMMA PolicyAllows ==
  ASSUME NEW u \in Users,
         Policy!GetWorkspace(u) \/ Policy!BecomeAdmin(u) \/ Policy!Activate(u) \/ Policy!Assign(u)
  PROVE  Policy!PNext
BY DEF Policy!PNext

LEMMA PolicyStutter ==
  ASSUME UNCHANGED <<access, owner>>, Exists' = Exists
  PROVE  UNCHANGED Policy!policyVars
BY DEF Policy!policyVars, Effective

\* What writing one record does to the policy's variables.
LEMMA RecordWritten ==
  ASSUME IInv, NEW u \in Users, NEW rec \in Record, access' = [access EXCEPT ![u] = rec]
  PROVE  /\ Home' = [Home EXCEPT ![u] = Effective(rec)]
         /\ Admins' = IF rec.admin THEN Admins \cup {u} ELSE Admins \ {u}
         /\ Home[u] = Effective(access[u]) /\ (u \in Admins <=> access[u].admin)
<1>1. access'[u] = rec /\ \A v \in Users \ {u} : access'[v] = access[v]
  BY DEF IInv, TypeOK
<1>2. Home' = [Home EXCEPT ![u] = Effective(rec)]
  <2>1. Home' = [v \in Users |-> Effective(access'[v])]
    BY DEF Home, Effective
  <2>2. \A v \in Users : Effective(access'[v]) = IF v = u THEN Effective(rec) ELSE Home[v]
    BY <1>1 DEF Home
  <2>3. [Home EXCEPT ![u] = Effective(rec)] = [v \in Users |-> IF v = u THEN Effective(rec) ELSE Home[v]]
    BY DEF Home
  <2> QED  BY <2>1, <2>2, <2>3
<1>3. Admins' = IF rec.admin THEN Admins \cup {u} ELSE Admins \ {u}
  BY <1>1 DEF Admins
<1> QED  BY <1>2, <1>3 DEF Home, Admins

\* Every step is one of the policy's or leaves its variables alone.
LEMMA PolicyStep == ASSUME IInv, IInv', [Next]_vars PROVE [Policy!PNext]_Policy!policyVars
<1>1. ASSUME NEW r \in Reqs, EnlistPlatformAdmin(r) PROVE Policy!PNext
  <2>1. PICK u \in Users : u = req[r].user
    BY <1>1 DEF EnlistPlatformAdmin, IInv, TypeOK
  <2> DEFINE rec == [NoRecord EXCEPT !.admin = TRUE]
  <2>2. /\ access[u] = NoRecord /\ access' = [access EXCEPT ![u] = rec]
        /\ owner' = owner /\ status' = status
    BY <1>1, <2>1 DEF EnlistPlatformAdmin, InsertRecord
  <2>3. rec \in Record /\ rec.admin = TRUE /\ Effective(rec) = None /\ ~NoRecord.admin
    BY DEF NoRecord, Record, Scope, Effective
  <2> HIDE DEF rec
  <2>4. u \notin Admins /\ Admins' = Admins \cup {u} /\ Home' = [Home EXCEPT ![u] = None]
    BY <2>2, <2>3, RecordWritten
  <2>5. Exists' = Exists
    BY <2>2 DEF Exists
  <2>6. Policy!BecomeAdmin(u)
    BY <2>2, <2>4, <2>5 DEF Policy!BecomeAdmin, Home, Admins
  <2> QED  BY <2>6, PolicyAllows
<1>2. ASSUME NEW r \in Reqs, SyncRecord(r) PROVE Policy!PNext \/ UNCHANGED Policy!policyVars
  <2> DEFINE u == req[r].user
             rec == req[r].seen
             next == Synced(rec, u \in adminList)
  <2>1. owner' = owner /\ status' = status /\ Exists' = Exists
    BY <1>2 DEF SyncRecord, Exists
  <2>2. CASE access' = access
    BY <2>1, <2>2, PolicyStutter
  <2>3. CASE access' # access
    <3>1. /\ req[r].pc = "commit" /\ rec # NoRecord /\ rec.admin # (u \in adminList) /\ ScopeCheck(next)
          /\ access' = [access EXCEPT ![u] = next]
      BY <1>2, <2>3 DEF SyncRecord, OutOfStep
    <3>2. req[r] \in Request /\ RequestInv(req[r], Recorded, Exists, Blocked, adminList, Members)
      BY OfRequest
    <3>3. u \in Users /\ rec \in Record /\ ScopeCheck(rec) /\ rec.active \in Exists \cup {None}
      BY <3>1, <3>2 DEF RequestInv, Request, Recorded
    <3>4. next.admin /\ Effective(next) = rec.active /\ next \in Record
      BY <3>1, <3>3, SyncedAdmin
    <3> HIDE DEF u, rec, next
    <3>5. PICK v \in Users : v = u
      BY <3>3
    <3>6. Admins' = Admins \cup {v} /\ Home' = [Home EXCEPT ![v] = rec.active]
      BY <3>1, <3>4, <3>5, RecordWritten
    <3>7. CASE v \notin Admins
      <4>1. Policy!BecomeAdmin(v)
        BY <2>1, <3>3, <3>6, <3>7 DEF Policy!BecomeAdmin, Home, Admins
      <4> QED  BY <4>1, PolicyAllows
    <3>8. CASE v \in Admins
      <4>1. Admins' = Admins
        BY <3>6, <3>8
      <4>2. Policy!Activate(v)
        BY <2>1, <3>3, <3>6, <3>8, <4>1 DEF Policy!Activate, Home, Admins
      <4> QED  BY <4>2, PolicyAllows
    <3> QED  BY <3>7, <3>8
  <2> QED  BY <2>2, <2>3
<1>3. ASSUME NEW r \in Reqs, CreateTenantForUser(r) PROVE Policy!PNext
  <2> DEFINE u == req[r].user
  <2>1. PICK t \in Tenants \ Exists :
          /\ InsertRecord(r, [tenant |-> t, admin |-> FALSE, active |-> t])
          /\ status' = [status EXCEPT ![t] = "active"]
          /\ owner'  = [owner EXCEPT ![t] = u]
    BY <1>3 DEF CreateTenantForUser
  <2> DEFINE rec == [tenant |-> t, admin |-> FALSE, active |-> t]
  <2>2. req[r].pc = "commit" /\ access[u] = NoRecord /\ access' = [access EXCEPT ![u] = rec]
    BY <2>1 DEF InsertRecord
  <2>3. req[r] \in Request /\ RequestInv(req[r], Recorded, Exists, Blocked, adminList, Members)
    BY OfRequest
  <2>4. u \in Users
    BY <2>2, <2>3 DEF RequestInv, Request
  <2>5. rec \in Record /\ ~rec.admin /\ Effective(rec) = t /\ Effective(NoRecord) = None /\ ~NoRecord.admin
    BY <2>1 DEF Record, Scope, Effective, NoRecord
  <2>6. \A x \in Tenants : owner[x] # u
    BY <2>2, <2>4, NoneAssumption DEF IInv, TypeOK, NoOrphanTenant
  <2>7. Exists' = Exists \cup {t}
    <3>1. status'[t] = "active" /\ \A x \in Tenants \ {t} : status'[x] = status[x]
      BY <2>1 DEF IInv, TypeOK
    <3> QED  BY <2>1, <3>1 DEF Exists
  <2> HIDE DEF rec, u
  <2>8. u \notin Admins /\ Home[u] = None /\ Home' = [Home EXCEPT ![u] = t]
    BY <2>2, <2>4, <2>5, RecordWritten
  <2>9. Admins' = Admins \ {u}
    BY <2>2, <2>4, <2>5, RecordWritten
  <2>10. Policy!GetWorkspace(u)
    BY <2>1, <2>6, <2>7, <2>8, <2>9 DEF Policy!GetWorkspace, Home, Admins
  <2> QED  BY <2>4, <2>10, PolicyAllows
<1>4. ASSUME NEW r \in Reqs, ActivatePlatformAdminTenant(r)
      PROVE  Policy!PNext \/ UNCHANGED Policy!policyVars
  <2> DEFINE u == req[r].user
             want == req[r].want
             rec == [access[u] EXCEPT !.active = want]
  <2>1. owner' = owner /\ Exists' = Exists /\ req[r].pc = "activate"
    BY <1>4 DEF ActivatePlatformAdminTenant, Exists
  <2>2. CASE access' = access
    BY <2>1, <2>2, PolicyStutter
  <2>3. CASE access' # access
    <3>1. want \in Exists \cup {None} /\ access' = [access EXCEPT ![u] = rec]
      BY <1>4, <2>3 DEF ActivatePlatformAdminTenant
    <3>2. req[r] \in Request /\ RequestInv(req[r], Recorded, Exists, Blocked, adminList, Members)
      BY OfRequest
    <3>3. u \in Users /\ access[u] # NoRecord
      BY <2>1, <3>2 DEF RequestInv, Recorded
    <3>4. access[u] \in Record
      BY <3>3 DEF IInv, TypeOK
    <3>5. /\ rec \in Record /\ rec.admin = access[u].admin /\ rec.active = want
          /\ rec.tenant = access[u].tenant
      BY <3>2, <3>4 DEF Record, Request
    <3> HIDE DEF u, want, rec
    <3>6. CASE access[u].admin
      <4>3. Effective(rec) = want
        BY <3>5, <3>6 DEF Effective
      <4>1. Home' = [Home EXCEPT ![u] = want] /\ Admins' = Admins \cup {u} /\ u \in Admins
        BY <3>1, <3>3, <3>5, <3>6, <4>3, RecordWritten
      <4>2. Policy!Activate(u)
        BY <2>1, <3>1, <4>1 DEF Policy!Activate, Home, Admins
      <4> QED  BY <3>3, <4>2, PolicyAllows
    <3>7. CASE ~access[u].admin
      <4>3. Effective(rec) = Effective(access[u])
        BY <3>5, <3>7 DEF Effective
      <4>1. Home' = [Home EXCEPT ![u] = Home[u]] /\ Admins' = Admins \ {u} /\ u \notin Admins
        BY <3>1, <3>3, <3>5, <3>7, <4>3, RecordWritten
      <4>2. Home' = Home /\ Admins' = Admins
        BY <4>1 DEF Home
      <4> QED  BY <2>1, <4>1, <4>2 DEF Policy!policyVars, Home, Admins
    <3> QED  BY <3>6, <3>7
  <2> QED  BY <2>2, <2>3
<1>5. ASSUME NEW r \in Reqs, AssignWritesAccess(r) PROVE Policy!PNext \/ UNCHANGED Policy!policyVars
  <2> DEFINE who == req[r].who
             want == req[r].want
             rec == [tenant |-> want, admin |-> FALSE, active |-> want]
  <2>1. owner' = owner /\ Exists' = Exists /\ req[r].pc = "writeAccess"
    BY <1>5 DEF AssignWritesAccess, Exists
  <2>2. CASE access' = access
    BY <2>1, <2>2, PolicyStutter
  <2>3. CASE access' # access
    <3>1. access' = [access EXCEPT ![who] = rec]
      BY <1>5, <2>3 DEF AssignWritesAccess
    <3>2. req[r] \in Request /\ RequestInv(req[r], Recorded, Exists, Blocked, adminList, Members)
      BY OfRequest
    <3>3. who \in Users /\ want \in Exists
      BY <2>1, <3>2 DEF RequestInv
    <3>4. rec \in Record /\ ~rec.admin /\ Effective(rec) = want
      BY <3>3 DEF Record, Scope, Effective, Exists
    <3> HIDE DEF who, want, rec
    <3>5. PICK v \in Users : v = who
      BY <3>3
    <3>6. Home' = [Home EXCEPT ![v] = want] /\ Admins' = Admins \ {v}
      BY <3>1, <3>4, <3>5, RecordWritten
    <3>7. Policy!Assign(v)
      BY <2>1, <3>3, <3>6 DEF Policy!Assign, Home, Admins
    <3> QED  BY <3>7, PolicyAllows
  <2> QED  BY <2>2, <2>3
<1>6. ASSUME NEW t \in Tenants, ChangeStatus(t) PROVE UNCHANGED Policy!policyVars
  <2>1. Exists' = Exists /\ access' = access /\ owner' = owner
    BY <1>6 DEF ChangeStatus, Exists, IInv, TypeOK
  <2> QED  BY <2>1, PolicyStutter
<1>7. ASSUME UNCHANGED tables \/ UNCHANGED <<access, owner, status>>
      PROVE UNCHANGED Policy!policyVars
  <2>1. access' = access /\ owner' = owner /\ Exists' = Exists
    BY <1>7 DEF tables, Exists
  <2> QED  BY <2>1, PolicyStutter
<1>8. ASSUME NEW r \in Reqs, Arrive(r) \/ Handle(r)
      PROVE  Policy!PNext \/ UNCHANGED Policy!policyVars
  <2>1. CASE Arrive(r)
    BY <2>1, <1>7 DEF Arrive
  <2>2. CASE Resolve(r)
    BY <2>2, <1>1, <1>2, <1>3, <1>7 DEF Resolve, ResolveRead, ConflictOnInsert, RefuseUnassigned
  <2>3. CASE EnforceTenantLifecycleState(r)
    BY <2>3, <1>7 DEF EnforceTenantLifecycleState
  <2>4. CASE Route(r)
    BY <2>4, <1>4, <1>5, <1>7
       DEF Route, ListMemberships, CheckMembership, CheckTenantStatus, HandlerEnds,
           SelectActiveTenant, AssignReadsAccess, AssignReadsMembership, AssignWritesMembership
  <2> QED  BY <1>8, <2>1, <2>2, <2>3, <2>4 DEF Handle
<1>9. CASE Restart \/ Quiet \/ UNCHANGED vars
  BY <1>7, <1>9 DEF Restart, Quiet, vars, tables
<1>10. ASSUME NEW t \in Tenants, WriteMembers(t) PROVE UNCHANGED Policy!policyVars
  BY <1>7, <1>10 DEF WriteMembers
<1>11. ASSUME NEW t \in Tenants, NEW u \in Users, ChangeMember(t, u) PROVE UNCHANGED Policy!policyVars
  BY <1>7, <1>11 DEF ChangeMember
<1> QED  BY <1>6, <1>8, <1>9, <1>10, <1>11 DEF Next

\* The statements of all requests together implement AccessPolicy, in which
\* every change of a user's tenant is one step.
THEOREM Refinement == Spec => ImplementsPolicy
<1>1. Init => Policy!PInit
  BY PolicyInit
<1>2. IInv /\ IInv' /\ [Next]_vars => [Policy!PNext]_Policy!policyVars
  BY PolicyStep
<1> QED  BY <1>1, <1>2, Invariant, PTL DEF Spec, ImplementsPolicy, Policy!PSpec
=============================================================================
