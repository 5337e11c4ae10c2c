---------------------- MODULE TenantManagement_proofs ----------------------
(* Proofs about TenantManagement, for any users, rows, tokens and requests. *)
EXTENDS TenantManagement, TLAPS, FiniteSetTheorems

\* What normalizeRole returns is a role the CHECK constraint admits.
LEMMA NormalizeRoleType == \A asked : NormalizeRole(asked) \in TenantRoles
BY DEF NormalizeRole, TenantRoles

\* The statement a method starts with is one of the phases.
LEMMA FirstPhaseType == \A op \in AllOps \ {"acceptInvitation"} : FirstPhase(op) \in Phase
BY DEF FirstPhase, AllOps, LifecycleOps, Phase

\* Which statement that is.
LEMMA FirstPhaseValue ==
  /\ FirstPhase("invite") = "write"
  /\ FirstPhase("updateMemberRole") = "readMember"
  /\ FirstPhase("removeMember") = "readMember"
  /\ FirstPhase("transferOwnership") = "readActor"
  /\ \A op \in LifecycleOps : FirstPhase(op) = "readTenant"
<1>1. FirstPhase("invite") = "write"
  BY Zenon DEF FirstPhase, LifecycleOps
<1>2. FirstPhase("updateMemberRole") = "readMember"
  BY Zenon DEF FirstPhase, LifecycleOps
<1>3. FirstPhase("removeMember") = "readMember"
  BY Zenon DEF FirstPhase, LifecycleOps
<1>4. FirstPhase("transferOwnership") = "readActor"
  BY Zenon DEF FirstPhase, LifecycleOps
<1>5. \A op \in LifecycleOps : FirstPhase(op) = "readTenant"
  BY Zenon DEF FirstPhase, LifecycleOps
<1> QED BY <1>1, <1>2, <1>3, <1>4, <1>5

LEMMA NewStatusType == \A op \in LifecycleOps : NewStatus(op) \in TenantStatus
BY DEF NewStatus, LifecycleOps, TenantStatus

\* Only one operation writes 'pending_deletion'.
LEMMA NewStatusValue ==
  \A op \in LifecycleOps : op # "requestTenantDeletion" => NewStatus(op) # "pending_deletion"
BY Zenon DEF NewStatus, LifecycleOps

\* The status each operation writes.
LEMMA NewStatusOf ==
  /\ NewStatus("deactivateTenant") = "inactive"
  /\ NewStatus("suspendTenant") = "suspended"
  /\ NewStatus("reactivateTenant") = "active"
  /\ NewStatus("requestTenantDeletion") = "pending_deletion"
<1>1. NewStatus("deactivateTenant") = "inactive"
  BY Zenon DEF NewStatus
<1>2. NewStatus("suspendTenant") = "suspended"
  BY Zenon DEF NewStatus
<1>3. NewStatus("reactivateTenant") = "active"
  BY Zenon DEF NewStatus
<1>4. NewStatus("requestTenantDeletion") = "pending_deletion"
  BY Zenon DEF NewStatus
<1> QED BY <1>1, <1>2, <1>3, <1>4

LEMMA IdleType == Idle \in Request
BY DEF Idle, Request, Phase, TenantRoles

LEMMA InitType == Init => TypeOK
<1> SUFFICES ASSUME Init PROVE TypeOK
  OBVIOUS
<1>1. PICK seat \in [Seated -> MemberIds] :
        /\ rows = [m \in MemberIds |->
                    IF \E u \in Seated : seat[u] = m
                    THEN LET u == CHOOSE v \in Seated : seat[v] = m IN
                           [state |-> "live", email |-> u, role |-> Seats[u],
                            status |-> "active"]
                    ELSE FreeRow]
        /\ ownersEver = {seat[u] : u \in {v \in Seated : Seats[v] = "owner"}}
  BY DEF Init
<1>2. rows \in [MemberIds -> Row]
  <2> SUFFICES ASSUME NEW m \in MemberIds PROVE rows[m] \in Row
    BY <1>1
  <2>1. CASE \E u \in Seated : seat[u] = m
    <3>1. PICK u \in Seated : u = CHOOSE v \in Seated : seat[v] = m
      BY <2>1
    <3>2. rows[m] = [state |-> "live", email |-> u, role |-> Seats[u], status |-> "active"]
      BY <1>1, <2>1, <3>1
    <3> QED BY <3>2, SeatsAssumption DEF Row
  <2>2. CASE ~ \E u \in Seated : seat[u] = m
    BY <1>1, <2>2 DEF Row, FreeRow, TenantRoles
  <2> QED BY <2>1, <2>2
<1>3. ownersEver \subseteq MemberIds
  BY <1>1
<1>4. invites \in [InviteIds -> Invitation]
  BY DEF Init, FreeInvite, Invitation, TenantRoles
<1>5. req \in [Reqs -> Request]
  BY IdleType DEF Init
<1> QED BY <1>2, <1>3, <1>4, <1>5, FailAssumption DEF Init, TypeOK, TenantStatus

-----------------------------------------------------------------------------

\* A request that goes on, or ends, is still a request.
LEMMA GotoType ==
  ASSUME TypeOK, NEW r \in Reqs, NEW phase \in Phase, Goto(r, phase)
  PROVE  req' \in [Reqs -> Request]
BY DEF TypeOK, Goto, Request

LEMMA FinishType ==
  ASSUME TypeOK, NEW r \in Reqs, Finish(r)
  PROVE  req' \in [Reqs -> Request]
BY IdleType DEF TypeOK, Finish

LEMMA ReadOnlyType ==
  ASSUME TypeOK, ReadOnly, req' \in [Reqs -> Request]
  PROVE  TypeOK'
BY DEF TypeOK, ReadOnly, tenantVars, historyVars

-----------------------------------------------------------------------------
(* What no step undoes: rows keep their address and stay used, history     *)
(* only grows.  It is all that the other requests' facts depend on.        *)

Grows == /\ ownersEver \subseteq ownersEver'
         /\ applied \subseteq applied'
         /\ legalHold' = legalHold
         /\ \A m \in MemberIds : rows[m].state # "free"
              => rows'[m].state # "free" /\ rows'[m].email = rows[m].email

OthersStay(r) == \A s \in Reqs \ {r} : req'[s] = req[s]

LEMMA OthersKeep ==
  ASSUME IInv, Grows, NEW s \in Reqs, req'[s] = req[s]
  PROVE  RequestInv(s)'
<1>1. TypeOK /\ RequestInv(s) /\ \A m \in ownersEver : rows[m].state # "free"
  BY DEF IInv
<1>2. req[s].target # None => req[s].target \in MemberIds
  BY <1>1 DEF TypeOK, Request
<1>3. ASSUME OwnerOnce(req[s].actor) PROVE OwnerOnce(req[s].actor)'
  <2>1. PICK m \in ownersEver : rows[m].email = req[s].actor
    BY <1>3 DEF OwnerOnce
  <2>2. m \in MemberIds /\ m \in ownersEver' /\ rows'[m].email = req'[s].actor
    BY <1>1, <2>1 DEF Grows, TypeOK
  <2> QED BY <2>2 DEF OwnerOnce
<1> QED BY <1>1, <1>2, <1>3 DEF RequestInv, Grows

\* To show that a step of request r keeps the invariant it is enough to look
\* at the tables and at r.
LEMMA StepInv ==
  ASSUME IInv, Grows, NEW r \in Reqs, OthersStay(r), RequestInv(r)', TypeOK',
         AcceptedImpliesApplied', OwnersAreLegitimate',
         \A m \in ownersEver' : rows'[m].state # "free"
  PROVE  IInv'
<1>1. \A s \in Reqs \ {r} : RequestInv(s)'
  BY OthersKeep DEF OthersStay
<1> QED BY <1>1 DEF IInv

LEMMA ReadOnlyGrows == ASSUME ReadOnly PROVE Grows
BY DEF ReadOnly, Grows, historyVars, tenantVars

LEMMA ReadOnlyStep ==
  ASSUME IInv, NEW r \in Reqs, ReadOnly, OthersStay(r), RequestInv(r)',
         req' \in [Reqs -> Request]
  PROVE  IInv'
<1>1. TypeOK'
  BY ReadOnlyType DEF IInv
<1>2. AcceptedImpliesApplied' /\ OwnersAreLegitimate'
  BY DEF IInv, ReadOnly, tenantVars, historyVars,
         AcceptedImpliesApplied, OwnersAreLegitimate, OwnerRows, Live
<1>3. \A m \in ownersEver' : rows'[m].state # "free"
  BY DEF IInv, ReadOnly, historyVars
<1> QED BY <1>1, <1>2, <1>3, ReadOnlyGrows, StepInv

\* An idle request relies on nothing.
LEMMA FinishInv ==
  ASSUME TypeOK, NEW r \in Reqs, Finish(r)
  PROVE  OthersStay(r) /\ RequestInv(r)' /\ req' \in [Reqs -> Request]
<1>1. req'[r] = Idle /\ OthersStay(r)
  BY DEF TypeOK, Finish, OthersStay
<1>2. RequestInv(r)'
  BY <1>1 DEF RequestInv, PhaseInv, Idle, Authorising, LifecycleOps
<1> QED BY <1>1, <1>2, FinishType

LEMMA GotoInv ==
  ASSUME TypeOK, NEW r \in Reqs, NEW phase \in Phase, Goto(r, phase)
  PROVE  /\ OthersStay(r) /\ req' \in [Reqs -> Request]
         /\ req'[r] = [req[r] EXCEPT !.pc = phase]
BY GotoType DEF TypeOK, Goto, OthersStay

LEMMA FinishReadOnly ==
  ASSUME IInv, NEW r \in Reqs, Finish(r), ReadOnly
  PROVE  IInv'
BY FinishInv, ReadOnlyStep DEF IInv

-----------------------------------------------------------------------------
(* The steps, one lemma for each group.                                    *)

LEMMA InitInv == Init => IInv
<1> SUFFICES ASSUME Init PROVE IInv
  OBVIOUS
<1>1. TypeOK
  BY InitType
<1>2. AcceptedImpliesApplied
  BY DEF Init, AcceptedImpliesApplied, FreeInvite
<1>3. PICK seat \in [Seated -> MemberIds] :
        /\ \A u, v \in Seated : seat[u] = seat[v] => u = v
        /\ rows = [m \in MemberIds |->
                    IF \E u \in Seated : seat[u] = m
                    THEN LET u == CHOOSE v \in Seated : seat[v] = m IN
                           [state |-> "live", email |-> u, role |-> Seats[u],
                            status |-> "active"]
                    ELSE FreeRow]
        /\ ownersEver = {seat[u] : u \in {v \in Seated : Seats[v] = "owner"}}
  BY DEF Init
<1>4. ASSUME NEW u \in Seated
      PROVE  rows[seat[u]] = [state |-> "live", email |-> u, role |-> Seats[u],
                              status |-> "active"]
  <2>1. u = CHOOSE v \in Seated : seat[v] = seat[u]
    BY <1>3
  <2> QED BY <1>3, <2>1
<1>5. ASSUME NEW m \in OwnerRows PROVE m \in ownersEver
  <2>1. \E u \in Seated : seat[u] = m
    BY <1>3, <1>5 DEF OwnerRows, Live, FreeRow
  <2>2. PICK u \in Seated : seat[u] = m
    BY <2>1
  <2> QED BY <1>3, <1>4, <1>5, <2>2 DEF OwnerRows
<1>6. \A m \in ownersEver : rows[m].state # "free"
  BY <1>3, <1>4
<1>7. ASSUME NEW r \in Reqs PROVE RequestInv(r)
  <2>1. req[r] = Idle
    BY DEF Init
  <2> QED BY <2>1 DEF RequestInv, PhaseInv, Idle, Authorising, LifecycleOps
<1> QED BY <1>1, <1>2, <1>5, <1>6, <1>7 DEF IInv, OwnersAreLegitimate

LEMMA BeginInv ==
  ASSUME IInv, NEW r \in Reqs, NEW new \in Request, Begin(r, new),
         PhaseInv(new.pc, new.op), new.pc \in {"authMember", "readInvitation"},
         new.target # None => rows[new.target].state # "free",
         new.op \in {"updateMemberRole", "removeMember", "transferOwnership"} => new.target # None,
         new.op = "acceptInvitation" => new.inv # None,
         new.held => legalHold
  PROVE  IInv'
<1>1. ReadOnly /\ OthersStay(r) /\ req'[r] = new
  BY DEF IInv, TypeOK, Begin, ReadOnly, OthersStay
<1>2. req' \in [Reqs -> Request]
  BY DEF IInv, TypeOK, Begin
<1>3. RequestInv(r)'
  BY <1>1 DEF RequestInv, ReadOnly, tenantVars
<1> QED BY <1>1, <1>2, <1>3, ReadOnlyStep

LEMMA ArriveInv ==
  ASSUME IInv, NEW r \in Reqs, Arrive(r)
  PROVE  IInv'
<1>1. CASE BeginInvite(r)
  <2>1. PICK u, e \in Users, asked \in AskedRoles, i \in InviteIds :
          Begin(r, [Idle EXCEPT !.pc = "authMember", !.op = "invite", !.actor = u, !.inv = i,
                                !.email = e, !.role = NormalizeRole(asked)])
    BY <1>1 DEF BeginInvite
  <2> DEFINE new == [Idle EXCEPT !.pc = "authMember", !.op = "invite", !.actor = u, !.inv = i,
                                 !.email = e, !.role = NormalizeRole(asked)]
  <2>2. NormalizeRole(asked) \in TenantRoles
    BY NormalizeRoleType
  <2>3. new \in Request
    BY <2>2 DEF Idle, Request, Phase, AllOps, TenantRoles
  <2>4. PhaseInv(new.pc, new.op)
    BY DEF Idle, PhaseInv, Authorising
  <2>5. new.pc = "authMember" /\ new.op = "invite" /\ new.target = None /\ ~new.held
    BY DEF Idle
  <2> HIDE DEF new
  <2> QED BY <2>1, <2>3, <2>4, <2>5, BeginInv DEF new
<1>2. CASE BeginUpdateRole(r)
  <2>1. PICK u \in Users, asked \in AskedRoles, m \in MemberIds :
          /\ rows[m].state # "free"
          /\ Begin(r, [Idle EXCEPT !.pc = "authMember", !.op = "updateMemberRole", !.actor = u,
                                   !.target = m, !.role = NormalizeRole(asked)])
    BY <1>2 DEF BeginUpdateRole
  <2> DEFINE new == [Idle EXCEPT !.pc = "authMember", !.op = "updateMemberRole", !.actor = u,
                                 !.target = m, !.role = NormalizeRole(asked)]
  <2>2. NormalizeRole(asked) \in TenantRoles
    BY NormalizeRoleType
  <2>3. new \in Request
    BY <2>2 DEF Idle, Request, Phase, AllOps, TenantRoles
  <2>4. PhaseInv(new.pc, new.op)
    BY DEF Idle, PhaseInv, Authorising
  <2>5. new.pc = "authMember" /\ new.op = "updateMemberRole" /\ new.target = m /\ m # None /\ ~new.held
    BY NoneAssumption DEF Idle
  <2>6. Begin(r, new) /\ rows[new.target].state # "free"
    BY <2>1, <2>5
  <2> HIDE DEF new
  <2> QED BY <2>3, <2>4, <2>5, <2>6, BeginInv
<1>3. CASE BeginOnMember(r)
  <2>1. PICK u \in Users, m \in MemberIds, op \in {"removeMember", "transferOwnership"} :
          /\ rows[m].state # "free"
          /\ Begin(r, [Idle EXCEPT !.pc = "authMember", !.op = op, !.actor = u, !.target = m])
    BY <1>3 DEF BeginOnMember
  <2> DEFINE new == [Idle EXCEPT !.pc = "authMember", !.op = op, !.actor = u, !.target = m]
  <2>3. new \in Request
    BY DEF Idle, Request, Phase, AllOps, TenantRoles
  <2>4. PhaseInv(new.pc, new.op)
    BY DEF Idle, PhaseInv, Authorising
  <2>5. new.pc = "authMember" /\ new.op = op /\ new.target = m /\ m # None /\ ~new.held
    BY NoneAssumption DEF Idle
  <2>6. Begin(r, new) /\ rows[new.target].state # "free" /\ new.op # "acceptInvitation"
    BY <2>1, <2>5
  <2> HIDE DEF new
  <2> QED BY <2>3, <2>4, <2>5, <2>6, BeginInv
<1>4. CASE BeginLifecycle(r)
  <2>1. PICK u \in Users, op \in LifecycleOps :
          Begin(r, [Idle EXCEPT !.pc = "authMember", !.op = op, !.actor = u,
                                !.held = legalHold /\ op = "requestTenantDeletion"])
    BY <1>4 DEF BeginLifecycle
  <2> DEFINE new == [Idle EXCEPT !.pc = "authMember", !.op = op, !.actor = u,
                                 !.held = legalHold /\ op = "requestTenantDeletion"]
  <2>3. new \in Request
    BY DEF Idle, Request, Phase, AllOps, LifecycleOps, TenantRoles
  <2>4. PhaseInv(new.pc, new.op)
    BY DEF Idle, PhaseInv, Authorising, LifecycleOps
  <2>5. new.pc = "authMember" /\ new.op \in LifecycleOps /\ new.target = None
        /\ (new.held => legalHold)
    BY DEF Idle
  <2>6. Begin(r, new)
    BY <2>1
  <2> HIDE DEF new
  <2> QED BY <2>3, <2>4, <2>5, <2>6, BeginInv DEF LifecycleOps
<1>5. CASE BeginAccept(r)
  <2>1. PICK i \in InviteIds :
          Begin(r, [Idle EXCEPT !.pc = "readInvitation", !.op = "acceptInvitation", !.inv = i])
    BY <1>5 DEF BeginAccept
  <2> DEFINE new == [Idle EXCEPT !.pc = "readInvitation", !.op = "acceptInvitation", !.inv = i]
  <2>3. new \in Request
    BY DEF Idle, Request, Phase, AllOps, TenantRoles
  <2>4. PhaseInv(new.pc, new.op)
    BY DEF Idle, PhaseInv, Authorising
  <2>5. new.pc = "readInvitation" /\ new.op = "acceptInvitation" /\ new.target = None /\ new.inv # None /\ ~new.held
    BY NoneAssumption DEF Idle
  <2> HIDE DEF new
  <2> QED BY <2>1, <2>3, <2>4, <2>5, BeginInv DEF new
<1> QED BY <1>1, <1>2, <1>3, <1>4, <1>5 DEF Arrive

LEMMA AuthoriseInv ==
  ASSUME IInv, NEW r \in Reqs, AuthoriseMember(r) \/ AuthoriseStatus(r)
  PROVE  IInv'
<1>1. TypeOK /\ RequestInv(r) /\ OwnersAreLegitimate
  BY DEF IInv
<1>2. CASE AuthoriseMember(r)
  <2>1. ReadOnly
    BY <1>2 DEF AuthoriseMember
  <2>2. CASE Finish(r)
    BY <2>1, <2>2, FinishReadOnly
  <2>3. ASSUME NEW m \in RowsOf(req[r].actor),
               req' = [req EXCEPT ![r].pc = "authStatus", ![r].seen = rows[m].role]
        PROVE  IInv'
    <3>1. m \in MemberIds /\ rows[m].state = "live" /\ rows[m].email = req[r].actor
      BY DEF RowsOf, Live
    <3>2. rows[m].role \in TenantRoles /\ req[r] \in Request
      BY <1>1, <3>1 DEF TypeOK, Row
    <3>3. req' \in [Reqs -> Request] /\ OthersStay(r)
      BY <1>1, <2>3, <3>2 DEF TypeOK, OthersStay, Request, Phase
    <3>4. req'[r] = [req[r] EXCEPT !.pc = "authStatus", !.seen = rows[m].role]
      BY <1>1, <2>3 DEF TypeOK
    <3>5. rows[m].role = "owner" => OwnerOnce(req[r].actor)
      BY <1>1, <3>1 DEF OwnersAreLegitimate, OwnerRows, Live, OwnerOnce
    <3>6. req[r].pc = "authMember" /\ UNCHANGED <<rows, ownersEver, legalHold, applied>>
      BY <1>2, <2>1 DEF AuthoriseMember, ReadOnly, tenantVars, historyVars
    <3>7. RequestInv(r)'
      BY <1>1, <3>2, <3>4, <3>5, <3>6 DEF RequestInv, PhaseInv, Authorising, OwnerOnce, Request
    <3> QED BY <2>1, <3>3, <3>7, ReadOnlyStep
  <2> QED BY <1>2, <2>2, <2>3 DEF AuthoriseMember
<1>3. CASE AuthoriseStatus(r)
  <2>1. ReadOnly /\ req[r].pc = "authStatus"
    BY <1>3 DEF AuthoriseStatus
  <2>2. CASE Finish(r)
    BY <2>1, <2>2, FinishReadOnly
  <2>3. CASE /\ Authorised(r)
             /\ req' = [req EXCEPT ![r].pc = FirstPhase(req[r].op), ![r].seen = "member",
                                   ![r].actor = IF UsesActor(req[r].op) THEN @ ELSE None]
    <3> DEFINE q == req[r]
               a == IF UsesActor(q.op) THEN q.actor ELSE None
    <3>1. q \in Request /\ q.op \in AllOps \ {"acceptInvitation"}
      BY <1>1, <2>1 DEF TypeOK, RequestInv, PhaseInv, Authorising, Request
    <3>2. FirstPhase(q.op) \in Phase
      BY <3>1, FirstPhaseType
    <3>3. req'[r] = [q EXCEPT !.pc = FirstPhase(q.op), !.seen = "member", !.actor = a]
      BY <1>1, <2>3 DEF TypeOK
    <3>4. a \in Users \cup {None}
      BY <3>1 DEF Request
    <3>5. req' \in [Reqs -> Request] /\ OthersStay(r)
      BY <1>1, <2>3, <3>1, <3>2, <3>4 DEF TypeOK, OthersStay, Request, TenantRoles
    <3>6. UNCHANGED <<rows, ownersEver, legalHold, applied>>
      BY <2>1 DEF ReadOnly, tenantVars, historyVars
    <3>7. CASE q.op = "invite"
      <4>1. FirstPhase(q.op) = "write"
        BY <3>7, FirstPhaseValue
      <4>2. RequestInv(r)'
        BY <1>1, <3>1, <3>3, <3>6, <3>7, <4>1
        DEF RequestInv, PhaseInv, Authorising, LifecycleOps, Request
      <4> QED BY <2>1, <3>5, <4>2, ReadOnlyStep
    <3>8. CASE q.op \in {"updateMemberRole", "removeMember"}
      <4>1. FirstPhase(q.op) = "readMember"
        BY <3>8, FirstPhaseValue
      <4>2. RequestInv(r)'
        BY <1>1, <3>1, <3>3, <3>6, <3>8, <4>1
        DEF RequestInv, PhaseInv, Authorising, LifecycleOps, Request
      <4> QED BY <2>1, <3>5, <4>2, ReadOnlyStep
    <3>9. CASE q.op = "transferOwnership"
      <4>1. FirstPhase(q.op) = "readActor"
        BY <3>9, FirstPhaseValue
      <4>2. RequestInv(r)'
        BY <1>1, <3>1, <3>3, <3>6, <3>9, <4>1
        DEF RequestInv, PhaseInv, Authorising, LifecycleOps, Request
      <4> QED BY <2>1, <3>5, <4>2, ReadOnlyStep
    <3>10. CASE q.op \in LifecycleOps
      <4>1. FirstPhase(q.op) = "readTenant"
        BY <3>10, FirstPhaseValue
      <4>2. q.seen = "owner" /\ a = q.actor
        BY <2>3, <3>10 DEF Authorised, ActionPermissions, LifecycleOps, UsesActor
      <4>3. OwnerOnce(q.actor)
        BY <1>1, <2>1, <3>10, <4>2 DEF RequestInv
      <4>4. RequestInv(r)'
        BY <1>1, <3>1, <3>3, <3>6, <3>10, <4>1, <4>2, <4>3
        DEF RequestInv, PhaseInv, Authorising, LifecycleOps, Request, OwnerOnce
      <4> QED BY <2>1, <3>5, <4>4, ReadOnlyStep
    <3> QED BY <3>1, <3>7, <3>8, <3>9, <3>10 DEF AllOps, LifecycleOps
  <2> QED BY <1>3, <2>2, <2>3 DEF AuthoriseStatus
<1> QED BY <1>2, <1>3

\* A request that goes on to another phase: what is left to show is what the
\* new phase relies on.
LEMMA GotoRequest ==
  ASSUME IInv, Grows, NEW r \in Reqs, NEW phase \in Phase \ {"authStatus"}, Goto(r, phase),
         PhaseInv(phase, req[r].op),
         req[r].op = "updateMemberRole" /\ phase \in {"countOwners", "write", "audit"}
           /\ req[r].role = "owner" => req[r].target \in ownersEver',
         req[r].op = "requestTenantDeletion" /\ phase = "write" => ~legalHold,
         phase = "markAccepted" => req[r].inv \in applied',
         req[r].op \in LifecycleOps /\ phase \in {"readTenant", "write"}
           => req[r].pc \in {"readTenant", "write"}
  PROVE  RequestInv(r)'
<1>1. TypeOK /\ RequestInv(r) /\ \A m \in ownersEver : rows[m].state # "free"
  BY DEF IInv
<1>2. req'[r] = [req[r] EXCEPT !.pc = phase] /\ req[r] \in Request
  BY <1>1, GotoInv DEF TypeOK
<1>3. ASSUME OwnerOnce(req[r].actor) PROVE OwnerOnce(req[r].actor)'
  <2>1. PICK m \in ownersEver : rows[m].email = req[r].actor
    BY <1>3 DEF OwnerOnce
  <2>2. m \in ownersEver' /\ rows'[m].email = req'[r].actor
    BY <1>1, <1>2, <2>1 DEF Grows, TypeOK, Request
  <2> QED BY <2>2 DEF OwnerOnce
<1>4. req[r].target # None => rows'[req[r].target].state # "free"
  BY <1>1, <1>2 DEF RequestInv, Request, Grows
<1>5. req'[r].pc = phase /\ req'[r].op = req[r].op /\ req'[r].role = req[r].role
      /\ req'[r].target = req[r].target /\ req'[r].inv = req[r].inv
      /\ req'[r].actor = req[r].actor /\ req'[r].held = req[r].held
  BY <1>2 DEF Request
<1>6. req[r].op \in LifecycleOps /\ phase \in {"readTenant", "write"} => OwnerOnce(req[r].actor)'
  BY <1>1, <1>3 DEF RequestInv
<1>7. legalHold' = legalHold
  BY DEF Grows
<1> QED BY <1>1, <1>4, <1>5, <1>6, <1>7 DEF RequestInv, PhaseInv

LEMMA GotoReadOnly ==
  ASSUME IInv, NEW r \in Reqs, NEW phase \in Phase, Goto(r, phase), ReadOnly, RequestInv(r)'
  PROVE  IInv'
BY GotoInv, ReadOnlyStep DEF IInv

LEMMA InviteInv ==
  ASSUME IInv, NEW r \in Reqs, InsertInvitation(r)
  PROVE  IInv'
<1>1. TypeOK /\ RequestInv(r)
  BY DEF IInv
<1>2. CASE Finish(r) /\ UNCHANGED invites
  BY <1>2, FinishReadOnly DEF InsertInvitation, ReadOnly
<1>3. CASE /\ invites' = [invites EXCEPT ![req[r].inv] =
                            [state |-> "pending", email |-> req[r].email,
                             role |-> req[r].role, expired |-> FALSE]]
           /\ Goto(r, "audit")
  <2>1. req[r].pc = "write" /\ req[r].op = "invite" /\ req[r] \in Request
        /\ UNCHANGED <<tenantVars, rows, historyVars>>
    BY <1>1 DEF InsertInvitation, TypeOK
  <2>2. Grows
    BY <2>1 DEF Grows, tenantVars, historyVars
  <2>3. OthersStay(r) /\ req' \in [Reqs -> Request]
    BY <1>1, <1>3, GotoInv DEF Phase
  <2>4. RequestInv(r)'
    BY <1>3, <2>1, <2>2, GotoRequest DEF Phase, PhaseInv, Authorising, LifecycleOps
  <2>5. invites' \in [InviteIds -> Invitation]
    BY <1>1, <1>3, <2>1 DEF TypeOK, Invitation, Request
  <2>6. TypeOK'
    BY <1>1, <2>1, <2>3, <2>5 DEF TypeOK, tenantVars, historyVars
  <2>7. \A i \in InviteIds : invites'[i].state = "accepted" => invites[i].state = "accepted"
    BY <1>1, <1>3 DEF TypeOK
  <2>8. AcceptedImpliesApplied' /\ OwnersAreLegitimate'
    BY <2>1, <2>7 DEF IInv, tenantVars, historyVars,
         AcceptedImpliesApplied, OwnersAreLegitimate, OwnerRows, Live
  <2>9. \A m \in ownersEver' : rows'[m].state # "free"
    BY <2>1 DEF IInv, historyVars
  <2> QED BY <2>2, <2>3, <2>4, <2>6, <2>8, <2>9, StepInv
<1> QED BY <1>2, <1>3 DEF InsertInvitation

LEMMA ExpireInv ==
  ASSUME IInv, NEW i \in InviteIds, ExpireInvitation(i)
  PROVE  IInv'
<1>1. TypeOK /\ UNCHANGED <<tenantVars, rows, req, historyVars>>
  BY DEF IInv, ExpireInvitation
<1>2. invites' \in [InviteIds -> Invitation]
      /\ \A j \in InviteIds : invites'[j].state = invites[j].state
  BY <1>1 DEF TypeOK, ExpireInvitation, Invitation
<1>3. TypeOK'
  BY <1>1, <1>2 DEF TypeOK, tenantVars, historyVars
<1>4. AcceptedImpliesApplied' /\ OwnersAreLegitimate'
      /\ \A m \in ownersEver' : rows'[m].state # "free"
  BY <1>1, <1>2 DEF IInv, tenantVars, historyVars,
       AcceptedImpliesApplied, OwnersAreLegitimate, OwnerRows, Live
<1>5. Grows
  BY <1>1 DEF Grows, tenantVars, historyVars
<1>6. \A s \in Reqs : RequestInv(s)'
  BY <1>1, <1>5, OthersKeep
<1> QED BY <1>3, <1>4, <1>6 DEF IInv

\* An operator's change of the hold touches nothing else a request carries.
LEMMA HoldFields ==
  ASSUME TypeOK, NEW r \in Reqs, ChangeHold(r)
  PROVE  /\ req' \in [Reqs -> Request] /\ legalHold' \in BOOLEAN
         /\ UNCHANGED <<status, scheduledPurge, rows, invites, historyVars>>
         /\ \A s \in Reqs : /\ req'[s].pc = req[s].pc /\ req'[s].op = req[s].op
                            /\ req'[s].actor = req[s].actor /\ req'[s].role = req[s].role
                            /\ req'[s].email = req[s].email /\ req'[s].inv = req[s].inv
                            /\ req'[s].target = req[s].target /\ req'[s].source = req[s].source
                            /\ req'[s].seen = req[s].seen
                            /\ (req'[s].held => req[s].held /\ legalHold')
<1>1. legalHold' \in BOOLEAN
  BY FailAssumption DEF ChangeHold
<1>2. ASSUME NEW s \in Reqs
      PROVE  req'[s] \in Request /\ req'[s] = [req[s] EXCEPT !.held = @ /\ legalHold']
  BY <1>1, <1>2 DEF TypeOK, ChangeHold, Request
<1>3. req' \in [Reqs -> Request]
  BY <1>2 DEF ChangeHold
<1>4. ASSUME NEW s \in Reqs PROVE req'[s].held => req[s].held /\ legalHold'
  BY <1>2 DEF TypeOK, Request
<1> QED BY <1>1, <1>2, <1>3, <1>4 DEF ChangeHold, TypeOK, Request

LEMMA HoldInv ==
  ASSUME IInv, NEW r \in Reqs, ChangeHold(r)
  PROVE  IInv'
<1>1. TypeOK /\ AcceptedImpliesApplied /\ OwnersAreLegitimate
      /\ \A m \in ownersEver : rows[m].state # "free"
  BY DEF IInv
<1>2. TypeOK'
  BY <1>1, HoldFields DEF TypeOK, historyVars
<1>3. AcceptedImpliesApplied' /\ OwnersAreLegitimate'
      /\ \A m \in ownersEver' : rows'[m].state # "free"
  BY <1>1, HoldFields DEF AcceptedImpliesApplied, OwnersAreLegitimate, OwnerRows, Live, historyVars
<1>4. ASSUME NEW s \in Reqs PROVE RequestInv(s)'
  <2>1. RequestInv(s)
    BY DEF IInv
  <2>2. OwnerOnce(req[s].actor) => OwnerOnce(req[s].actor)'
    BY <1>1, HoldFields DEF OwnerOnce, historyVars
  <2> QED BY <1>1, <2>1, <2>2, HoldFields DEF RequestInv, PhaseInv, historyVars
<1> QED BY <1>2, <1>3, <1>4 DEF IInv

LEMMA ReadTokenInv ==
  ASSUME IInv, NEW r \in Reqs, ReadInvitation(r) \/ ReadExistingMember(r)
  PROVE  IInv'
<1>1. TypeOK /\ RequestInv(r) /\ ReadOnly
  BY DEF IInv, ReadInvitation, ReadExistingMember
<1>2. UNCHANGED <<rows, ownersEver, legalHold, applied>>
  BY <1>1 DEF ReadOnly, tenantVars, historyVars
<1>3. CASE Finish(r)
  BY <1>1, <1>3, FinishReadOnly
<1>4. req[r] \in Request /\ req[r].pc \in {"readInvitation", "readExisting"}
      /\ req[r].op = "acceptInvitation" /\ req[r].inv \in InviteIds
  BY <1>1 DEF ReadInvitation, ReadExistingMember, TypeOK, RequestInv, PhaseInv, Request
<1>5. ASSUME NEW e \in Users \cup {None}, NEW role \in TenantRoles,
             req' = [req EXCEPT ![r].pc = "readExisting", ![r].email = e, ![r].role = role]
      PROVE  IInv'
  <2>1. req' \in [Reqs -> Request] /\ OthersStay(r)
    BY <1>1, <1>4, <1>5 DEF TypeOK, OthersStay, Request, Phase
  <2>2. req'[r] = [req[r] EXCEPT !.pc = "readExisting", !.email = e, !.role = role]
    BY <1>1, <1>5 DEF TypeOK
  <2>3. RequestInv(r)'
    BY <1>1, <1>2, <1>4, <2>2 DEF RequestInv, PhaseInv, Authorising, LifecycleOps, Request
  <2> QED BY <1>1, <2>1, <2>3, ReadOnlyStep
<1>6. ASSUME NEW m \in RowsOf(req[r].email),
             req' = [req EXCEPT ![r].pc = "write", ![r].target = m]
      PROVE  IInv'
  <2>1. m \in MemberIds /\ rows[m].state # "free"
    BY DEF RowsOf, Live
  <2>2. req' \in [Reqs -> Request] /\ OthersStay(r)
    BY <1>1, <1>4, <1>6, <2>1 DEF TypeOK, OthersStay, Request, Phase
  <2>3. req'[r] = [req[r] EXCEPT !.pc = "write", !.target = m]
    BY <1>1, <1>6 DEF TypeOK
  <2>4. RequestInv(r)'
    BY <1>1, <1>2, <1>4, <2>1, <2>3
    DEF RequestInv, PhaseInv, Authorising, LifecycleOps, Request
  <2> QED BY <1>1, <2>2, <2>4, ReadOnlyStep
<1>7. CASE Goto(r, "write")
  <2>1. RequestInv(r)'
    BY <1>1, <1>4, <1>7, ReadOnlyGrows, GotoRequest
    DEF Phase, PhaseInv, Authorising, LifecycleOps
  <2> QED BY <1>1, <1>7, <2>1, GotoReadOnly DEF Phase
<1>8. invites[req[r].inv].email \in Users \cup {None} /\ invites[req[r].inv].role \in TenantRoles
  BY <1>1, <1>4 DEF TypeOK, Invitation
<1>9. CASE ReadInvitation(r)
  BY <1>3, <1>5, <1>8, <1>9 DEF ReadInvitation
<1>10. CASE ReadExistingMember(r)
  BY <1>6, <1>7, <1>10 DEF ReadExistingMember
<1> QED BY <1>9, <1>10

\* Giving a live row a role and a status: it keeps its address and its state.
LEMMA SetRowFact ==
  ASSUME TypeOK, NEW m \in MemberIds, NEW role \in TenantRoles, NEW st \in {"active", "inactive"},
         SetRow(m, role, st)
  PROVE  /\ rows' \in [MemberIds -> Row]
         /\ \A n \in MemberIds : rows'[n].state = rows[n].state /\ rows'[n].email = rows[n].email
         /\ \A n \in MemberIds \ {m} : rows'[n] = rows[n]
         /\ rows'[m].role = IF rows[m].state = "live" THEN role ELSE rows[m].role
BY DEF TypeOK, SetRow, Row

LEMMA AcceptUpdateInv ==
  ASSUME IInv, NEW r \in Reqs, AcceptUpdate(r)
  PROVE  IInv'
<1> DEFINE m == req[r].target
           role == req[r].role
<1>1. TypeOK /\ RequestInv(r) /\ UNCHANGED <<tenantVars, invites>>
  BY DEF IInv, AcceptUpdate
<1>2. req[r] \in Request /\ m \in MemberIds /\ role \in TenantRoles
      /\ req[r].op = "acceptInvitation" /\ req[r].pc = "write" /\ req[r].inv \in InviteIds
  BY <1>1 DEF AcceptUpdate, TypeOK, Request, RequestInv
<1>3. /\ rows' \in [MemberIds -> Row]
      /\ \A n \in MemberIds : rows'[n].state = rows[n].state /\ rows'[n].email = rows[n].email
      /\ \A n \in MemberIds \ {m} : rows'[n] = rows[n]
      /\ rows'[m].role = IF rows[m].state = "live" THEN role ELSE rows[m].role
  BY <1>1, <1>2, SetRowFact DEF AcceptUpdate
<1>4. applied' = applied \cup {req[r].inv} /\ Goto(r, "markAccepted")
      /\ ownersEver' = IF role = "owner" THEN ownersEver \cup {m} ELSE ownersEver
  BY DEF AcceptUpdate, NoteOwner
<1> HIDE DEF m, role
<1>5. Grows
  BY <1>1, <1>3, <1>4 DEF Grows, tenantVars
<1>6. OthersStay(r) /\ req' \in [Reqs -> Request]
  BY <1>1, <1>4, GotoInv DEF Phase
<1>7. RequestInv(r)'
  BY <1>2, <1>4, <1>5, GotoRequest DEF Phase, PhaseInv, Authorising, LifecycleOps
<1>8. ownersEver' \subseteq MemberIds /\ applied' \subseteq InviteIds
  BY <1>1, <1>2, <1>4 DEF TypeOK
<1>9. TypeOK'
  BY <1>1, <1>3, <1>6, <1>8 DEF TypeOK, tenantVars
<1>10. AcceptedImpliesApplied'
  BY <1>1, <1>5 DEF IInv, tenantVars, AcceptedImpliesApplied, Grows
<1>11. OwnersAreLegitimate'
  BY <1>2, <1>3, <1>4 DEF IInv, OwnersAreLegitimate, OwnerRows, Live
<1>12. \A n \in ownersEver' : rows'[n].state # "free"
  <2>1. rows[m].state # "free"
    BY <1>1, <1>2, NoneAssumption DEF RequestInv, m
  <2> QED BY <1>1, <1>2, <1>3, <1>4, <2>1 DEF IInv, TypeOK
<1> QED BY <1>5, <1>6, <1>7, <1>9, <1>10, <1>11, <1>12, StepInv

LEMMA AcceptInsertInv ==
  ASSUME IInv, NEW r \in Reqs, AcceptInsert(r)
  PROVE  IInv'
<1>1. TypeOK /\ RequestInv(r) /\ UNCHANGED <<tenantVars, invites>>
  BY DEF IInv, AcceptInsert
<1>2. req[r] \in Request /\ req[r].role \in TenantRoles /\ req[r].email \in Users \cup {None}
      /\ req[r].op = "acceptInvitation" /\ req[r].pc = "write" /\ req[r].inv \in InviteIds
  BY <1>1 DEF AcceptInsert, TypeOK, Request, RequestInv
<1>3. CASE Finish(r) /\ UNCHANGED <<rows, historyVars>>
  BY <1>1, <1>3, FinishReadOnly DEF ReadOnly
<1>4. ASSUME NEW m \in MemberIds, rows[m].state = "free",
             rows' = [rows EXCEPT ![m] = [state |-> "live", email |-> req[r].email,
                                          role |-> req[r].role, status |-> "active"]],
             NoteOwner(m, req[r].role), applied' = applied \cup {req[r].inv},
             Goto(r, "markAccepted")
      PROVE  IInv'
  <2>1. rows' \in [MemberIds -> Row] /\ rows'[m].state = "live" /\ rows'[m].role = req[r].role
        /\ \A n \in MemberIds \ {m} : rows'[n] = rows[n]
    BY <1>1, <1>2, <1>4 DEF TypeOK, Row
  <2>2. ownersEver' = IF req[r].role = "owner" THEN ownersEver \cup {m} ELSE ownersEver
    BY <1>4 DEF NoteOwner
  <2>3. Grows
    BY <1>1, <1>4, <2>1, <2>2 DEF Grows, tenantVars
  <2>4. OthersStay(r) /\ req' \in [Reqs -> Request]
    BY <1>1, <1>4, GotoInv DEF Phase
  <2>5. RequestInv(r)'
    BY <1>2, <1>4, <2>3, GotoRequest DEF Phase, PhaseInv, Authorising, LifecycleOps
  <2>6. ownersEver' \subseteq MemberIds /\ applied' \subseteq InviteIds
    BY <1>1, <1>2, <1>4, <2>2 DEF TypeOK
  <2>7. TypeOK'
    BY <1>1, <2>1, <2>4, <2>6 DEF TypeOK, tenantVars
  <2>8. AcceptedImpliesApplied'
    BY <1>1, <2>3 DEF IInv, tenantVars, AcceptedImpliesApplied, Grows
  <2>9. OwnersAreLegitimate'
    BY <2>1, <2>2 DEF IInv, OwnersAreLegitimate, OwnerRows, Live
  <2>10. \A n \in ownersEver' : rows'[n].state # "free"
    BY <1>1, <2>1, <2>2 DEF IInv, TypeOK
  <2> QED BY <2>3, <2>4, <2>5, <2>7, <2>8, <2>9, <2>10, StepInv
<1> QED BY <1>3, <1>4 DEF AcceptInsert

LEMMA MarkAcceptedInv ==
  ASSUME IInv, NEW r \in Reqs, MarkAccepted(r)
  PROVE  IInv'
<1>1. TypeOK /\ RequestInv(r) /\ UNCHANGED <<tenantVars, rows, historyVars>>
      /\ Goto(r, "audit") /\ req[r].pc = "markAccepted"
  BY DEF IInv, MarkAccepted
<1>2. req[r].op = "acceptInvitation" /\ req[r].inv \in InviteIds /\ req[r].inv \in applied
  BY <1>1 DEF TypeOK, Request, RequestInv, PhaseInv
<1>3. invites' \in [InviteIds -> Invitation]
      /\ \A i \in InviteIds \ {req[r].inv} : invites'[i] = invites[i]
  BY <1>1 DEF TypeOK, MarkAccepted, Invitation
<1>4. Grows
  BY <1>1 DEF Grows, tenantVars, historyVars
<1>5. OthersStay(r) /\ req' \in [Reqs -> Request]
  BY <1>1, GotoInv DEF Phase
<1>6. RequestInv(r)'
  BY <1>1, <1>2, <1>4, GotoRequest DEF Phase, PhaseInv, Authorising, LifecycleOps
<1>7. TypeOK'
  BY <1>1, <1>3, <1>5 DEF TypeOK, tenantVars, historyVars
<1>8. AcceptedImpliesApplied'
  BY <1>1, <1>2, <1>3 DEF IInv, AcceptedImpliesApplied, historyVars
<1>9. OwnersAreLegitimate' /\ \A m \in ownersEver' : rows'[m].state # "free"
  BY <1>1 DEF IInv, tenantVars, historyVars, OwnersAreLegitimate,
       OwnerRows, Live
<1> QED BY <1>4, <1>5, <1>6, <1>7, <1>8, <1>9, StepInv

LEMMA ReadMemberInv ==
  ASSUME IInv, NEW r \in Reqs, ReadMember(r) \/ CountOwners(r)
  PROVE  IInv'
<1>1. TypeOK /\ RequestInv(r) /\ ReadOnly /\ OwnersAreLegitimate
  BY DEF IInv, ReadMember, CountOwners
<1>2. ownersEver' = ownersEver /\ Grows
  BY <1>1, ReadOnlyGrows DEF ReadOnly, historyVars
<1>3. req[r].op \in {"updateMemberRole", "removeMember"} /\ req[r].target \in MemberIds
  BY <1>1 DEF ReadMember, CountOwners, TypeOK, Request, RequestInv, PhaseInv
<1>4. CASE Finish(r)
  BY <1>1, <1>4, FinishReadOnly
<1>5. ASSUME NEW phase \in {"countOwners", "write"}, Goto(r, phase),
             req[r].op = "updateMemberRole" /\ req[r].role = "owner"
               => req[r].target \in ownersEver,
             PhaseInv(phase, req[r].op)
      PROVE  IInv'
  <2>1. phase \in Phase \ {"authStatus"}
    BY <1>5 DEF Phase
  <2>2. RequestInv(r)'
    BY <1>1, <1>2, <1>3, <1>5, <2>1, GotoRequest DEF LifecycleOps
  <2> QED BY <1>1, <1>5, <2>1, <2>2, GotoReadOnly
<1>6. \A phase \in {"countOwners", "write"} : PhaseInv(phase, req[r].op)
  BY <1>3 DEF PhaseInv, Authorising
<1>7. CASE ReadMember(r) /\ ~Finish(r)
  <2>1. PICK phase \in {"countOwners", "write"} : Goto(r, phase)
    BY <1>7 DEF ReadMember
  <2>2. rows[req[r].target].state = "live"
        /\ (req[r].op = "updateMemberRole" /\ req[r].role = "owner"
              => rows[req[r].target].role = "owner")
    BY <1>7 DEF ReadMember
  <2>3. req[r].op = "updateMemberRole" /\ req[r].role = "owner" => req[r].target \in ownersEver
    BY <1>1, <1>3, <2>2 DEF OwnersAreLegitimate, OwnerRows, Live
  <2> QED BY <1>5, <1>6, <2>1, <2>3
<1>8. CASE CountOwners(r) /\ ~Finish(r)
  BY <1>1, <1>5, <1>6, <1>8 DEF CountOwners, RequestInv
<1> QED BY <1>4, <1>7, <1>8

LEMMA WriteRoleInv ==
  ASSUME IInv, NEW r \in Reqs, WriteRole(r)
  PROVE  IInv'
<1> DEFINE m == req[r].target
           role == req[r].role
<1>1. TypeOK /\ RequestInv(r) /\ UNCHANGED <<tenantVars, invites, historyVars>>
      /\ Goto(r, "audit")
  BY DEF IInv, WriteRole
<1>2. req[r] \in Request /\ m \in MemberIds /\ role \in TenantRoles
      /\ req[r].op = "updateMemberRole" /\ req[r].pc = "write"
  BY <1>1 DEF WriteRole, TypeOK, Request, RequestInv
<1>3. rows[m].status \in {"active", "inactive"}
  BY <1>1, <1>2 DEF TypeOK, Row
<1>4. /\ rows' \in [MemberIds -> Row]
      /\ \A n \in MemberIds : rows'[n].state = rows[n].state /\ rows'[n].email = rows[n].email
      /\ \A n \in MemberIds \ {m} : rows'[n] = rows[n]
      /\ rows'[m].role = IF rows[m].state = "live" THEN role ELSE rows[m].role
  BY <1>1, <1>2, <1>3, SetRowFact DEF WriteRole
<1>5. role = "owner" => m \in ownersEver
  BY <1>1, <1>2 DEF RequestInv
<1>6. Grows
  BY <1>1, <1>4 DEF Grows, tenantVars, historyVars
<1>7. OthersStay(r) /\ req' \in [Reqs -> Request]
  BY <1>1, GotoInv DEF Phase
<1>8. RequestInv(r)'
  BY <1>1, <1>2, <1>5, <1>6, GotoRequest
  DEF Phase, PhaseInv, Authorising, LifecycleOps, historyVars
<1> HIDE DEF m, role
<1>9. TypeOK'
  BY <1>1, <1>4, <1>7 DEF TypeOK, tenantVars, historyVars
<1>10. AcceptedImpliesApplied'
  BY <1>1 DEF IInv, tenantVars, historyVars, AcceptedImpliesApplied
<1>11. OwnersAreLegitimate'
  BY <1>1, <1>2, <1>4, <1>5 DEF IInv, OwnersAreLegitimate, OwnerRows, Live, historyVars
<1>12. \A n \in ownersEver' : rows'[n].state # "free"
  BY <1>1, <1>4 DEF IInv, TypeOK, historyVars
<1> QED BY <1>6, <1>7, <1>8, <1>9, <1>10, <1>11, <1>12, StepInv

LEMMA DeleteMemberInv ==
  ASSUME IInv, NEW r \in Reqs, DeleteMember(r)
  PROVE  IInv'
<1>1. TypeOK /\ RequestInv(r) /\ UNCHANGED <<tenantVars, invites, historyVars>>
      /\ Goto(r, "audit")
  BY DEF IInv, DeleteMember
<1>2. req[r].target \in MemberIds /\ req[r].op = "removeMember"
  BY <1>1 DEF DeleteMember, TypeOK, Request, RequestInv
<1>3. /\ rows' \in [MemberIds -> Row]
      /\ rows'[req[r].target] = [rows[req[r].target] EXCEPT !.state = "deleted"]
      /\ \A n \in MemberIds \ {req[r].target} : rows'[n] = rows[n]
  BY <1>1, <1>2 DEF TypeOK, DeleteMember, Row
<1>4. rows'[req[r].target].state = "deleted"
      /\ rows'[req[r].target].email = rows[req[r].target].email
  BY <1>1, <1>2, <1>3 DEF TypeOK, Row
<1>5. Grows
  BY <1>1, <1>3, <1>4 DEF Grows, tenantVars, historyVars
<1>6. OthersStay(r) /\ req' \in [Reqs -> Request]
  BY <1>1, GotoInv DEF Phase
<1>7. RequestInv(r)'
  BY <1>1, <1>2, <1>5, GotoRequest DEF Phase, PhaseInv, Authorising, LifecycleOps
<1>8. TypeOK'
  BY <1>1, <1>3, <1>6 DEF TypeOK, tenantVars, historyVars
<1>9. AcceptedImpliesApplied'
  BY <1>1 DEF IInv, tenantVars, historyVars, AcceptedImpliesApplied
<1>10. OwnersAreLegitimate'
  BY <1>1, <1>3, <1>4 DEF IInv, OwnersAreLegitimate, OwnerRows, Live, historyVars
<1>11. \A n \in ownersEver' : rows'[n].state # "free"
  BY <1>1, <1>3, <1>4 DEF IInv, TypeOK, historyVars
<1> QED BY <1>5, <1>6, <1>7, <1>8, <1>9, <1>10, <1>11, StepInv

LEMMA ReadTransferInv ==
  ASSUME IInv, NEW r \in Reqs, ReadActor(r) \/ ReadTarget(r)
  PROVE  IInv'
<1>1. TypeOK /\ RequestInv(r) /\ ReadOnly /\ Grows
  BY ReadOnlyGrows DEF IInv, ReadActor, ReadTarget
<1>2. req[r] \in Request /\ req[r].op = "transferOwnership"
      /\ UNCHANGED <<rows, ownersEver, legalHold, applied>>
  BY <1>1 DEF ReadActor, ReadTarget, TypeOK, RequestInv, PhaseInv, ReadOnly, tenantVars, historyVars
<1>3. CASE Finish(r)
  BY <1>1, <1>3, FinishReadOnly
<1>4. ASSUME NEW m \in RowsOf(req[r].actor) \cap ActiveOwners,
             req' = [req EXCEPT ![r].pc = "readTarget", ![r].source = m]
      PROVE  IInv'
  <2>1. m \in MemberIds
    BY DEF RowsOf, Live
  <2>2. req' \in [Reqs -> Request] /\ OthersStay(r)
    BY <1>1, <1>2, <1>4, <2>1 DEF TypeOK, OthersStay, Request, Phase
  <2>3. req'[r] = [req[r] EXCEPT !.pc = "readTarget", !.source = m]
    BY <1>1, <1>4 DEF TypeOK
  <2>4. RequestInv(r)'
    BY <1>1, <1>2, <2>3 DEF RequestInv, PhaseInv, Authorising, LifecycleOps, Request
  <2> QED BY <1>1, <2>2, <2>4, ReadOnlyStep
<1>5. CASE Goto(r, "write")
  <2>1. RequestInv(r)'
    BY <1>1, <1>2, <1>5, GotoRequest DEF Phase, PhaseInv, Authorising, LifecycleOps
  <2> QED BY <1>1, <1>5, <2>1, GotoReadOnly DEF Phase
<1> QED BY <1>3, <1>4, <1>5 DEF ReadActor, ReadTarget

LEMMA WriteTransferInv ==
  ASSUME IInv, NEW r \in Reqs, WriteTransfer(r)
  PROVE  IInv'
<1>1. TypeOK /\ RequestInv(r) /\ UNCHANGED <<tenantVars, invites, applied>>
      /\ Goto(r, "audit") /\ ownersEver' = ownersEver \cup {req[r].target}
  BY DEF IInv, WriteTransfer
<1>2. req[r].target \in MemberIds /\ req[r].op = "transferOwnership"
      /\ rows[req[r].target].state # "free"
  BY <1>1, NoneAssumption DEF WriteTransfer, TypeOK, Request, RequestInv
<1>3. rows' = [m \in MemberIds |->
                 IF m \in Live /\ m = req[r].target THEN [rows[m] EXCEPT !.role = "owner"]
                 ELSE IF m \in Live /\ m = req[r].source THEN [rows[m] EXCEPT !.role = "admin"]
                 ELSE rows[m]]
  BY DEF WriteTransfer
<1>4. ASSUME NEW m \in MemberIds
      PROVE  /\ rows'[m] \in Row
             /\ rows'[m].state = rows[m].state /\ rows'[m].email = rows[m].email
             /\ rows'[m].role = "owner" => rows[m].role = "owner" \/ m = req[r].target
  <2>1. rows[m] \in Row
    BY <1>1 DEF TypeOK
  <2> QED BY <1>3, <2>1 DEF Row, TenantRoles
<1>5. rows' \in [MemberIds -> Row]
  BY <1>3, <1>4
<1>6. Grows
  BY <1>1, <1>4 DEF Grows, tenantVars
<1>7. OthersStay(r) /\ req' \in [Reqs -> Request]
  BY <1>1, GotoInv DEF Phase
<1>8. RequestInv(r)'
  BY <1>1, <1>2, <1>6, GotoRequest DEF Phase, PhaseInv, Authorising, LifecycleOps
<1>9. TypeOK'
  BY <1>1, <1>2, <1>5, <1>7 DEF TypeOK, tenantVars
<1>10. AcceptedImpliesApplied'
  BY <1>1 DEF IInv, tenantVars, AcceptedImpliesApplied
<1>11. OwnersAreLegitimate'
  BY <1>1, <1>4 DEF IInv, OwnersAreLegitimate, OwnerRows, Live
<1>12. \A n \in ownersEver' : rows'[n].state # "free"
  BY <1>1, <1>2, <1>4 DEF IInv, TypeOK
<1> QED BY <1>6, <1>7, <1>8, <1>9, <1>10, <1>11, <1>12, StepInv

LEMMA ReadTenantInv ==
  ASSUME IInv, NEW r \in Reqs, ReadTenant(r)
  PROVE  IInv'
<1>1. TypeOK /\ RequestInv(r) /\ ReadOnly /\ Grows /\ req[r].pc = "readTenant"
  BY ReadOnlyGrows DEF IInv, ReadTenant
<1>2. CASE Finish(r)
  BY <1>1, <1>2, FinishReadOnly
<1>3. CASE Goto(r, "write") /\ (req[r].op = "requestTenantDeletion" => ~legalHold)
  <2>1. req[r].op \in LifecycleOps
    BY <1>1 DEF RequestInv, PhaseInv
  <2>2. PhaseInv("write", req[r].op)
    BY <2>1 DEF PhaseInv, Authorising, LifecycleOps
  <2>3. RequestInv(r)'
    BY <1>1, <1>3, <2>1, <2>2, GotoRequest DEF Phase, LifecycleOps
  <2> QED BY <1>1, <1>3, <2>3, GotoReadOnly DEF Phase
<1> QED BY <1>2, <1>3 DEF ReadTenant

LEMMA WriteStatusInv ==
  ASSUME IInv, NEW r \in Reqs, WriteStatus(r)
  PROVE  IInv'
<1>1. TypeOK /\ RequestInv(r) /\ UNCHANGED <<legalHold, rows, invites, historyVars>>
      /\ req[r].pc = "write" /\ req[r].op \in LifecycleOps
  BY DEF IInv, WriteStatus
<1>2. status' = NewStatus(req[r].op)
      /\ scheduledPurge' = (scheduledPurge \/ req[r].op = "requestTenantDeletion")
  BY DEF WriteStatus
<1>3. PICK phase \in {"writeMembers", "audit"} : Goto(r, phase)
  BY DEF WriteStatus
<1>4. phase \in Phase \ {"authStatus"} /\ PhaseInv(phase, req[r].op)
  BY <1>1 DEF Phase, PhaseInv, Authorising, LifecycleOps
<1>5. Grows
  BY <1>1 DEF Grows, historyVars
<1>6. OthersStay(r) /\ req' \in [Reqs -> Request]
  BY <1>1, <1>3, <1>4, GotoInv
<1>7. RequestInv(r)'
  BY <1>1, <1>3, <1>4, <1>5, GotoRequest DEF LifecycleOps
<1>8. TypeOK'
  <2>1. scheduledPurge' \in BOOLEAN
    BY <1>1, <1>2 DEF TypeOK
  <2> QED BY <1>1, <1>2, <1>6, <2>1, NewStatusType DEF TypeOK, historyVars
<1>9. AcceptedImpliesApplied' /\ OwnersAreLegitimate' /\ \A m \in ownersEver' : rows'[m].state # "free"
  BY <1>1 DEF IInv, historyVars, AcceptedImpliesApplied, OwnersAreLegitimate, OwnerRows, Live
<1> QED BY <1>5, <1>6, <1>7, <1>8, <1>9, StepInv

LEMMA WriteMembersInv ==
  ASSUME IInv, NEW r \in Reqs, WriteMembers(r)
  PROVE  IInv'
<1>1. TypeOK /\ RequestInv(r) /\ UNCHANGED <<tenantVars, invites, historyVars>>
      /\ Goto(r, "audit") /\ req[r].pc = "writeMembers"
  BY DEF IInv, WriteMembers
<1>2. req[r].op \in LifecycleOps
  BY <1>1 DEF RequestInv, PhaseInv
<1>3. rows' = [m \in MemberIds |->
                 IF m \in Live
                 THEN [rows[m] EXCEPT !.status = IF req[r].op = "reactivateTenant"
                                                 THEN "active" ELSE "inactive"]
                 ELSE rows[m]]
  BY DEF WriteMembers
<1>4. ASSUME NEW m \in MemberIds
      PROVE  /\ rows'[m] \in Row
             /\ rows'[m].state = rows[m].state /\ rows'[m].email = rows[m].email
             /\ rows'[m].role = rows[m].role
  <2>1. rows[m] \in Row
    BY <1>1 DEF TypeOK
  <2> QED BY <1>3, <2>1 DEF Row
<1>5. rows' \in [MemberIds -> Row]
  BY <1>3, <1>4
<1>6. Grows
  BY <1>1, <1>4 DEF Grows, tenantVars, historyVars
<1>7. OthersStay(r) /\ req' \in [Reqs -> Request]
  BY <1>1, GotoInv DEF Phase
<1>8. RequestInv(r)'
  BY <1>1, <1>2, <1>6, GotoRequest DEF Phase, PhaseInv, Authorising, LifecycleOps
<1>9. TypeOK'
  BY <1>1, <1>5, <1>7 DEF TypeOK, tenantVars, historyVars
<1>10. AcceptedImpliesApplied'
  BY <1>1 DEF IInv, tenantVars, historyVars, AcceptedImpliesApplied
<1>11. OwnersAreLegitimate' /\ \A n \in ownersEver' : rows'[n].state # "free"
  BY <1>1, <1>4 DEF IInv, TypeOK, OwnersAreLegitimate, OwnerRows, Live, historyVars
<1> QED BY <1>6, <1>7, <1>8, <1>9, <1>10, <1>11, StepInv

-----------------------------------------------------------------------------
(* The invariant and what follows from it.                                 *)

LEMMA NextInv == IInv /\ [Next]_vars => IInv'
<1> SUFFICES ASSUME IInv, [Next]_vars PROVE IInv'
  OBVIOUS
<1>1. CASE UNCHANGED vars
  BY <1>1 DEF IInv, vars, TypeOK, AcceptedImpliesApplied,
       OwnersAreLegitimate, OwnerRows, Live, RequestInv, OwnerOnce
<1>2. ASSUME NEW r \in Reqs, Proceed(r) PROVE IInv'
  <2>1. CASE AuthoriseMember(r) \/ AuthoriseStatus(r)
    BY <2>1, AuthoriseInv
  <2>2. CASE InsertInvitation(r)
    BY <2>2, InviteInv
  <2>3. CASE ReadInvitation(r) \/ ReadExistingMember(r)
    BY <2>3, ReadTokenInv
  <2>4. CASE AcceptUpdate(r) \/ AcceptInsert(r) \/ MarkAccepted(r)
    BY <2>4, AcceptUpdateInv, AcceptInsertInv, MarkAcceptedInv
  <2>5. CASE ReadMember(r) \/ CountOwners(r)
    BY <2>5, ReadMemberInv
  <2>6. CASE WriteRole(r) \/ DeleteMember(r)
    BY <2>6, WriteRoleInv, DeleteMemberInv
  <2>7. CASE ReadActor(r) \/ ReadTarget(r)
    BY <2>7, ReadTransferInv
  <2>8. CASE WriteTransfer(r)
    BY <2>8, WriteTransferInv
  <2>9. CASE ReadTenant(r) \/ WriteStatus(r) \/ WriteMembers(r)
    BY <2>9, ReadTenantInv, WriteStatusInv, WriteMembersInv
  <2>10. CASE RecordEvent(r)
    BY <2>10, FinishReadOnly DEF RecordEvent
  <2> QED BY <1>2, <2>1, <2>2, <2>3, <2>4, <2>5, <2>6, <2>7, <2>8, <2>9, <2>10 DEF Proceed
<1>3. ASSUME NEW r \in Reqs, Arrive(r) PROVE IInv'
  BY <1>3, ArriveInv
<1>4. ASSUME NEW r \in Reqs, Abort(r) PROVE IInv'
  BY <1>4, FinishReadOnly DEF Abort
<1>5. ASSUME NEW i \in InviteIds, ExpireInvitation(i) PROVE IInv'
  BY <1>5, ExpireInv
<1>6. ASSUME NEW r \in Reqs, ChangeHold(r) PROVE IInv'
  BY <1>6, HoldInv
<1> QED BY <1>1, <1>2, <1>3, <1>4, <1>5, <1>6 DEF Next

\* Every reachable state satisfies the inductive invariant.
THEOREM Invariance == Spec => []IInv
<1>1. Init => IInv
  BY InitInv
<1>2. IInv /\ [Next]_vars => IInv'
  BY NextInv
<1> QED BY <1>1, <1>2, PTL DEF Spec

\* The tables and the requests keep their types, so that no role or status
\* violates a CHECK constraint, however requests interleave.
THEOREM TypeCorrect == Spec => []TypeOK
<1>1. IInv => TypeOK
  BY DEF IInv
<1> QED BY <1>1, Invariance, PTL

\* A token is not used up before the membership it stands for is written.
THEOREM TokenSafe == Spec => []AcceptedImpliesApplied
<1>1. IInv => AcceptedImpliesApplied
  BY DEF IInv
<1> QED BY <1>1, Invariance, PTL

\* Owners were made so at the start, by a transfer or by an owner invitation.
THEOREM OwnersSafe == Spec => []OwnersAreLegitimate
<1>1. IInv => OwnersAreLegitimate
  BY DEF IInv
<1> QED BY <1>1, Invariance, PTL

\* But for the hold, the tenant row is written by lifecycle requests only.
LEMMA TenantWrites ==
  ASSUME Next, ~UNCHANGED <<status, scheduledPurge>>
  PROVE  \E r \in Reqs : WriteStatus(r)
<1>1. ASSUME NEW r \in Reqs, Proceed(r), ~WriteStatus(r) PROVE UNCHANGED <<status, scheduledPurge>>
  BY <1>1 DEF Proceed, ReadOnly, tenantVars, AuthoriseMember, AuthoriseStatus,
       InsertInvitation, ReadInvitation, ReadExistingMember, AcceptUpdate, AcceptInsert,
       MarkAccepted, ReadMember, CountOwners, WriteRole, DeleteMember, ReadActor,
       ReadTarget, WriteTransfer, ReadTenant, WriteMembers, RecordEvent
<1>2. ASSUME NEW r \in Reqs, Arrive(r) PROVE UNCHANGED <<status, scheduledPurge>>
  BY <1>2 DEF Arrive, BeginInvite, BeginUpdateRole, BeginOnMember, BeginLifecycle,
       BeginAccept, Begin, tenantVars
<1>3. ASSUME NEW r \in Reqs, Abort(r) PROVE UNCHANGED <<status, scheduledPurge>>
  BY <1>3 DEF Abort, ReadOnly, tenantVars
<1>4. ASSUME NEW i \in InviteIds, ExpireInvitation(i) PROVE UNCHANGED <<status, scheduledPurge>>
  BY <1>4 DEF ExpireInvitation, tenantVars
<1>5. ASSUME NEW r \in Reqs, ChangeHold(r) PROVE UNCHANGED <<status, scheduledPurge>>
  BY <1>5 DEF ChangeHold
<1> QED BY <1>1, <1>2, <1>3, <1>4, <1>5 DEF Next

\* A deletion is scheduled by a request that came without a legal hold or saw
\* it lifted, wherever operators place and lift the hold between the statements
\* of the requests.
THEOREM HoldSafe == Spec => LegalHoldBlocksDeletion
<1> DEFINE Unheld(r) == /\ req[r].pc = "write" /\ req'[r].pc # "write"
                        /\ req[r].op = "requestTenantDeletion" /\ ~req[r].held
           Schedules == \/ status # "pending_deletion" /\ status' = "pending_deletion"
                        \/ scheduledPurge' # scheduledPurge
           Step == Schedules => \E r \in Reqs : Unheld(r)
<1>1. ASSUME IInv, Next PROVE Step
  <2> SUFFICES ASSUME Schedules PROVE \E r \in Reqs : Unheld(r)
    OBVIOUS
  <2>1. PICK r \in Reqs : WriteStatus(r)
    BY <1>1, TenantWrites
  <2>2. TypeOK /\ RequestInv(r) /\ req[r].pc = "write" /\ req[r].op \in LifecycleOps
    BY <1>1, <2>1 DEF IInv, WriteStatus
  <2>3. PICK phase \in {"writeMembers", "audit"} : Goto(r, phase)
    BY <2>1 DEF WriteStatus
  <2>4. req'[r].pc = phase
    BY <2>2, <2>3 DEF TypeOK, Goto, Request
  <2>5. req[r].op = "requestTenantDeletion"
    <3>1. ASSUME req[r].op # "requestTenantDeletion" PROVE FALSE
      <4>1. status' # "pending_deletion"
        BY <2>1, <2>2, <3>1, NewStatusValue DEF WriteStatus
      <4>2. scheduledPurge' = scheduledPurge
        BY <2>1, <2>2, <3>1 DEF WriteStatus, TypeOK
      <4> QED BY <4>1, <4>2
    <3> QED BY <3>1
  <2>6. ~req[r].held
    BY <2>2, <2>5 DEF RequestInv
  <2> QED BY <2>2, <2>4, <2>5, <2>6
<1>2. ASSUME IInv, [Next]_vars PROVE [Step]_vars
  BY <1>1, <1>2
<1> HIDE DEF Step
<1>3. Spec => [][Step]_vars
  BY <1>2, Invariance, PTL DEF Spec
<1> QED BY <1>3, PTL DEF LegalHoldBlocksDeletion, Step

\* The tenant's status is changed only by a request of somebody who has been
\* an owner: the check authorizeTenantAction made may be out of date when the
\* status is written, but it was made of an owner.
THEOREM StatusByOwners == Spec => LifecycleByOwnersOnly
<1> DEFINE ByOwner(r) == /\ req[r].pc = "write" /\ req'[r].pc # "write"
                         /\ \E m \in ownersEver : rows[m].email = req[r].actor
           Step == status' # status => \E r \in Reqs : ByOwner(r)
<1>1. ASSUME IInv, Next PROVE Step
  <2>1. ASSUME NEW r \in Reqs, WriteStatus(r) PROVE ByOwner(r)
    <3>1. TypeOK /\ RequestInv(r) /\ req[r].pc = "write" /\ req[r].op \in LifecycleOps
      BY <1>1, <2>1 DEF IInv, WriteStatus
    <3>2. PICK phase \in {"writeMembers", "audit"} : Goto(r, phase)
      BY <2>1 DEF WriteStatus
    <3>3. req'[r].pc = phase
      BY <3>1, <3>2 DEF TypeOK, Goto, Request
    <3> QED BY <3>1, <3>3 DEF RequestInv, OwnerOnce
  <2> QED BY <1>1, <2>1, TenantWrites
<1>2. ASSUME IInv, [Next]_vars PROVE [Step]_vars
  BY <1>1, <1>2
<1> HIDE DEF Step
<1>3. Spec => [][Step]_vars
  BY <1>2, Invariance, PTL DEF Spec
<1> QED BY <1>3, PTL DEF LifecycleByOwnersOnly, Step

-----------------------------------------------------------------------------
(***************************************************************************)
(* Every member row goes back to an invitation.                            *)
(***************************************************************************)

\* Whom an invitation is for, and that a token is made once.
Invited(r) ==
  LET q == req[r] IN
  /\ q.op = "invite" => q.inv \in InviteIds
  /\ q.op = "invite" /\ q.pc # "audit" =>
       invites[q.inv].state = "free" /\ \A s \in Reqs \ {r} : req[s].inv # q.inv
  /\ q.op = "acceptInvitation" => q.inv \in InviteIds /\ invites[q.inv].state # "free"
  /\ q.op = "acceptInvitation" /\ q.pc # "readInvitation" => invites[q.inv].email = q.email

AllInvited == MembersWereInvited /\ \A r \in Reqs : Invited(r)

\* The tokens that exist are the same, for the same addresses.
TokensStay == \A i \in InviteIds : /\ invites'[i].state = "free" <=> invites[i].state = "free"
                                   /\ invites'[i].email = invites[i].email

\* Nobody becomes a member.
NoNewMember == \A m \in MemberIds : rows'[m].state = "live" => rows[m].state = "live" /\ rows'[m].email = rows[m].email

LEMMA NoNewMemberKeeps ==
  ASSUME MembersWereInvited, NoNewMember,
         \A i \in InviteIds : invites[i].state # "free" =>
           invites'[i].state # "free" /\ invites'[i].email = invites[i].email
  PROVE  MembersWereInvited'
<1> SUFFICES ASSUME NEW m \in MemberIds, rows'[m].state = "live"
             PROVE  \/ rows'[m].email \in Seated
                    \/ \E i \in InviteIds : invites'[i].state # "free" /\ invites'[i].email = rows'[m].email
  BY DEF MembersWereInvited, Live
<1>1. m \in Live /\ rows'[m].email = rows[m].email
  BY DEF NoNewMember, Live
<1> QED  BY <1>1 DEF MembersWereInvited

\* The request goes on with the same invitation and address, or ends.
GoesOn(r) == /\ req[r].pc \notin {"audit", "readInvitation"}
             /\ req'[r].op = req[r].op /\ req'[r].inv = req[r].inv /\ req'[r].email = req[r].email

LEMMA Onward ==
  ASSUME IInv, NEW r \in Reqs, Proceed(r), ~InsertInvitation(r), ~ReadInvitation(r)
  PROVE  Finish(r) \/ (GoesOn(r) /\ OthersStay(r))
<1>1. TypeOK /\ req[r] \in Request
  BY DEF IInv, TypeOK
<1>2. ASSUME NEW phase, Goto(r, phase), req[r].pc \notin {"audit", "readInvitation"}
      PROVE  GoesOn(r) /\ OthersStay(r)
  BY <1>1, <1>2 DEF TypeOK, Goto, Request, GoesOn, OthersStay
<1>3. CASE AuthoriseMember(r)
  <2>1. ASSUME NEW m, req' = [req EXCEPT ![r].pc = "authStatus", ![r].seen = rows[m].role]
        PROVE  GoesOn(r) /\ OthersStay(r)
    BY <1>1, <1>3, <2>1 DEF AuthoriseMember, TypeOK, Request, GoesOn, OthersStay
  <2> QED  BY <1>3, <2>1 DEF AuthoriseMember
<1>4. CASE AuthoriseStatus(r)
  <2>1. ASSUME NEW phase, NEW u, req' = [req EXCEPT ![r].pc = phase, ![r].seen = "member", ![r].actor = u]
        PROVE  GoesOn(r) /\ OthersStay(r)
    BY <1>1, <1>4, <2>1 DEF AuthoriseStatus, TypeOK, Request, GoesOn, OthersStay
  <2> QED  BY <1>4, <2>1 DEF AuthoriseStatus
<1>5. CASE ReadExistingMember(r)
  <2>1. ASSUME NEW m, req' = [req EXCEPT ![r].pc = "write", ![r].target = m]
        PROVE  GoesOn(r) /\ OthersStay(r)
    BY <1>1, <1>5, <2>1 DEF ReadExistingMember, TypeOK, Request, GoesOn, OthersStay
  <2> QED  BY <1>2, <1>5, <2>1 DEF ReadExistingMember
<1>6. CASE AcceptUpdate(r) \/ AcceptInsert(r) \/ MarkAccepted(r)
  BY <1>2, <1>6 DEF AcceptUpdate, AcceptInsert, MarkAccepted
<1>7. CASE ReadMember(r) \/ CountOwners(r)
  BY <1>2, <1>7 DEF ReadMember, CountOwners
<1>8. CASE WriteRole(r) \/ DeleteMember(r) \/ WriteTransfer(r) \/ WriteMembers(r) \/ WriteStatus(r)
  BY <1>2, <1>8 DEF WriteRole, DeleteMember, WriteTransfer, WriteMembers, WriteStatus
<1>9. CASE ReadActor(r)
  <2>1. ASSUME NEW m, req' = [req EXCEPT ![r].pc = "readTarget", ![r].source = m]
        PROVE  GoesOn(r) /\ OthersStay(r)
    BY <1>1, <1>9, <2>1 DEF ReadActor, TypeOK, Request, GoesOn, OthersStay
  <2> QED  BY <1>9, <2>1 DEF ReadActor
<1>10. CASE ReadTarget(r) \/ ReadTenant(r)
  BY <1>2, <1>10 DEF ReadTarget, ReadTenant
<1>11. CASE RecordEvent(r)
  BY <1>11 DEF RecordEvent
<1> QED  BY <1>3, <1>4, <1>5, <1>6, <1>7, <1>8, <1>9, <1>10, <1>11 DEF Proceed

\* A token is made by InsertInvitation only.
LEMMA TokensOnward ==
  ASSUME IInv, AllInvited, NEW r \in Reqs, Proceed(r), ~InsertInvitation(r)
  PROVE  TokensStay
<1>1. CASE UNCHANGED invites
  BY <1>1 DEF TokensStay
<1>2. CASE MarkAccepted(r)
  <2>1. invites' = [invites EXCEPT ![req[r].inv].state = "accepted"] /\ req[r].op = "acceptInvitation"
    BY <1>2 DEF MarkAccepted, IInv, RequestInv, PhaseInv
  <2>2. req[r].inv \in InviteIds /\ invites[req[r].inv].state # "free"
    BY <2>1 DEF AllInvited, Invited
  <2>3. invites \in [InviteIds -> Invitation]
    BY DEF IInv, TypeOK
  <2>4. \A i \in InviteIds : invites'[i].email = invites[i].email
    BY <2>1, <2>2, <2>3 DEF Invitation
  <2>5. \A i \in InviteIds \ {req[r].inv} : invites'[i] = invites[i]
    BY <2>1, <2>3
  <2>6. invites'[req[r].inv].state = "accepted"
    BY <2>1, <2>2, <2>3 DEF Invitation
  <2> QED  BY <2>2, <2>4, <2>5, <2>6 DEF TokensStay
<1> QED  BY <1>1, <1>2
         DEF Proceed, AuthoriseMember, AuthoriseStatus, ReadInvitation, ReadExistingMember, AcceptUpdate,
             AcceptInsert, ReadMember, CountOwners, WriteRole, DeleteMember, ReadActor, ReadTarget,
             WriteTransfer, ReadTenant, WriteStatus, WriteMembers, RecordEvent, ReadOnly

\* Rows come by AcceptInsert only.
LEMMA RowsOnward ==
  ASSUME IInv, NEW r \in Reqs, Proceed(r), ~AcceptInsert(r)
  PROVE  NoNewMember
<1>1. rows \in [MemberIds -> Row] /\ req[r] \in Request /\ RequestInv(r)
  BY DEF IInv, TypeOK
<1>2. CASE UNCHANGED rows
  BY <1>2 DEF NoNewMember
<1>3. ASSUME NEW m, NEW role, NEW st, SetRow(m, role, st) PROVE NoNewMember
  BY <1>1, <1>3 DEF SetRow, Row, NoNewMember
<1>4. CASE AcceptUpdate(r) \/ WriteRole(r)
  BY <1>3, <1>4 DEF AcceptUpdate, WriteRole
<1>5. CASE DeleteMember(r)
  <2>1. rows' = [rows EXCEPT ![req[r].target].state = "deleted"]
    BY <1>5 DEF DeleteMember
  <2> QED  BY <1>1, <2>1 DEF Row, NoNewMember
<1>6. CASE WriteTransfer(r)
  BY <1>1, <1>6 DEF WriteTransfer, Row, NoNewMember, Live
<1>7. CASE WriteMembers(r)
  BY <1>1, <1>7 DEF WriteMembers, Row, NoNewMember, Live
<1> QED  BY <1>2, <1>4, <1>5, <1>6, <1>7
         DEF Proceed, AuthoriseMember, AuthoriseStatus, InsertInvitation, ReadInvitation, ReadExistingMember,
             MarkAccepted, ReadMember, CountOwners, ReadActor, ReadTarget,
             ReadTenant, WriteStatus, RecordEvent, ReadOnly

\* The tokens stay, and so does what the other requests rely on.
LEMMA StayInvited ==
  ASSUME IInv, AllInvited, NEW r \in Reqs, TokensStay, OthersStay(r), req' \in [Reqs -> Request],
         req'[r].inv \in {req[r].inv, None}, Invited(r)'
  PROVE  \A s \in Reqs : Invited(s)'
<1> SUFFICES ASSUME NEW s \in Reqs \ {r} PROVE Invited(s)'
  OBVIOUS
<1>1. req'[s] = req[s] /\ Invited(s)
  BY DEF OthersStay, AllInvited
<1>2. req[s].op = "invite" => req[s].inv # None
  BY <1>1, NoneAssumption DEF Invited
<1>3. \A x \in Reqs \ {s} : req'[x].inv \in {req[x].inv, None}
  BY DEF OthersStay
<1> QED  BY <1>1, <1>2, <1>3 DEF Invited, TokensStay

\* A step that ends the request, or goes on with the same invitation.
LEMMA OnwardInvited ==
  ASSUME IInv, IInv', AllInvited, NEW r \in Reqs, TokensStay, Finish(r) \/ (GoesOn(r) /\ OthersStay(r))
  PROVE  \A s \in Reqs : Invited(s)'
<1>1. req' \in [Reqs -> Request] /\ TypeOK
  BY DEF IInv, TypeOK
<1>2. CASE Finish(r)
  <2>1. req'[r] = Idle /\ OthersStay(r)
    BY <1>1, <1>2 DEF Finish, TypeOK, OthersStay
  <2>2. req'[r].inv = None /\ Invited(r)'
    BY <2>1 DEF Idle, Invited
  <2> QED  BY <1>1, <2>1, <2>2, StayInvited
<1>3. CASE GoesOn(r) /\ OthersStay(r)
  <2>1. Invited(r)
    BY DEF AllInvited
  <2>2. Invited(r)'
    BY <1>3, <2>1 DEF GoesOn, Invited, TokensStay, OthersStay
  <2> QED  BY <1>1, <1>3, <2>2, StayInvited DEF GoesOn
<1> QED  BY <1>2, <1>3

LEMMA InsertInvited ==
  ASSUME IInv, IInv', AllInvited, NEW r \in Reqs, InsertInvitation(r)
  PROVE  AllInvited'
<1>1. TypeOK /\ req' \in [Reqs -> Request] /\ req[r].pc = "write" /\ req[r].op = "invite" /\ rows' = rows
  BY DEF IInv, TypeOK, InsertInvitation
<1>2. CASE Finish(r) /\ UNCHANGED invites
  <2>1. TokensStay /\ NoNewMember
    BY <1>1, <1>2 DEF TokensStay, NoNewMember
  <2>2. MembersWereInvited'
    BY <1>2, <2>1, NoNewMemberKeeps DEF AllInvited
  <2> QED  BY <1>2, <2>1, <2>2, OnwardInvited DEF AllInvited
<1>3. ASSUME invites' = [invites EXCEPT ![req[r].inv] =
                            [state |-> "pending", email |-> req[r].email,
                             role |-> req[r].role, expired |-> FALSE]],
             Goto(r, "audit")
      PROVE  AllInvited'
  <2> DEFINE i == req[r].inv
  <2>1. i \in InviteIds /\ invites[i].state = "free" /\ \A s \in Reqs \ {r} : req[s].inv # i
    BY <1>1 DEF AllInvited, Invited
  <2>2. invites'[i].state = "pending" /\ \A j \in InviteIds \ {i} : invites'[j] = invites[j]
    BY <1>1, <1>3, <2>1 DEF TypeOK
  <2>3. /\ OthersStay(r) /\ req'[r].pc = "audit" /\ req'[r].op = "invite" /\ req'[r].inv = i
    BY <1>1, <1>3 DEF Goto, TypeOK, Request, OthersStay
  <2> HIDE DEF i
  <2>4. Invited(r)'
    BY <2>1, <2>3 DEF Invited
  <2>5. ASSUME NEW s \in Reqs \ {r} PROVE Invited(s)'
    <3>1. req'[s] = req[s] /\ Invited(s) /\ req[s].inv # i
      BY <2>1, <2>3 DEF OthersStay, AllInvited
    <3>2. req[s].op = "invite" /\ req[s].pc # "audit" => \A x \in Reqs \ {s} : req'[x].inv = req[x].inv
      BY <2>3 DEF OthersStay, i
    <3> QED  BY <2>2, <3>1, <3>2 DEF Invited
  <2>6. NoNewMember
    BY <1>1 DEF NoNewMember
  <2>7. MembersWereInvited'
    BY <2>1, <2>2, <2>6, NoNewMemberKeeps DEF AllInvited
  <2> QED  BY <2>4, <2>5, <2>7 DEF AllInvited
<1> QED  BY <1>2, <1>3 DEF InsertInvitation

LEMMA ReadInvited ==
  ASSUME IInv, IInv', AllInvited, NEW r \in Reqs, ReadInvitation(r)
  PROVE  \A s \in Reqs : Invited(s)'
<1>1. TypeOK /\ req' \in [Reqs -> Request] /\ req[r].op = "acceptInvitation" /\ invites' = invites
  BY DEF IInv, TypeOK, ReadInvitation, ReadOnly, RequestInv, PhaseInv
<1>2. TokensStay
  BY <1>1 DEF TokensStay
<1>3. CASE Finish(r)
  BY <1>2, <1>3, OnwardInvited
<1>4. ASSUME NEW role,
             req' = [req EXCEPT ![r].pc = "readExisting", ![r].email = invites[req[r].inv].email, ![r].role = role]
      PROVE  \A s \in Reqs : Invited(s)'
  <2>1. /\ OthersStay(r) /\ req'[r].op = "acceptInvitation" /\ req'[r].inv = req[r].inv
        /\ req'[r].email = invites[req[r].inv].email
    BY <1>1, <1>4 DEF TypeOK, Request, OthersStay
  <2>2. Invited(r)'
    BY <1>1, <2>1 DEF AllInvited, Invited
  <2> QED  BY <1>1, <1>2, <2>1, <2>2, StayInvited
<1> QED  BY <1>3, <1>4 DEF ReadInvitation

\* The address gets its row from the invitation it was read in.
LEMMA InsertedWasInvited ==
  ASSUME IInv, AllInvited, NEW r \in Reqs, AcceptInsert(r)
  PROVE  MembersWereInvited'
<1>1. TypeOK /\ invites' = invites
  BY DEF IInv, AcceptInsert
<1>2. CASE UNCHANGED rows
  <2>1. NoNewMember
    BY <1>2 DEF NoNewMember
  <2> QED  BY <1>1, <2>1, NoNewMemberKeeps DEF AllInvited
<1>3. ASSUME NEW n \in MemberIds,
             rows' = [rows EXCEPT ![n] = [state |-> "live", email |-> req[r].email,
                                          role |-> req[r].role, status |-> "active"]]
      PROVE  MembersWereInvited'
  <2>1. req[r].op = "acceptInvitation" /\ req[r].pc = "write"
    BY DEF AcceptInsert
  <2>2. req[r].inv \in InviteIds /\ invites[req[r].inv].state # "free"
        /\ invites[req[r].inv].email = req[r].email
    BY <2>1 DEF AllInvited, Invited
  <2>3. rows'[n].email = req[r].email /\ \A m \in MemberIds \ {n} : rows'[m] = rows[m]
    BY <1>1, <1>3 DEF TypeOK
  <2> QED  BY <1>1, <2>2, <2>3 DEF AllInvited, MembersWereInvited, Live
<1> QED  BY <1>2, <1>3 DEF AcceptInsert

\* A new invitation takes a free id nobody holds.
LEMMA ArriveInvited ==
  ASSUME IInv, IInv', AllInvited, NEW r \in Reqs, Arrive(r)
  PROVE  AllInvited'
<1>1. TypeOK /\ req' \in [Reqs -> Request]
  BY DEF IInv, TypeOK
<1>2. ASSUME NEW new, Begin(r, new)
      PROVE  /\ OthersStay(r) /\ req'[r] = new /\ rows' = rows /\ invites' = invites
             /\ MembersWereInvited' /\ TokensStay
  <2>1. OthersStay(r) /\ req'[r] = new /\ rows' = rows /\ invites' = invites
    BY <1>1, <1>2 DEF Begin, TypeOK, OthersStay
  <2>2. NoNewMember /\ TokensStay
    BY <2>1 DEF NoNewMember, TokensStay
  <2> QED  BY <2>1, <2>2, NoNewMemberKeeps DEF AllInvited
<1>3. ASSUME NEW new, Begin(r, new), new.inv = None, new.op \notin {"invite", "acceptInvitation"}
      PROVE  AllInvited'
  <2>1. Invited(r)'
    BY <1>2, <1>3 DEF Invited
  <2> QED  BY <1>1, <1>2, <1>3, <2>1, StayInvited DEF AllInvited
<1>4. CASE BeginInvite(r)
  <2>1. PICK u, e \in Users, asked \in AskedRoles, i \in InviteIds :
          /\ invites[i].state = "free" /\ \A s \in Reqs : req[s].inv # i
          /\ Begin(r, [Idle EXCEPT !.pc = "authMember", !.op = "invite", !.actor = u, !.inv = i,
                                   !.email = e, !.role = NormalizeRole(asked)])
    BY <1>4 DEF BeginInvite
  <2>2. req'[r].op = "invite" /\ req'[r].inv = i
    <3> DEFINE new == [Idle EXCEPT !.pc = "authMember", !.op = "invite", !.actor = u, !.inv = i,
                                   !.email = e, !.role = NormalizeRole(asked)]
    <3>1. new.op = "invite" /\ new.inv = i
      BY DEF Idle
    <3> HIDE DEF new
    <3>2. req'[r] = new
      BY <1>2, <2>1 DEF new
    <3> QED  BY <3>1, <3>2
  <2>3. invites' = invites /\ OthersStay(r) /\ MembersWereInvited'
    BY <1>2, <2>1
  <2>4. Invited(r)'
    BY <2>1, <2>2, <2>3 DEF Invited, OthersStay
  <2>5. ASSUME NEW s \in Reqs \ {r} PROVE Invited(s)'
    <3>1. req'[s] = req[s] /\ Invited(s) /\ req[s].inv # i
      BY <2>1, <2>3 DEF OthersStay, AllInvited
    <3>2. \A x \in Reqs \ {s} : req'[x].inv \in {req[x].inv, i}
      BY <2>2, <2>3 DEF OthersStay
    <3> QED  BY <2>3, <3>1, <3>2 DEF Invited
  <2> QED  BY <2>3, <2>4, <2>5 DEF AllInvited
<1>5. CASE BeginAccept(r)
  <2>1. PICK i \in InviteIds :
          /\ invites[i].state # "free"
          /\ Begin(r, [Idle EXCEPT !.pc = "readInvitation", !.op = "acceptInvitation", !.inv = i])
    BY <1>5 DEF BeginAccept
  <2>2. req'[r].op = "acceptInvitation" /\ req'[r].inv = i /\ req'[r].pc = "readInvitation"
    <3> DEFINE new == [Idle EXCEPT !.pc = "readInvitation", !.op = "acceptInvitation", !.inv = i]
    <3>1. new.op = "acceptInvitation" /\ new.inv = i /\ new.pc = "readInvitation"
      BY DEF Idle
    <3> HIDE DEF new
    <3>2. req'[r] = new
      BY <1>2, <2>1 DEF new
    <3> QED  BY <3>1, <3>2
  <2>3. invites' = invites /\ OthersStay(r) /\ MembersWereInvited'
    BY <1>2, <2>1
  <2>4. Invited(r)'
    BY <2>1, <2>2, <2>3 DEF Invited
  <2>5. ASSUME NEW s \in Reqs \ {r} PROVE Invited(s)'
    <3>1. req'[s] = req[s] /\ Invited(s)
      BY <2>3 DEF OthersStay, AllInvited
    <3>2. req[s].op = "invite" /\ req[s].pc # "audit" => req[s].inv # i
      BY <2>1, <3>1 DEF Invited
    <3>3. \A x \in Reqs \ {s} : req'[x].inv \in {req[x].inv, i}
      BY <2>2, <2>3 DEF OthersStay
    <3> QED  BY <2>3, <3>1, <3>2, <3>3 DEF Invited
  <2> QED  BY <2>3, <2>4, <2>5 DEF AllInvited
<1>6. CASE BeginUpdateRole(r)
  <2>1. PICK u \in Users, asked \in AskedRoles, m \in MemberIds :
          Begin(r, [Idle EXCEPT !.pc = "authMember", !.op = "updateMemberRole", !.actor = u,
                                !.target = m, !.role = NormalizeRole(asked)])
    BY <1>6 DEF BeginUpdateRole
  <2> DEFINE new == [Idle EXCEPT !.pc = "authMember", !.op = "updateMemberRole", !.actor = u,
                                 !.target = m, !.role = NormalizeRole(asked)]
  <2>2. new.inv = None /\ new.op \notin {"invite", "acceptInvitation"}
    BY DEF Idle
  <2> HIDE DEF new
  <2> QED  BY <1>3, <2>1, <2>2 DEF new
<1>7. CASE BeginOnMember(r)
  <2>1. PICK u \in Users, m \in MemberIds, op \in {"removeMember", "transferOwnership"} :
          Begin(r, [Idle EXCEPT !.pc = "authMember", !.op = op, !.actor = u, !.target = m])
    BY <1>7 DEF BeginOnMember
  <2> DEFINE new == [Idle EXCEPT !.pc = "authMember", !.op = op, !.actor = u, !.target = m]
  <2>2. new.inv = None /\ new.op \notin {"invite", "acceptInvitation"}
    BY DEF Idle
  <2> HIDE DEF new
  <2> QED  BY <1>3, <2>1, <2>2 DEF new
<1>8. CASE BeginLifecycle(r)
  <2>1. PICK u \in Users, op \in LifecycleOps :
          Begin(r, [Idle EXCEPT !.pc = "authMember", !.op = op, !.actor = u,
                                !.held = legalHold /\ op = "requestTenantDeletion"])
    BY <1>8 DEF BeginLifecycle
  <2> DEFINE new == [Idle EXCEPT !.pc = "authMember", !.op = op, !.actor = u,
                                 !.held = legalHold /\ op = "requestTenantDeletion"]
  <2>2. new.inv = None /\ new.op \notin {"invite", "acceptInvitation"}
    BY DEF Idle, LifecycleOps
  <2> HIDE DEF new
  <2> QED  BY <1>3, <2>1, <2>2 DEF new
<1> QED  BY <1>4, <1>5, <1>6, <1>7, <1>8 DEF Arrive

LEMMA InitInvited == Init => AllInvited
<1> SUFFICES ASSUME Init PROVE AllInvited
  OBVIOUS
<1>1. ASSUME NEW r \in Reqs PROVE Invited(r)
  <2>1. req[r] = Idle
    BY DEF Init
  <2> QED  BY <2>1 DEF Invited, Idle
<1>2. PICK seat \in [Seated -> MemberIds] :
        rows = [m \in MemberIds |->
                    IF \E u \in Seated : seat[u] = m
                    THEN LET u == CHOOSE v \in Seated : seat[v] = m IN
                           [state |-> "live", email |-> u, role |-> Seats[u],
                            status |-> "active"]
                    ELSE FreeRow]
  BY DEF Init
<1>3. ASSUME NEW m \in Live PROVE rows[m].email \in Seated
  <2>1. m \in MemberIds /\ rows[m].state = "live"
    BY DEF Live
  <2>2. \E u \in Seated : seat[u] = m
    BY <1>2, <2>1 DEF FreeRow
  <2>3. PICK u \in Seated : u = CHOOSE v \in Seated : seat[v] = m
    BY <2>2
  <2>4. rows[m] = [state |-> "live", email |-> u, role |-> Seats[u], status |-> "active"]
    BY <1>2, <2>1, <2>2, <2>3
  <2> QED  BY <2>4
<1> QED  BY <1>1, <1>3 DEF AllInvited, MembersWereInvited

LEMMA NextInvited == ASSUME IInv, AllInvited, [Next]_vars PROVE AllInvited'
<1>1. IInv'
  BY NextInv
<1>2. CASE UNCHANGED vars
  BY <1>2 DEF vars, AllInvited, MembersWereInvited, Live, Invited
<1>3. ASSUME NEW r \in Reqs, Arrive(r) PROVE AllInvited'
  BY <1>1, <1>3, ArriveInvited
<1>4. ASSUME NEW r \in Reqs, Proceed(r) PROVE AllInvited'
  <2>1. CASE InsertInvitation(r)
    BY <1>1, <2>1, InsertInvited
  <2>2. CASE ~InsertInvitation(r)
    <3>1. TokensStay
      BY <1>4, <2>2, TokensOnward
    <3>2. \A s \in Reqs : Invited(s)'
      BY <1>1, <1>4, <2>2, <3>1, Onward, OnwardInvited, ReadInvited
    <3>3. MembersWereInvited'
      <4>1. CASE AcceptInsert(r)
        BY <4>1, InsertedWasInvited
      <4>2. CASE ~AcceptInsert(r)
        <5>1. NoNewMember
          BY <1>4, <4>2, RowsOnward
        <5> QED  BY <3>1, <5>1, NoNewMemberKeeps DEF TokensStay, AllInvited
      <4> QED  BY <4>1, <4>2
    <3> QED  BY <3>2, <3>3 DEF AllInvited
  <2> QED  BY <2>1, <2>2
<1>5. ASSUME NEW r \in Reqs, Abort(r) PROVE AllInvited'
  <2>1. Finish(r) /\ rows' = rows /\ invites' = invites
    BY <1>5 DEF Abort, ReadOnly
  <2>2. TokensStay /\ NoNewMember
    BY <2>1 DEF TokensStay, NoNewMember
  <2>3. MembersWereInvited'
    BY <2>1, <2>2, NoNewMemberKeeps DEF AllInvited
  <2> QED  BY <1>1, <2>1, <2>2, <2>3, OnwardInvited DEF AllInvited
<1>6. ASSUME NEW i \in InviteIds, ExpireInvitation(i) PROVE AllInvited'
  <2>1. invites' = [invites EXCEPT ![i].expired = TRUE] /\ rows' = rows /\ req' = req
    BY <1>6 DEF ExpireInvitation
  <2>2. invites \in [InviteIds -> Invitation]
    BY DEF IInv, TypeOK
  <2>3. \A j \in InviteIds : invites'[j].state = invites[j].state /\ invites'[j].email = invites[j].email
    BY <2>1, <2>2 DEF Invitation
  <2>4. \A s \in Reqs : Invited(s)'
    BY <2>1, <2>3 DEF AllInvited, Invited
  <2>5. MembersWereInvited'
    BY <2>1, <2>3 DEF AllInvited, MembersWereInvited, Live
  <2> QED  BY <2>4, <2>5 DEF AllInvited
<1>7. ASSUME NEW r \in Reqs, ChangeHold(r) PROVE AllInvited'
  <2>1. UNCHANGED <<rows, invites>>
        /\ \A s \in Reqs : req'[s].pc = req[s].pc /\ req'[s].op = req[s].op
                          /\ req'[s].inv = req[s].inv /\ req'[s].email = req[s].email
    BY <1>7, HoldFields DEF IInv
  <2>2. \A s \in Reqs : Invited(s)'
    BY <2>1 DEF AllInvited, Invited
  <2>3. MembersWereInvited'
    BY <2>1 DEF AllInvited, MembersWereInvited, Live
  <2> QED  BY <2>2, <2>3 DEF AllInvited
<1> QED  BY <1>2, <1>3, <1>4, <1>5, <1>6, <1>7 DEF Next

\* Nobody is a member who was not there at the start or invited, however
\* invitations, acceptances and removals overlap and wherever they stop.
THEOREM MembersInvited == Spec => []MembersWereInvited
<1>1. Init => IInv /\ AllInvited
  BY InitInv, InitInvited
<1>2. IInv /\ AllInvited /\ [Next]_vars => IInv' /\ AllInvited'
  BY NextInv, NextInvited
<1>3. AllInvited => MembersWereInvited
  BY DEF AllInvited
<1> QED  BY <1>1, <1>2, <1>3, PTL DEF Spec

-----------------------------------------------------------------------------
(***************************************************************************)
(* What TenantManagement keeps when one request runs at a time, wherever a *)
(* request may be cut short: it implements the lifecycle policy, its audit *)
(* rows are true and its last owner stays.  With two requests the last     *)
(* owner may go: run last_owner_race.                                      *)
(***************************************************************************)

OneAtATime == \A r, s \in Reqs : r = s

\* What the lifecycle request in flight has seen is still so.
StillSeen(r) ==
  /\ req[r].op \in LifecycleOps \ {"reactivateTenant"} /\ req[r].pc \in {"readTenant", "write"}
       => status = "active"
  /\ req[r].op = "reactivateTenant" /\ req[r].pc = "write"
       => status \notin {"pending_deletion", "deleted"}
  /\ req[r].op = "requestTenantDeletion" /\ req[r].pc = "write" => ~legalHold

SerialInv == IInv /\ \A r \in Reqs : StillSeen(r)

\* Only AuthoriseStatus and ReadTenant bring a lifecycle request to a phase
\* that relies on the status.
LEMMA ReachesReadTenant ==
  ASSUME IInv, NEW r \in Reqs, Proceed(r), ~AuthoriseStatus(r), ~ReadTenant(r),
         req'[r].op \in LifecycleOps
  PROVE  req'[r].pc \notin {"readTenant", "write"}
<1>1. TypeOK /\ RequestInv(r) /\ req[r] \in Request
  BY DEF IInv, TypeOK
<1>2. ASSUME Finish(r) PROVE FALSE
  <2>1. req'[r] = Idle
    BY <1>1, <1>2 DEF TypeOK, Finish
  <2> QED BY <2>1 DEF Idle, LifecycleOps
<1>3. ASSUME NEW phase, Goto(r, phase)
      PROVE  req'[r].pc = phase /\ req'[r].op = req[r].op
  BY <1>1, <1>3 DEF TypeOK, Goto, Request
<1>4. ASSUME req[r].op \notin LifecycleOps, req'[r].op = req[r].op PROVE FALSE
  BY <1>4
<1>5. CASE AuthoriseMember(r)
  <2>1. PICK m : req' = [req EXCEPT ![r].pc = "authStatus", ![r].seen = rows[m].role]
    BY <1>2, <1>5 DEF AuthoriseMember
  <2>2. req'[r].pc = "authStatus"
    BY <1>1, <2>1 DEF TypeOK, Request
  <2> QED BY <2>2
<1>6. CASE InsertInvitation(r)
  BY <1>2, <1>3, <1>6 DEF InsertInvitation
<1>7. CASE ReadInvitation(r)
  <2>1. req[r].op = "acceptInvitation"
    BY <1>1, <1>7 DEF ReadInvitation, RequestInv, PhaseInv
  <2>2. PICK e, role : req' = [req EXCEPT ![r].pc = "readExisting", ![r].email = e, ![r].role = role]
    BY <1>2, <1>7 DEF ReadInvitation
  <2>3. req'[r].pc = "readExisting"
    BY <1>1, <2>2 DEF TypeOK, Request
  <2> QED BY <2>3
<1>8. CASE ReadExistingMember(r)
  <2>1. req[r].op = "acceptInvitation"
    BY <1>1, <1>8 DEF ReadExistingMember, RequestInv, PhaseInv
  <2>2. CASE Goto(r, "write")
    BY <1>3, <1>4, <2>1, <2>2 DEF LifecycleOps
  <2>3. ASSUME NEW m, req' = [req EXCEPT ![r].pc = "write", ![r].target = m] PROVE FALSE
    <3>1. req'[r].op = req[r].op
      BY <1>1, <2>3 DEF TypeOK, Request
    <3> QED BY <1>4, <2>1, <3>1 DEF LifecycleOps
  <2> QED BY <1>8, <2>2, <2>3 DEF ReadExistingMember
<1>9. CASE AcceptUpdate(r) \/ AcceptInsert(r) \/ MarkAccepted(r)
  BY <1>2, <1>3, <1>9 DEF AcceptUpdate, AcceptInsert, MarkAccepted
<1>10. CASE ReadMember(r) \/ CountOwners(r)
  <2>1. req[r].op \notin LifecycleOps
    BY <1>1, <1>10 DEF ReadMember, CountOwners, RequestInv, PhaseInv, LifecycleOps
  <2>2. PICK phase : Goto(r, phase)
    BY <1>2, <1>10 DEF ReadMember, CountOwners
  <2> QED BY <1>3, <1>4, <2>1, <2>2
<1>11. CASE WriteRole(r) \/ DeleteMember(r) \/ WriteTransfer(r) \/ WriteMembers(r)
  BY <1>3, <1>11 DEF WriteRole, DeleteMember, WriteTransfer, WriteMembers
<1>12. CASE ReadActor(r)
  <2>1. PICK m : req' = [req EXCEPT ![r].pc = "readTarget", ![r].source = m]
    BY <1>2, <1>12 DEF ReadActor
  <2>2. req'[r].pc = "readTarget"
    BY <1>1, <2>1 DEF TypeOK, Request
  <2> QED BY <2>2
<1>13. CASE ReadTarget(r)
  <2>1. req[r].op \notin LifecycleOps /\ Goto(r, "write")
    BY <1>1, <1>2, <1>13 DEF ReadTarget, RequestInv, PhaseInv, LifecycleOps
  <2> QED BY <1>3, <1>4, <2>1
<1>14. CASE WriteStatus(r)
  <2>1. PICK phase \in {"writeMembers", "audit"} : Goto(r, phase)
    BY <1>14 DEF WriteStatus
  <2> QED BY <1>3, <2>1
<1>15. CASE RecordEvent(r)
  BY <1>2, <1>15 DEF RecordEvent
<1> QED BY <1>5, <1>6, <1>7, <1>8, <1>9, <1>10, <1>11, <1>12, <1>13, <1>14, <1>15 DEF Proceed

\* A request that arrives has read nothing yet.
LEMMA ArriveStarts ==
  ASSUME TypeOK, NEW r \in Reqs, Arrive(r)
  PROVE  /\ req'[r].pc \in {"authMember", "readInvitation"}
         /\ ~BeginAccept(r) => req'[r].pc = "authMember"
<1>1. ASSUME NEW new, Begin(r, new) PROVE req'[r] = new
  BY <1>1 DEF TypeOK, Begin
<1>2. CASE BeginInvite(r)
  <2>1. PICK u, e \in Users, asked \in AskedRoles, i \in InviteIds :
          Begin(r, [Idle EXCEPT !.pc = "authMember", !.op = "invite", !.actor = u, !.inv = i,
                                !.email = e, !.role = NormalizeRole(asked)])
    BY <1>2 DEF BeginInvite
  <2>2. req'[r].pc = "authMember"
    BY <1>1, <2>1 DEF Idle
  <2> QED BY <2>2
<1>3. CASE BeginUpdateRole(r)
  <2>1. PICK u \in Users, asked \in AskedRoles, m \in MemberIds :
          Begin(r, [Idle EXCEPT !.pc = "authMember", !.op = "updateMemberRole", !.actor = u,
                                !.target = m, !.role = NormalizeRole(asked)])
    BY <1>3 DEF BeginUpdateRole
  <2>2. req'[r].pc = "authMember"
    BY <1>1, <2>1 DEF Idle
  <2> QED BY <2>2
<1>4. CASE BeginOnMember(r)
  <2>1. PICK u \in Users, m \in MemberIds, op \in {"removeMember", "transferOwnership"} :
          Begin(r, [Idle EXCEPT !.pc = "authMember", !.op = op, !.actor = u, !.target = m])
    BY <1>4 DEF BeginOnMember
  <2>2. req'[r].pc = "authMember"
    BY <1>1, <2>1 DEF Idle
  <2> QED BY <2>2
<1>5. CASE BeginLifecycle(r)
  <2>1. PICK u \in Users, op \in LifecycleOps :
          Begin(r, [Idle EXCEPT !.pc = "authMember", !.op = op, !.actor = u,
                                !.held = legalHold /\ op = "requestTenantDeletion"])
    BY <1>5 DEF BeginLifecycle
  <2>2. req'[r].pc = "authMember"
    BY <1>1, <2>1 DEF Idle
  <2> QED BY <2>2
<1>6. CASE BeginAccept(r)
  <2>1. PICK i \in InviteIds :
          Begin(r, [Idle EXCEPT !.pc = "readInvitation", !.op = "acceptInvitation", !.inv = i])
    BY <1>6 DEF BeginAccept
  <2>2. req'[r].pc = "readInvitation"
    BY <1>1, <2>1 DEF Idle
  <2> QED BY <1>6, <2>2
<1> QED BY <1>2, <1>3, <1>4, <1>5, <1>6 DEF Arrive

\* One at a time, the status a request has checked is the status it writes over.
LEMMA SerialStep ==
  ASSUME OneAtATime, SerialInv, [Next]_vars
  PROVE  SerialInv'
<1>1. IInv /\ IInv' /\ TypeOK
  BY NextInv DEF SerialInv, IInv
<1> SUFFICES ASSUME NEW r \in Reqs PROVE StillSeen(r)'
  BY <1>1 DEF SerialInv
<1>2. StillSeen(r) /\ RequestInv(r) /\ req[r] \in Request
  BY <1>1 DEF SerialInv, IInv, TypeOK
<1>3. CASE UNCHANGED <<status, legalHold, req>>
  BY <1>2, <1>3 DEF StillSeen
<1>4. CASE UNCHANGED vars
  BY <1>3, <1>4 DEF vars
<1>5. ASSUME NEW i \in InviteIds, ExpireInvitation(i) PROVE StillSeen(r)'
  BY <1>3, <1>5 DEF ExpireInvitation, tenantVars
<1>6. CASE Finish(r)
  <2>1. req'[r] = Idle
    BY <1>1, <1>6 DEF TypeOK, Finish
  <2> QED BY <2>1 DEF StillSeen, Idle, LifecycleOps
<1>7. CASE Arrive(r)
  <2>1. req'[r].pc \in {"authMember", "readInvitation"}
    BY <1>1, <1>7, ArriveStarts
  <2> QED BY <2>1 DEF StillSeen
<1>8. CASE AuthoriseStatus(r)
  <2>1. UNCHANGED status /\ req[r].pc = "authStatus"
    BY <1>8 DEF AuthoriseStatus, ReadOnly, tenantVars
  <2>2. CASE Authorised(r) /\ ~Finish(r)
    <3>1. req'[r].pc = FirstPhase(req[r].op) /\ req'[r].op = req[r].op
      BY <1>1, <1>2, <1>8, <2>2 DEF AuthoriseStatus, TypeOK, Request
    <3>2. req[r].op = "reactivateTenant" \/ status = "active"
      BY <1>1, <2>2 DEF Authorised, IsTenantAccessBlocked, TypeOK, TenantStatus
    <3>3. req[r].op \in LifecycleOps => FirstPhase(req[r].op) = "readTenant"
      BY FirstPhaseValue
    <3> QED BY <2>1, <3>1, <3>2, <3>3 DEF StillSeen, LifecycleOps
  <2> QED BY <1>6, <1>8, <2>2 DEF AuthoriseStatus
<1>9. CASE ReadTenant(r)
  <2>1. UNCHANGED <<status, legalHold>> /\ req[r].pc = "readTenant"
    BY <1>9 DEF ReadTenant, ReadOnly, tenantVars
  <2>2. CASE /\ Goto(r, "write")
             /\ req[r].op = "reactivateTenant" => status \notin {"pending_deletion", "deleted"}
             /\ req[r].op = "requestTenantDeletion" => ~legalHold
    <3>1. req'[r].op = req[r].op
      BY <1>1, <1>2, <2>2 DEF Goto, TypeOK, Request
    <3> QED BY <1>2, <2>1, <2>2, <3>1 DEF StillSeen
  <2> QED BY <1>6, <1>9, <2>2 DEF ReadTenant
<1>10. CASE Proceed(r) /\ ~AuthoriseStatus(r) /\ ~ReadTenant(r)
  <2>1. req'[r].op \in LifecycleOps => req'[r].pc \notin {"readTenant", "write"}
    BY <1>1, <1>10, ReachesReadTenant
  <2> QED BY <2>1 DEF StillSeen, LifecycleOps
<1>11. CASE Abort(r)
  BY <1>6, <1>11 DEF Abort
<1>12. CASE ChangeHold(r)
  <2>1. req'[r].pc = "idle"
    BY <1>1, <1>12, HoldFields DEF ChangeHold
  <2> QED BY <2>1 DEF StillSeen
<1> QED BY <1>4, <1>5, <1>7, <1>8, <1>9, <1>10, <1>11, <1>12 DEF OneAtATime, Next

\* Only operators write the hold.
LEMMA HoldWrites ==
  ASSUME Next, legalHold' # legalHold
  PROVE  \E r \in Reqs : ChangeHold(r)
<1>1. ASSUME NEW r \in Reqs, Proceed(r) PROVE legalHold' = legalHold
  BY <1>1 DEF Proceed, ReadOnly, tenantVars, AuthoriseMember, AuthoriseStatus,
       InsertInvitation, ReadInvitation, ReadExistingMember, AcceptUpdate, AcceptInsert,
       MarkAccepted, ReadMember, CountOwners, WriteRole, DeleteMember, ReadActor,
       ReadTarget, WriteTransfer, ReadTenant, WriteStatus, WriteMembers, RecordEvent
<1>2. ASSUME NEW r \in Reqs, Arrive(r) PROVE legalHold' = legalHold
  BY <1>2 DEF Arrive, BeginInvite, BeginUpdateRole, BeginOnMember, BeginLifecycle,
       BeginAccept, Begin, tenantVars
<1>3. ASSUME NEW r \in Reqs, Abort(r) PROVE legalHold' = legalHold
  BY <1>3 DEF Abort, ReadOnly, tenantVars
<1>4. ASSUME NEW i \in InviteIds, ExpireInvitation(i) PROVE legalHold' = legalHold
  BY <1>4 DEF ExpireInvitation, tenantVars
<1> QED BY <1>1, <1>2, <1>3, <1>4 DEF Next

\* Every step of a request is a step of the policy, or none.
LEMMA SerialRefines ==
  ASSUME SerialInv, [Next]_vars
  PROVE  [Lifecycle!LNext]_(Lifecycle!lifecycleVars)
<1>1. TypeOK /\ \A r \in Reqs : StillSeen(r) /\ RequestInv(r)
  BY DEF SerialInv, IInv
<1>2. CASE UNCHANGED tenantVars
  BY <1>2 DEF tenantVars, Lifecycle!lifecycleVars
<1>3. ASSUME NEW r \in Reqs, WriteStatus(r) PROVE Lifecycle!LNext
  <2>1. /\ req[r].pc = "write" /\ req[r].op \in LifecycleOps
        /\ status' = NewStatus(req[r].op)
        /\ scheduledPurge' = (scheduledPurge \/ req[r].op = "requestTenantDeletion")
        /\ legalHold' = legalHold
    BY <1>3 DEF WriteStatus
  <2>2. req[r].op # "requestTenantDeletion" => scheduledPurge' = scheduledPurge
    BY <1>1, <2>1 DEF TypeOK
  <2>3. req[r].op # "reactivateTenant" => status = "active"
    BY <1>1, <2>1 DEF StillSeen
  <2>4. CASE req[r].op = "deactivateTenant"
    <3>1. status' = "inactive"
      BY <2>1, <2>4, NewStatusOf
    <3> QED BY <2>1, <2>2, <2>3, <2>4, <3>1 DEF Lifecycle!LNext, Lifecycle!Deactivate
  <2>5. CASE req[r].op = "suspendTenant"
    <3>1. status' = "suspended"
      BY <2>1, <2>5, NewStatusOf
    <3> QED BY <2>1, <2>2, <2>3, <2>5, <3>1 DEF Lifecycle!LNext, Lifecycle!Suspend
  <2>6. CASE req[r].op = "reactivateTenant"
    <3>1. status' = "active"
      BY <2>1, <2>6, NewStatusOf
    <3>2. status \in {"active", "suspended", "inactive"}
      BY <1>1, <2>1, <2>6 DEF StillSeen, TypeOK, TenantStatus
    <3> QED BY <2>1, <2>2, <2>6, <3>1, <3>2 DEF Lifecycle!LNext, Lifecycle!Reactivate
  <2>7. CASE req[r].op = "requestTenantDeletion"
    <3>1. status' = "pending_deletion"
      BY <2>1, <2>7, NewStatusOf
    <3>2. scheduledPurge' = TRUE /\ ~legalHold
      BY <1>1, <2>1, <2>7 DEF StillSeen
    <3> QED BY <2>1, <2>3, <2>7, <3>1, <3>2 DEF Lifecycle!LNext, Lifecycle!RequestDeletion
  <2> QED BY <2>1, <2>4, <2>5, <2>6, <2>7 DEF LifecycleOps
<1>4. ASSUME NEW r \in Reqs, ChangeHold(r) PROVE Lifecycle!LNext
  <2>1. legalHold' = ~legalHold /\ UNCHANGED <<status, scheduledPurge>>
    BY <1>1, <1>4, HoldFields DEF ChangeHold, TypeOK
  <2> QED BY <2>1 DEF Lifecycle!LNext, Lifecycle!ChangeHold
<1>5. CASE Next /\ ~UNCHANGED tenantVars
  <2>1. CASE UNCHANGED <<status, scheduledPurge>>
    <3>1. legalHold' # legalHold
      BY <1>5, <2>1 DEF tenantVars
    <3> QED BY <1>4, <1>5, <3>1, HoldWrites
  <2>2. CASE ~UNCHANGED <<status, scheduledPurge>>
    BY <1>3, <1>5, <2>2, TenantWrites
  <2> QED BY <2>1, <2>2
<1> QED BY <1>2, <1>5 DEF vars, tenantVars

\* Requests that do not overlap implement the lifecycle policy, whichever of
\* them are cut short.
THEOREM SerialLifecycle ==
  ASSUME OneAtATime
  PROVE  Spec => ImplementsLifecycle
<1>1. Init => SerialInv
  <2> SUFFICES ASSUME Init, NEW r \in Reqs PROVE StillSeen(r)
    BY InitInv DEF SerialInv
  <2>1. req[r] = Idle
    BY DEF Init
  <2> QED BY <2>1 DEF StillSeen, Idle, LifecycleOps
<1>2. Init => Lifecycle!LInit
  BY FailAssumption DEF Init, Lifecycle!LInit
<1>3. SerialInv /\ [Next]_vars => SerialInv'
  BY SerialStep
<1>4. SerialInv /\ [Next]_vars => [Lifecycle!LNext]_(Lifecycle!lifecycleVars)
  BY SerialRefines
<1> QED BY <1>1, <1>2, <1>3, <1>4, PTL DEF Spec, ImplementsLifecycle, Lifecycle!LSpec

TakesOwner(r) == req[r].op \in {"updateMemberRole", "removeMember"} /\ TakesOwnerAway(r, req[r].target)

\* What the request in flight has read is still so, and what it has written
\* is there.
Sound(r) ==
  LET q == req[r] IN
  /\ q.op \in {"updateMemberRole", "removeMember"} /\ q.pc \in {"countOwners", "write"} => q.target \in Live
  /\ TakesOwner(r) /\ q.pc = "write" => OwnerRows \ {q.target} # {}
  /\ q.op = "transferOwnership" /\ q.pc \in {"readTarget", "write"} => q.source \in Live
  /\ q.op = "transferOwnership" /\ q.pc = "write" => q.target \in Live /\ q.target # q.source
  /\ q.op = "acceptInvitation" /\ q.pc \in {"readInvitation", "readExisting"} => q.target = None
  /\ q.op = "acceptInvitation" /\ q.pc = "write" /\ q.target # None => q.target \in RowsOf(q.email)
  /\ q.pc = "markAccepted" => RowsOf(q.email) # {}
  /\ q.pc = "writeMembers" => status = NewStatus(q.op)
  /\ q.pc = "audit" => Audited(r)

\* Before a method has read anything there is nothing to rely on.
LEMMA EarlySound ==
  ASSUME NEW r \in Reqs,
         req'[r].pc \in {"idle", "authMember", "authStatus", "readMember", "readActor", "readTenant"}
  PROVE  Sound(r)'
BY DEF Sound

LEMMA FinishSound == ASSUME TypeOK, NEW r \in Reqs, Finish(r) PROVE Sound(r)'
<1>1. req'[r] = Idle
  BY DEF TypeOK, Finish
<1>2. req'[r].pc = "idle"
  BY <1>1 DEF Idle
<1> QED  BY <1>2, EarlySound

LEMMA GotoFields ==
  ASSUME TypeOK, NEW r \in Reqs, NEW phase, Goto(r, phase)
  PROVE  /\ req'[r].pc = phase /\ req'[r].op = req[r].op /\ req'[r].role = req[r].role
         /\ req'[r].email = req[r].email /\ req'[r].inv = req[r].inv
         /\ req'[r].target = req[r].target /\ req'[r].source = req[r].source
BY DEF TypeOK, Goto, Request

\* The tables as they were.
LEMMA SameTables ==
  ASSUME UNCHANGED rows
  PROVE  Live' = Live /\ OwnerRows' = OwnerRows /\ \A u : RowsOf(u)' = RowsOf(u)
BY DEF Live, OwnerRows, RowsOf

LEMMA ReadsSound ==
  ASSUME IInv, NEW r \in Reqs, Sound(r), ReadOnly,
         \/ AuthoriseMember(r) \/ AuthoriseStatus(r) \/ ReadInvitation(r) \/ ReadExistingMember(r)
         \/ ReadActor(r) \/ ReadTarget(r) \/ ReadTenant(r) \/ RecordEvent(r)
  PROVE  Sound(r)'
<1>1. TypeOK /\ RequestInv(r) /\ req[r] \in Request
  BY DEF IInv, TypeOK
<1>2. rows' = rows /\ Live' = Live /\ \A u : RowsOf(u)' = RowsOf(u)
  BY SameTables DEF ReadOnly
<1>3. CASE Finish(r)
  BY <1>1, <1>3, FinishSound
<1>4. CASE AuthoriseMember(r)
  <2>1. ASSUME NEW m, req' = [req EXCEPT ![r].pc = "authStatus", ![r].seen = rows[m].role]
        PROVE  Sound(r)'
    <3>1. req'[r].pc = "authStatus"
      BY <1>1, <2>1 DEF TypeOK, Request
    <3> QED  BY <3>1, EarlySound
  <2> QED  BY <1>3, <1>4, <2>1 DEF AuthoriseMember
<1>5. CASE AuthoriseStatus(r)
  <2>1. CASE Authorised(r)
    <3>1. req'[r].pc = FirstPhase(req[r].op) /\ req'[r].op = req[r].op
      BY <1>1, <1>5, <2>1 DEF AuthoriseStatus, TypeOK, Request
    <3>2. req[r].op \in AllOps \ {"acceptInvitation"}
      BY <1>1, <1>5 DEF AuthoriseStatus, RequestInv, PhaseInv, Authorising, Request
    <3>3. CASE req[r].op = "invite"
      BY <3>1, <3>3, FirstPhaseValue DEF Sound, TakesOwner
    <3>4. CASE req[r].op # "invite"
      <4>1. FirstPhase(req[r].op) \in {"readMember", "readActor", "readTenant"}
        BY <3>2, <3>4, FirstPhaseValue DEF AllOps, LifecycleOps
      <4> QED  BY <3>1, <4>1, EarlySound
    <3> QED  BY <3>3, <3>4
  <2> QED  BY <1>3, <1>5, <2>1 DEF AuthoriseStatus
<1>6. CASE ReadInvitation(r)
  <2>1. req[r].op = "acceptInvitation" /\ req[r].target = None
    BY <1>1, <1>6 DEF ReadInvitation, RequestInv, PhaseInv, Sound
  <2>2. ASSUME NEW e, NEW role,
               req' = [req EXCEPT ![r].pc = "readExisting", ![r].email = e, ![r].role = role]
        PROVE  Sound(r)'
    <3>1. req'[r].pc = "readExisting" /\ req'[r].op = "acceptInvitation" /\ req'[r].target = None
      BY <1>1, <2>1, <2>2 DEF TypeOK, Request
    <3> QED  BY <3>1 DEF Sound, TakesOwner
  <2> QED  BY <1>3, <1>6, <2>2 DEF ReadInvitation
<1>7. CASE ReadExistingMember(r)
  <2>1. req[r].op = "acceptInvitation" /\ req[r].target = None
    BY <1>1, <1>7 DEF ReadExistingMember, RequestInv, PhaseInv, Sound
  <2>2. ASSUME NEW m \in RowsOf(req[r].email), req' = [req EXCEPT ![r].pc = "write", ![r].target = m]
        PROVE  Sound(r)'
    <3>1. /\ req'[r].pc = "write" /\ req'[r].op = "acceptInvitation" /\ req'[r].target = m
          /\ req'[r].email = req[r].email
      BY <1>1, <2>1, <2>2 DEF TypeOK, Request
    <3>2. m \in Live' /\ rows'[m].email = req'[r].email
      BY <1>2, <2>2, <3>1 DEF RowsOf
    <3> QED  BY <3>1, <3>2 DEF Sound, TakesOwner, RowsOf
  <2>3. CASE Goto(r, "write")
    <3>1. req'[r].pc = "write" /\ req'[r].op = "acceptInvitation" /\ req'[r].target = None
      BY <1>1, <2>1, <2>3, GotoFields
    <3> QED  BY <3>1 DEF Sound, TakesOwner
  <2> QED  BY <1>7, <2>2, <2>3 DEF ReadExistingMember
<1>8. CASE ReadActor(r)
  <2>1. req[r].op = "transferOwnership"
    BY <1>1, <1>8 DEF ReadActor, RequestInv, PhaseInv
  <2>2. ASSUME NEW m \in ActiveOwners, req' = [req EXCEPT ![r].pc = "readTarget", ![r].source = m]
        PROVE  Sound(r)'
    <3>1. req'[r].pc = "readTarget" /\ req'[r].op = "transferOwnership" /\ req'[r].source = m
      BY <1>1, <2>1, <2>2 DEF TypeOK, Request
    <3>2. m \in Live'
      BY <1>2 DEF ActiveOwners, OwnerRows
    <3> QED  BY <3>1, <3>2 DEF Sound, TakesOwner
  <2> QED  BY <1>3, <1>8, <2>2 DEF ReadActor
<1>9. CASE ReadTarget(r)
  <2>1. req[r].op = "transferOwnership" /\ req[r].source \in Live
    BY <1>1, <1>9 DEF ReadTarget, RequestInv, PhaseInv, Sound
  <2>2. ASSUME req[r].target \in LiveActive \ {req[r].source}, Goto(r, "write")
        PROVE  Sound(r)'
    <3>1. /\ req'[r].pc = "write" /\ req'[r].op = "transferOwnership"
          /\ req'[r].target = req[r].target /\ req'[r].source = req[r].source
      BY <1>1, <2>1, <2>2, GotoFields
    <3>2. req[r].target \in Live
      BY <2>2 DEF LiveActive
    <3> QED  BY <1>2, <2>1, <2>2, <3>1, <3>2 DEF Sound, TakesOwner
  <2> QED  BY <1>3, <1>9, <2>2 DEF ReadTarget
<1>10. CASE ReadTenant(r)
  <2>1. req[r].op \in LifecycleOps
    BY <1>1, <1>10 DEF ReadTenant, RequestInv, PhaseInv
  <2>2. CASE Goto(r, "write")
    <3>1. req'[r].pc = "write" /\ req'[r].op \in LifecycleOps
      BY <1>1, <2>1, <2>2, GotoFields
    <3> QED  BY <3>1 DEF Sound, TakesOwner, LifecycleOps
  <2> QED  BY <1>3, <1>10, <2>2 DEF ReadTenant
<1>11. CASE RecordEvent(r)
  BY <1>3, <1>11 DEF RecordEvent
<1> QED  BY <1>4, <1>5, <1>6, <1>7, <1>8, <1>9, <1>10, <1>11

\* Of two active owners one stays, whoever else goes.
LEMMA OneStays ==
  ASSUME NEW m, ~(Cardinality(ActiveOwners) <= 1)
  PROVE  OwnerRows \ {m} # {}
<1> SUFFICES ASSUME OwnerRows \subseteq {m} PROVE FALSE
  OBVIOUS
<1>1. IsFiniteSet({m}) /\ Cardinality({m}) = 1
  BY FS_Singleton
<1>2. ActiveOwners \in SUBSET {m}
  BY DEF ActiveOwners
<1>3. Cardinality(ActiveOwners) <= 1
  <2>1. Cardinality(ActiveOwners) <= Cardinality({m})
    BY <1>1, <1>2, FS_Subset
  <2> QED  BY <1>1, <2>1
<1> QED  BY <1>3

LEMMA MemberReadsSound ==
  ASSUME IInv, NEW r \in Reqs, Sound(r), ReadMember(r) \/ CountOwners(r)
  PROVE  Sound(r)'
<1>1. TypeOK /\ RequestInv(r) /\ req[r] \in Request
  BY DEF IInv, TypeOK
<1>2. rows' = rows /\ Live' = Live /\ OwnerRows' = OwnerRows
  BY SameTables DEF ReadOnly, ReadMember, CountOwners
<1>3. CASE Finish(r)
  BY <1>1, <1>3, FinishSound
<1>4. req[r].op \in {"updateMemberRole", "removeMember"} /\ req[r].target \in MemberIds
  BY <1>1 DEF ReadMember, CountOwners, RequestInv, PhaseInv, Request
<1>5. ASSUME NEW phase \in {"countOwners", "write"}, Goto(r, phase), req[r].target \in Live,
             phase = "write" /\ TakesOwnerAway(r, req[r].target) => OwnerRows \ {req[r].target} # {}
      PROVE  Sound(r)'
  <2>1. /\ req'[r].pc = phase /\ req'[r].op = req[r].op /\ req'[r].role = req[r].role
        /\ req'[r].target = req[r].target
    BY <1>1, <1>5, GotoFields
  <2>2. TakesOwner(r)' => TakesOwnerAway(r, req[r].target)
    BY <1>2, <2>1 DEF TakesOwner, TakesOwnerAway
  <2> QED  BY <1>2, <1>4, <1>5, <2>1, <2>2 DEF Sound
<1>6. CASE ReadMember(r)
  BY <1>3, <1>4, <1>5, <1>6 DEF ReadMember, Live
<1>7. CASE CountOwners(r)
  <2>1. req[r].target \in Live
    BY <1>4, <1>7 DEF CountOwners, Sound
  <2> QED  BY <1>3, <1>5, <1>7, <2>1, OneStays DEF CountOwners
<1> QED  BY <1>6, <1>7

LEMMA InsertSound == ASSUME IInv, NEW r \in Reqs, InsertInvitation(r) PROVE Sound(r)'
<1>1. TypeOK
  BY DEF IInv
<1>2. CASE Goto(r, "audit")
  <2>1. req'[r].pc = "audit" /\ req'[r].op = "invite"
    BY <1>1, <1>2, GotoFields DEF InsertInvitation
  <2> QED  BY <2>1 DEF Sound, Audited, TakesOwner, LifecycleOps
<1> QED  BY <1>1, <1>2, FinishSound DEF InsertInvitation

LEMMA AcceptSound ==
  ASSUME IInv, NEW r \in Reqs, Sound(r), AcceptUpdate(r) \/ AcceptInsert(r) \/ MarkAccepted(r)
  PROVE  Sound(r)'
<1>1. TypeOK /\ RequestInv(r) /\ req[r] \in Request
  BY DEF IInv, TypeOK
<1>2. req[r].op = "acceptInvitation"
  BY <1>1 DEF AcceptUpdate, AcceptInsert, MarkAccepted, RequestInv, PhaseInv
<1>3. ASSUME Goto(r, "markAccepted"), NEW m \in MemberIds, rows'[m].state = "live", rows'[m].email = req[r].email
      PROVE  Sound(r)'
  <2>1. /\ req'[r].pc = "markAccepted" /\ req'[r].op = "acceptInvitation" /\ req'[r].email = req[r].email
    BY <1>1, <1>2, <1>3, GotoFields
  <2>2. m \in Live' /\ rows'[m].email = req'[r].email
    BY <1>3, <2>1 DEF Live
  <2> QED  BY <2>1, <2>2 DEF Sound, TakesOwner, RowsOf
<1>4. CASE AcceptUpdate(r)
  <2> DEFINE m == req[r].target
  <2>1. m \in MemberIds /\ rows[m].state = "live" /\ rows[m].email = req[r].email
    BY <1>2, <1>4 DEF AcceptUpdate, Sound, RowsOf, Live
  <2>2. SetRow(m, req[r].role, "active") /\ Goto(r, "markAccepted")
    BY <1>4 DEF AcceptUpdate
  <2>3. req[r].role \in TenantRoles
    BY <1>1 DEF Request
  <2>4. rows'[m].state = rows[m].state /\ rows'[m].email = rows[m].email
    BY <1>1, <2>1, <2>2, <2>3, SetRowFact
  <2> QED  BY <1>3, <2>1, <2>2, <2>4
<1>5. CASE AcceptInsert(r)
  <2>1. ASSUME NEW m \in MemberIds,
               rows' = [rows EXCEPT ![m] = [state |-> "live", email |-> req[r].email,
                                            role |-> req[r].role, status |-> "active"]],
               Goto(r, "markAccepted")
        PROVE  Sound(r)'
    <3>1. rows'[m].state = "live" /\ rows'[m].email = req[r].email
      BY <1>1, <2>1 DEF TypeOK
    <3> QED  BY <1>3, <2>1, <3>1
  <2> QED  BY <1>1, <1>5, <2>1, FinishSound DEF AcceptInsert
<1>6. CASE MarkAccepted(r)
  <2>1. /\ invites' = [invites EXCEPT ![req[r].inv].state = "accepted"] /\ rows' = rows
        /\ Goto(r, "audit") /\ RowsOf(req[r].email) # {}
    BY <1>6 DEF MarkAccepted, Sound
  <2>2. /\ req'[r].pc = "audit" /\ req'[r].op = "acceptInvitation" /\ req'[r].email = req[r].email
        /\ req'[r].inv = req[r].inv
    BY <1>1, <1>2, <2>1, GotoFields
  <2>3. req[r].inv \in InviteIds
    BY <1>1, <1>2 DEF RequestInv, Request
  <2>4. invites'[req[r].inv].state = "accepted"
    BY <1>1, <2>1, <2>3 DEF TypeOK, Invitation
  <2>5. PICK m \in Live : rows[m].email = req[r].email
    BY <2>1 DEF RowsOf
  <2>6. m \in Live' /\ rows'[m].email = req'[r].email
    BY <2>1, <2>2, <2>5, SameTables
  <2> QED  BY <2>2, <2>4, <2>6 DEF Sound, Audited, TakesOwner, LifecycleOps, RowsOf
<1> QED  BY <1>4, <1>5, <1>6

LEMMA WritesSound ==
  ASSUME IInv, NEW r \in Reqs, Sound(r),
         WriteRole(r) \/ DeleteMember(r) \/ WriteTransfer(r) \/ WriteStatus(r) \/ WriteMembers(r)
  PROVE  Sound(r)'
<1>1. TypeOK /\ RequestInv(r) /\ req[r] \in Request
  BY DEF IInv, TypeOK
<1>2. CASE WriteRole(r)
  <2> DEFINE m == req[r].target
  <2>1. m \in MemberIds /\ rows[m].state = "live"
    BY <1>2 DEF WriteRole, Sound, Live
  <2>2. SetRow(m, req[r].role, rows[m].status) /\ Goto(r, "audit") /\ req[r].op = "updateMemberRole"
    BY <1>2 DEF WriteRole
  <2>3. req[r].role \in TenantRoles /\ rows[m].status \in {"active", "inactive"}
    BY <1>1, <2>1 DEF Request, TypeOK, Row
  <2>4. rows'[m].role = req[r].role
    BY <1>1, <2>1, <2>2, <2>3, SetRowFact
  <2>5. req'[r].pc = "audit" /\ req'[r].op = "updateMemberRole" /\ req'[r].role = req[r].role /\ req'[r].target = m
    BY <1>1, <2>2, GotoFields
  <2> QED  BY <2>4, <2>5 DEF Sound, Audited, TakesOwner, LifecycleOps
<1>3. CASE DeleteMember(r)
  <2>1. PICK m \in MemberIds : m = req[r].target
    BY <1>3 DEF DeleteMember, Sound, Live
  <2>2. rows' = [rows EXCEPT ![m].state = "deleted"] /\ Goto(r, "audit") /\ req[r].op = "removeMember"
    BY <1>3, <2>1 DEF DeleteMember
  <2>3. rows'[m].state = "deleted"
    BY <1>1, <2>1, <2>2 DEF TypeOK, Row
  <2>4. req'[r].pc = "audit" /\ req'[r].op = "removeMember" /\ req'[r].target = m
    BY <1>1, <2>1, <2>2, GotoFields
  <2>5. m \notin Live'
    BY <2>3 DEF Live
  <2> QED  BY <2>4, <2>5 DEF Sound, Audited, TakesOwner, LifecycleOps
<1>4. CASE WriteTransfer(r)
  <2> DEFINE m == req[r].target
             n == req[r].source
  <2>1. m \in Live /\ n \in Live /\ m # n /\ req[r].op = "transferOwnership" /\ Goto(r, "audit")
    BY <1>4 DEF WriteTransfer, Sound
  <2>2. rows' = [x \in MemberIds |->
                  IF x \in Live /\ x = m THEN [rows[x] EXCEPT !.role = "owner"]
                  ELSE IF x \in Live /\ x = n THEN [rows[x] EXCEPT !.role = "admin"]
                  ELSE rows[x]]
    BY <1>4 DEF WriteTransfer
  <2>3. m \in MemberIds /\ n \in MemberIds /\ rows[m].state = "live" /\ rows[n].state = "live"
        /\ rows[m] \in Row /\ rows[n] \in Row
    BY <1>1, <2>1 DEF Live, TypeOK
  <2> HIDE DEF m, n
  <2>4. rows'[m] = [rows[m] EXCEPT !.role = "owner"] /\ rows'[n] = [rows[n] EXCEPT !.role = "admin"]
    BY <2>1, <2>2, <2>3
  <2>5. rows'[m].state = "live" /\ rows'[m].role = "owner" /\ rows'[n].role = "admin"
    BY <2>3, <2>4 DEF Row
  <2>6. m \in OwnerRows' /\ n \notin OwnerRows'
    BY <2>3, <2>5 DEF OwnerRows, Live
  <2>7. req'[r].pc = "audit" /\ req'[r].op = "transferOwnership" /\ req'[r].target = m /\ req'[r].source = n
    BY <1>1, <2>1, GotoFields DEF m, n
  <2> QED  BY <2>6, <2>7 DEF Sound, Audited, TakesOwner, LifecycleOps
<1>5. CASE WriteStatus(r)
  <2>1. PICK phase \in {"writeMembers", "audit"} : Goto(r, phase)
    BY <1>5 DEF WriteStatus
  <2>2. status' = NewStatus(req[r].op) /\ req[r].op \in LifecycleOps
    BY <1>5 DEF WriteStatus
  <2>3. req'[r].pc = phase /\ req'[r].op = req[r].op
    BY <1>1, <2>1, GotoFields
  <2> QED  BY <2>2, <2>3 DEF Sound, Audited, TakesOwner, LifecycleOps
<1>6. CASE WriteMembers(r)
  <2>1. req[r].op \in LifecycleOps /\ status = NewStatus(req[r].op) /\ status' = status /\ Goto(r, "audit")
    BY <1>1, <1>6 DEF WriteMembers, tenantVars, RequestInv, PhaseInv, Sound
  <2>2. req'[r].pc = "audit" /\ req'[r].op = req[r].op
    BY <1>1, <2>1, GotoFields
  <2> QED  BY <2>1, <2>2 DEF Sound, Audited, TakesOwner, LifecycleOps
<1> QED  BY <1>2, <1>3, <1>4, <1>5, <1>6

LEMMA ArriveSound == ASSUME TypeOK, NEW r \in Reqs, Arrive(r) PROVE Sound(r)'
<1>1. CASE req'[r].pc = "authMember"
  BY <1>1, EarlySound
<1>2. CASE BeginAccept(r)
  <2>1. PICK i \in InviteIds :
          Begin(r, [Idle EXCEPT !.pc = "readInvitation", !.op = "acceptInvitation", !.inv = i])
    BY <1>2 DEF BeginAccept
  <2> DEFINE new == [Idle EXCEPT !.pc = "readInvitation", !.op = "acceptInvitation", !.inv = i]
  <2>2. new.op = "acceptInvitation" /\ new.pc = "readInvitation" /\ new.target = None
    BY DEF Idle
  <2> HIDE DEF new
  <2>3. req'[r] = new
    BY <2>1 DEF Begin, TypeOK, new
  <2> QED  BY <2>2, <2>3 DEF Sound, TakesOwner
<1>3. CASE ~BeginAccept(r)
  <2>1. req'[r].pc = "authMember"
    BY <1>3, ArriveStarts
  <2> QED  BY <2>1, EarlySound
<1> QED  BY <1>2, <1>3

SoundInv == IInv /\ \A r \in Reqs : Sound(r)

LEMMA SoundStep == ASSUME OneAtATime, SoundInv, [Next]_vars PROVE SoundInv'
<1>1. IInv /\ IInv' /\ TypeOK
  BY NextInv DEF SoundInv, IInv
<1> SUFFICES ASSUME NEW r \in Reqs PROVE Sound(r)'
  BY <1>1 DEF SoundInv
<1>2. Sound(r)
  BY DEF SoundInv
<1>3. CASE UNCHANGED vars
  BY <1>2, <1>3 DEF vars, tenantVars, Sound, TakesOwner, TakesOwnerAway, Audited, Live, OwnerRows, RowsOf
<1>4. ASSUME NEW i \in InviteIds, ExpireInvitation(i) PROVE Sound(r)'
  <2>1. UNCHANGED <<status, rows, req>> /\ invites' = [invites EXCEPT ![i].expired = TRUE]
    BY <1>4 DEF ExpireInvitation, tenantVars
  <2>2. invites \in [InviteIds -> Invitation] /\ req[r] \in Request /\ RequestInv(r)
    BY <1>1 DEF IInv, TypeOK
  <2>3. \A j \in InviteIds : invites'[j].state = invites[j].state
    BY <2>1, <2>2 DEF Invitation
  <2>4. req[r].op = "acceptInvitation" => req[r].inv \in InviteIds
    BY <2>2 DEF RequestInv, Request
  <2>5. Live' = Live /\ OwnerRows' = OwnerRows /\ (\A u : RowsOf(u)' = RowsOf(u))
        /\ TakesOwner(r)' = TakesOwner(r)
    BY <2>1 DEF Live, OwnerRows, RowsOf, TakesOwner, TakesOwnerAway
  <2>6. Audited(r) => Audited(r)'
    BY <2>1, <2>3, <2>4, <2>5 DEF Audited
  <2> QED  BY <1>2, <2>1, <2>5, <2>6 DEF Sound
<1>5. ASSUME NEW x \in Reqs, Arrive(x) \/ Proceed(x) \/ Abort(x) PROVE Sound(r)'
  <2>1. x = r
    BY DEF OneAtATime
  <2>2. CASE Arrive(r)
    BY <1>1, <2>2, ArriveSound
  <2>3. CASE Abort(r)
    BY <1>1, <2>3, FinishSound DEF Abort
  <2>4. CASE Proceed(r)
    BY <1>1, <1>2, <2>4, ReadsSound, MemberReadsSound, InsertSound, AcceptSound, WritesSound
       DEF Proceed, AuthoriseMember, AuthoriseStatus, ReadInvitation, ReadExistingMember,
           ReadActor, ReadTarget, ReadTenant, RecordEvent
  <2> QED  BY <1>5, <2>1, <2>2, <2>3, <2>4
<1>6. ASSUME NEW x \in Reqs, ChangeHold(x) PROVE Sound(r)'
  <2>1. req'[r].pc = "idle"
    BY <1>1, <1>6, HoldFields DEF ChangeHold, OneAtATime
  <2> QED  BY <2>1, EarlySound
<1> QED  BY <1>3, <1>4, <1>5, <1>6 DEF Next

LEMMA InitSound == Init => SoundInv
<1> SUFFICES ASSUME Init, NEW r \in Reqs PROVE Sound(r)
  BY InitInv DEF SoundInv
<1>1. req[r].pc = "idle"
  BY DEF Init, Idle
<1> QED  BY <1>1 DEF Sound

\* Of requests that do not overlap each leaves what its audit row says,
\* wherever others were cut short.
THEOREM SerialAudit ==
  ASSUME OneAtATime
  PROVE  Spec => []AuditIsTrue
<1>1. SoundInv /\ [Next]_vars => SoundInv'
  BY SoundStep
<1>2. SoundInv => AuditIsTrue
  BY DEF SoundInv, Sound, AuditIsTrue
<1> QED  BY <1>1, <1>2, InitSound, PTL DEF Spec

\* The last owner of all goes with no write but an acceptance's.
LEMMA OwnersStay ==
  ASSUME IInv, NEW r \in Reqs, Sound(r), Proceed(r), ~AcceptUpdate(r), ~AcceptInsert(r), OwnerRows # {}
  PROVE  OwnerRows' # {}
<1>1. TypeOK /\ req[r] \in Request /\ RequestInv(r)
  BY DEF IInv, TypeOK
<1>2. CASE UNCHANGED rows
  BY <1>2, SameTables
<1>3. ASSUME NEW m \in MemberIds, \A x \in MemberIds \ {m} : rows'[x] = rows[x], OwnerRows \ {m} # {}
      PROVE  OwnerRows' # {}
  BY <1>3 DEF OwnerRows, Live
<1>4. CASE WriteRole(r)
  <2> DEFINE m == req[r].target
  <2>1. m \in MemberIds /\ rows[m].state = "live"
    BY <1>4 DEF WriteRole, Sound, Live
  <2>2. SetRow(m, req[r].role, rows[m].status) /\ req[r].op = "updateMemberRole" /\ req[r].pc = "write"
    BY <1>4 DEF WriteRole
  <2>3. req[r].role \in TenantRoles /\ rows[m].status \in {"active", "inactive"}
    BY <1>1, <2>1 DEF Request, TypeOK, Row
  <2>4. /\ rows'[m].role = req[r].role /\ rows'[m].state = "live"
        /\ \A x \in MemberIds \ {m} : rows'[x] = rows[x]
    BY <1>1, <2>1, <2>2, <2>3, SetRowFact
  <2>5. CASE rows[m].role = "owner" /\ req[r].role # "owner"
    <3>1. OwnerRows \ {m} # {}
      BY <2>2, <2>5 DEF Sound, TakesOwner, TakesOwnerAway
    <3> QED  BY <1>3, <2>1, <2>4, <3>1
  <2>6. CASE req[r].role = "owner"
    BY <2>1, <2>4, <2>6 DEF OwnerRows, Live
  <2>7. CASE rows[m].role # "owner"
    <3>1. OwnerRows \ {m} # {}
      BY <2>7 DEF OwnerRows
    <3> QED  BY <1>3, <2>1, <2>4, <3>1
  <2> QED  BY <2>5, <2>6, <2>7
<1>5. CASE DeleteMember(r)
  <2> DEFINE m == req[r].target
  <2>1. m \in MemberIds /\ req[r].op = "removeMember" /\ req[r].pc = "write"
    BY <1>5 DEF DeleteMember, Sound, Live
  <2>2. \A x \in MemberIds \ {m} : rows'[x] = rows[x]
    BY <1>1, <1>5, <2>1 DEF DeleteMember, TypeOK
  <2>3. OwnerRows \ {m} # {}
    BY <2>1 DEF Sound, TakesOwner, TakesOwnerAway, OwnerRows
  <2> QED  BY <1>3, <2>1, <2>2, <2>3
<1>6. CASE WriteTransfer(r)
  <2>1. req[r].target \in Live /\ req[r].target \in MemberIds /\ rows[req[r].target] \in Row
    BY <1>1, <1>6 DEF WriteTransfer, Sound, Live, TypeOK
  <2>2. rows'[req[r].target] = [rows[req[r].target] EXCEPT !.role = "owner"]
    BY <1>6, <2>1 DEF WriteTransfer
  <2>3. rows'[req[r].target].role = "owner" /\ rows'[req[r].target].state = "live"
    BY <2>1, <2>2 DEF Row, Live
  <2> QED  BY <2>1, <2>3 DEF OwnerRows, Live
<1>7. CASE WriteMembers(r)
  <2>1. \A m \in MemberIds : rows'[m].role = rows[m].role /\ rows'[m].state = rows[m].state
    BY <1>1, <1>7 DEF WriteMembers, TypeOK, Row
  <2> QED  BY <2>1 DEF OwnerRows, Live
<1> QED  BY <1>2, <1>4, <1>5, <1>6, <1>7
         DEF Proceed, AuthoriseMember, AuthoriseStatus, InsertInvitation, ReadInvitation, ReadExistingMember,
             MarkAccepted, ReadMember, CountOwners, ReadActor, ReadTarget,
             ReadTenant, WriteStatus, RecordEvent, ReadOnly

\* Requests that do not overlap leave the tenant an owner: the last one is
\* neither removed nor given another role, and a transfer moves the role.
\* Only the acceptance of an invitation still takes it away.
THEOREM SerialOwner ==
  ASSUME OneAtATime
  PROVE  Spec => LastOwnerKept
<1> DEFINE A == OwnerRows # {} /\ OwnerRows' = {}
                  => \E r \in Reqs : req[r].op = "acceptInvitation" /\ req[r].pc = "write"
<1>1. SoundInv /\ [Next]_vars => [A]_vars
  <2> SUFFICES ASSUME SoundInv, Next, OwnerRows # {}, OwnerRows' = {}
               PROVE  \E r \in Reqs : req[r].op = "acceptInvitation" /\ req[r].pc = "write"
    OBVIOUS
  <2>1. rows' # rows
    BY SameTables
  <2>2. PICK r \in Reqs : Proceed(r)
    <3>1. ASSUME NEW r \in Reqs, Arrive(r) PROVE FALSE
      BY <2>1, <3>1 DEF Arrive, BeginInvite, BeginUpdateRole, BeginOnMember, BeginLifecycle, BeginAccept, Begin
    <3> QED  BY <2>1, <3>1 DEF Next, Abort, ReadOnly, ExpireInvitation, ChangeHold
  <2>3. AcceptUpdate(r) \/ AcceptInsert(r)
    BY <2>2, OwnersStay DEF SoundInv
  <2> QED  BY <2>3 DEF AcceptUpdate, AcceptInsert
<1>2. SoundInv /\ [Next]_vars => SoundInv'
  BY SoundStep
<1> QED  BY <1>1, <1>2, InitSound, PTL DEF Spec, LastOwnerKept
=============================================================================
