----------------------------- MODULE Onboarding -----------------------------
(***************************************************************************)
(* From a signup to a tenant with an owner: the signup sessions, the       *)
(* workflow that creates a tenant, the verification that runs it and then  *)
(* creates the owner's account, the route that runs it for an              *)
(* administrator, the setup wizard and the access configuration.           *)
(*                                                                         *)
(* A step is one statement or one call of the framework.  Its workflows    *)
(* are external: a step of the workflow that fails has the steps before it *)
(* compensated, a workflow run inside a step has not, and a restart        *)
(* compensates nothing.  The idempotency key handed to the workflow is     *)
(* taken to have no effect.                                                *)
(***************************************************************************)
EXTENDS Naturals, FiniteSets

CONSTANTS
  Emails, Slugs, Calls,
  Home,          \* a tenant from before, in whose context requests come
  None,
  Workloads,     \* bound: the operations and the addresses of one behaviour
  MaxTenants, MaxTokens, MaxFailures   \* bounds

ASSUME BoundAssumption == {MaxTenants, MaxTokens, MaxFailures} \subseteq Nat
ASSUME NameAssumption == Home # None /\ {Home, None} \cap (0..MaxTenants) = {}

VARIABLES
  enforced,    \* whether the policies apply to the role of the process
  session,     \* tenant_signup_session by owner_email (UNIQUE)
  tokens,      \* verification tokens given out
  tenant,      \* tenant, those created here
  made,        \* tenant ids drawn
  owners,      \* tenant_membership
  audited,     \* tenants with a tenant_created row
  channels,    \* sales_channel
  store,       \* the tenant whose name and channel the store has
  identities, users,
  settings,    \* settings_json of each tenant
  call, failures, workload

vars == <<enforced, session, tokens, tenant, made, owners, audited, channels, store,
          identities, users, settings, call, failures, workload>>

Operations == {"signup", "verify", "create", "wizard", "policy"}
ASSUME WorkloadAssumption == Workloads \subseteq SUBSET (Operations \cup Emails)

TenantIds == 1..MaxTenants
Contexts == TenantIds \cup {Home, None}
Row == [slug : Slugs, owner : Emails, token : 0..MaxTokens]
NoRow == [slug |-> None]
Timestamps == {"email_verified", "tenant_created", "owner_assigned", "first_project_setup"}
Session == [token : 1..MaxTokens, slug : Slugs, tenant : TenantIds \cup {None},
            step : {"signup_submitted", "owner_assigned", "first_project_setup"},
            secret : BOOLEAN, expired : BOOLEAN, at : SUBSET Timestamps]
NoSession == [token |-> 0, tenant |-> None, at |-> {}]
\* Who wrote access_control, and who first_project and first_site.
Settings == [policy : Calls \cup {None}, project : Calls \cup {None}]
NoSettings == [policy |-> None, project |-> None]

Idle == [pc |-> "idle"]
Call == [pc : {"slug", "tenant", "owner", "audit", "channel", "store", "register", "user", "session",
               "undoOwner", "undoTenant"},
         email : Emails, slug : Slugs, token : 0..MaxTokens, tenant : TenantIds \cup {None},
         ctx : Contexts]
        \cup [pc : {"project", "mark"}, email : Emails, tenant : TenantIds]
        \cup [pc : {"policy"}, tenant : TenantIds, seen : Settings]
        \cup {Idle}

\* The type invariant: rows, sessions and requests are what the code builds.
TypeOK ==
  /\ session \in [Emails -> Session \cup {NoSession}]
  /\ tokens \in 0..MaxTokens /\ made \in 0..MaxTenants
  /\ tenant \in [TenantIds -> Row \cup {NoRow}]
  /\ \A t \in TenantIds : tenant[t] # NoRow => t <= made
  /\ owners \subseteq TenantIds \X Emails /\ audited \subseteq 1..made
  /\ channels \subseteq [for : TenantIds, scope : Contexts]
  /\ store \in TenantIds \cup {Home}
  /\ identities \subseteq Emails /\ users \subseteq Emails
  /\ settings \in [TenantIds -> Settings]
  /\ call \in [Calls -> Call]

Init == /\ enforced \in BOOLEAN /\ workload \in Workloads
        /\ session = [e \in Emails |-> NoSession]
        /\ tenant = [t \in TenantIds |-> NoRow]
        /\ tokens = 0 /\ made = 0 /\ failures = 0
        /\ owners = {} /\ audited = {} /\ channels = {} /\ store = Home
        /\ identities \in SUBSET (Emails \cap workload) /\ users \in SUBSET identities
        /\ settings = [t \in TenantIds |-> NoSettings]
        /\ call = [r \in Calls |-> Idle]

Existing == {t \in TenantIds : tenant[t] # NoRow}
\* The policies check the tenant_id of a new row against the context.
Insertable(ctx, t) == enforced => ctx \in {None, t}

Put(r, q) == call' = [call EXCEPT ![r] = q]
Goto(r, pc) == call' = [call EXCEPT ![r].pc = pc]
End(r) == Put(r, Idle)
-----------------------------------------------------------------------------
(* Signup: a form without a name, an address or a password is refused, and *)
(* one statement stores it.  The conflict is on the address, so a second   *)
(* signup takes over the session, and what it does not name stays.         *)

NewSession(slug) == [token |-> tokens + 1, slug |-> slug, tenant |-> None, step |-> "signup_submitted",
                     secret |-> TRUE, expired |-> FALSE, at |-> {}]
\* Variant: the token the address was sent first stays good.
Merged_OldToken(old, slug) == [NewSession(slug) EXCEPT !.token = old.token, !.tenant = old.tenant, !.at = old.at]
Merged(old, slug) == [NewSession(slug) EXCEPT !.tenant = old.tenant, !.at = old.at]

Signup(e, slug) ==
  /\ {"signup", e} \subseteq workload /\ tokens < MaxTokens
  /\ session' = [session EXCEPT ![e] = IF @ = NoSession THEN NewSession(slug) ELSE Merged(@, slug)]
  /\ tokens' = tokens + 1
  /\ UNCHANGED <<enforced, tenant, made, owners, audited, channels, store, identities, users,
                 settings, call, failures, workload>>

\* Twenty-four hours go by.
Expire(e) ==
  /\ session[e] # NoSession /\ ~session[e].expired /\ session[e].step = "signup_submitted"
  /\ failures < MaxFailures
  /\ session' = [session EXCEPT ![e].expired = TRUE]
  /\ failures' = failures + 1
  /\ UNCHANGED <<enforced, tokens, tenant, made, owners, audited, channels, store, identities,
                 users, settings, call, workload>>
-----------------------------------------------------------------------------
(* The workflow that creates a tenant, and the requests that run it.       *)

creation == <<enforced, tokens, failures, workload, settings>>
accounts == <<session, identities, users>>

Creating(e, slug, token, ctx) ==
  [pc |-> "slug", email |-> e, slug |-> slug, token |-> token, tenant |-> None, ctx |-> ctx]

\* The route is not among those that do without a tenant: the request comes
\* in the context of one that exists.
VerifyEmail(r, e, ctx) == LET s == session[e] IN
  /\ "verify" \in workload /\ call[r] = Idle
  /\ ctx \in Existing \cup {Home}
  /\ s # NoSession /\ s.step = "signup_submitted" /\ ~s.expired /\ s.secret
  /\ Put(r, Creating(e, s.slug, s.token, ctx))
  /\ UNCHANGED <<creation, accounts, tenant, made, owners, audited, channels, store>>

CreateTenant(r, e, slug, ctx) ==
  /\ {"create", e} \subseteq workload /\ call[r] = Idle
  /\ ctx \in Existing \cup {Home, None}
  /\ Put(r, Creating(e, slug, 0, ctx))
  /\ UNCHANGED <<creation, accounts, tenant, made, owners, audited, channels, store>>

SlugTaken(slug) == \E t \in Existing : tenant[t].slug = slug

ReadSlug(r) ==
  /\ call[r].pc = "slug"
  /\ IF SlugTaken(call[r].slug) THEN End(r) ELSE Goto(r, "tenant")
  /\ UNCHANGED <<creation, accounts, tenant, made, owners, audited, channels, store>>

InsertTenant(r) == LET q == call[r] IN
  /\ q.pc = "tenant" /\ made < MaxTenants
  /\ made' = made + 1
  /\ IF SlugTaken(q.slug) THEN End(r) /\ UNCHANGED tenant
     ELSE /\ tenant' = [tenant EXCEPT ![made'] = [slug |-> q.slug, owner |-> q.email, token |-> q.token]]
          /\ Put(r, [q EXCEPT !.pc = "owner", !.tenant = made'])
  /\ UNCHANGED <<creation, accounts, owners, audited, channels, store>>

\* The insertion fails within the first step, which is not compensated.
InsertOwner(r) == LET q == call[r] IN
  /\ q.pc = "owner"
  /\ IF Insertable(q.ctx, q.tenant)
     THEN owners' = owners \cup {<<q.tenant, q.email>>} /\ Goto(r, "audit")
     ELSE End(r) /\ UNCHANGED owners
  /\ UNCHANGED <<creation, accounts, tenant, made, audited, channels, store>>

RecordCreation(r) ==
  /\ call[r].pc = "audit"
  /\ audited' = audited \cup {call[r].tenant}
  /\ Goto(r, "channel")
  /\ UNCHANGED <<creation, accounts, tenant, made, owners, channels, store>>

\* Variant: the store is configured as soon as the channel is there.
CreateDefaultSalesChannel_AndStore(r) == LET q == call[r] IN
  /\ q.pc = "channel"
  /\ channels' = channels \cup {[for |-> q.tenant, scope |-> q.ctx]}
  /\ store' = q.tenant
  /\ Goto(r, "store")
  /\ UNCHANGED <<creation, accounts, tenant, made, owners, audited>>

\* tenant_id of the channel is the column's default, the context.
CreateDefaultSalesChannel(r) == LET q == call[r] IN
  /\ q.pc = "channel"
  /\ channels' = channels \cup {[for |-> q.tenant, scope |-> q.ctx]}
  /\ Goto(r, "store")
  /\ UNCHANGED <<creation, accounts, tenant, made, owners, audited, store>>

\* The first store there is, whosever it was.
ConfigureDefaultStore(r) == LET q == call[r] IN
  /\ q.pc = "store"
  /\ store' = q.tenant
  /\ IF q.token = 0 THEN End(r) ELSE Goto(r, "register")
  /\ UNCHANGED <<creation, accounts, tenant, made, owners, audited, channels>>

\* A step fails: the steps of the workflow before it are compensated.  What
\* fails in or after the first and last step leaves everything.
Fail(r) ==
  /\ failures < MaxFailures
  /\ call[r] # Idle
  /\ IF call[r].pc \in {"channel", "store"} THEN Goto(r, "undoOwner") ELSE End(r)
  /\ failures' = failures + 1
  /\ UNCHANGED <<enforced, tokens, settings, workload, accounts, tenant, made, owners, audited, channels, store>>

UndoOwner(r) == LET q == call[r] IN
  /\ q.pc = "undoOwner"
  /\ owners' = {o \in owners : o[1] # q.tenant}
  /\ Goto(r, "undoTenant")
  /\ UNCHANGED <<creation, accounts, tenant, made, audited, channels, store>>

UndoTenant(r) == LET q == call[r] IN
  /\ q.pc = "undoTenant"
  /\ tenant' = [tenant EXCEPT ![q.tenant] = NoRow]
  /\ End(r)
  /\ UNCHANGED <<creation, accounts, made, owners, audited, channels, store>>
-----------------------------------------------------------------------------
(* After the workflow nothing is compensated.                              *)

places == <<tenant, made, owners, audited, channels, store>>

RegisterIdentity(r) == LET q == call[r] IN
  /\ q.pc = "register"
  /\ IF q.email \in identities THEN End(r) /\ UNCHANGED identities
     ELSE identities' = identities \cup {q.email} /\ Goto(r, "user")
  /\ UNCHANGED <<creation, session, users, places>>

CreateUser(r) == LET q == call[r] IN
  /\ q.pc = "user"
  /\ IF q.email \in users THEN End(r) /\ UNCHANGED users
     ELSE users' = users \cup {q.email} /\ Goto(r, "session")
  /\ UNCHANGED <<creation, session, identities, places>>

Verified == {"email_verified", "tenant_created", "owner_assigned"}
\* Variant: a step no reader knows.
Completed_Step(s, t) == [s EXCEPT !.tenant = t, !.step = "completed", !.secret = FALSE, !.at = @ \cup Verified]
Completed(s, t) == [s EXCEPT !.tenant = t, !.step = "owner_assigned", !.secret = FALSE, !.at = @ \cup Verified]

\* Variant: as soon as the identity is there.
CompleteSession_Early(r) == LET q == call[r] IN
  /\ q.pc = "user"
  /\ session' = [session EXCEPT ![q.email] = Completed(@, q.tenant)]
  /\ End(r)
  /\ UNCHANGED <<creation, identities, users, places>>
\* The row is found by its id, which a signup in between has kept.
CompleteSession(r) == LET q == call[r] IN
  /\ q.pc = "session"
  /\ session' = [session EXCEPT ![q.email] = Completed(@, q.tenant)]
  /\ End(r)
  /\ UNCHANGED <<creation, identities, users, places>>
-----------------------------------------------------------------------------
(* The setup wizard and the access configuration write one column.         *)

configuring == <<enforced, tokens, places, identities, users, failures, workload>>

HasSession(s, t) == s.tenant = t

SetupWizard(r, e, t) ==
  /\ "wizard" \in workload /\ call[r] = Idle
  /\ t \in Existing /\ HasSession(session[e], t)
  /\ Put(r, [pc |-> "project", email |-> e, tenant |-> t])
  /\ UNCHANGED <<configuring, session, settings>>

\* jsonb_set in the statement itself.
WriteProject(r) ==
  /\ call[r].pc = "project"
  /\ settings' = [settings EXCEPT ![call[r].tenant].project = r]
  /\ Goto(r, "mark")
  /\ UNCHANGED <<configuring, session>>

MarkProject(r) ==
  /\ call[r].pc = "mark"
  /\ session' = [session EXCEPT ![call[r].email].at = @ \cup {"first_project_setup"},
                                ![call[r].email].step = "first_project_setup"]
  /\ End(r)
  /\ UNCHANGED <<configuring, settings>>

ReadSettings(r, t) ==
  /\ "policy" \in workload /\ call[r] = Idle /\ t \in Existing
  /\ Put(r, [pc |-> "policy", tenant |-> t, seen |-> settings[t]])
  /\ UNCHANGED <<configuring, session, settings>>

MergedSettings(seen, r) == [seen EXCEPT !.policy = r]

UpdateTenantAccessConfiguration(r) == LET q == call[r] IN
  /\ q.pc = "policy"
  /\ settings' = IF q.tenant \in Existing THEN [settings EXCEPT ![q.tenant] = MergedSettings(q.seen, r)]
                 ELSE settings
  /\ End(r)
  /\ UNCHANGED <<configuring, session>>
-----------------------------------------------------------------------------
Restart ==
  /\ failures < MaxFailures /\ \E r \in Calls : call[r] # Idle
  /\ call' = [r \in Calls |-> Idle]
  /\ failures' = failures + 1
  /\ UNCHANGED <<enforced, tokens, settings, workload, accounts, places>>

Workflow(r) == \/ ReadSlug(r) \/ InsertTenant(r) \/ InsertOwner(r) \/ RecordCreation(r)
               \/ CreateDefaultSalesChannel(r) \/ ConfigureDefaultStore(r)
               \/ UndoOwner(r) \/ UndoTenant(r)

Next ==
  \/ \E e \in Emails : Expire(e) \/ \E slug \in Slugs : Signup(e, slug)
  \/ \E r \in Calls :
       \/ \E e \in Emails, ctx \in Contexts :
            VerifyEmail(r, e, ctx) \/ \E slug \in Slugs : CreateTenant(r, e, slug, ctx)
       \/ Workflow(r) \/ Fail(r)
       \/ RegisterIdentity(r) \/ CreateUser(r) \/ CompleteSession(r)
       \/ \E t \in TenantIds : ReadSettings(r, t) \/ \E e \in Emails : SetupWizard(r, e, t)
       \/ WriteProject(r) \/ MarkProject(r) \/ UpdateTenantAccessConfiguration(r)
  \/ Restart

Spec == Init /\ [][Next]_vars
-----------------------------------------------------------------------------
(* Properties                                                              *)

\* A session that names a tenant stands for all a verification creates: the
\* tenant and its audit row, the owner's membership, identity and account.
VerifiedIsComplete ==
  \A e \in Emails : session[e].tenant # None =>
    LET t == session[e].tenant IN
    /\ t \in Existing /\ tenant[t].owner = e
    /\ <<t, e>> \in owners /\ t \in audited
    /\ e \in identities /\ e \in users

\* However often a token is sent, and whatever is signed up in between, it
\* makes one tenant at most.
TokenMakesOneTenant ==
  \A t, u \in Existing : tenant[t].token # 0 /\ tenant[t].token = tenant[u].token => t = u

\* What a creation leaves with the framework is never that of a tenant
\* taken back, although the steps run in one workflow with compensations:
\* the store names a tenant there is.  And where the policies apply the
\* channel of a new tenant is never in another's scope: the membership is
\* refused before it is created.
CreationIsClean ==
  /\ store = Home \/ store \in Existing
  /\ enforced => \A c \in channels : c.scope \in {None, c.for}
=============================================================================
