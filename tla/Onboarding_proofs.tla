-------------------------- MODULE Onboarding_proofs --------------------------
(***************************************************************************)
(* Complete verifications and tokens that make one tenant, for any         *)
(* addresses, slugs, calls, restarts and failures.  The invariant says     *)
(* what each call has made so far and that no two calls make the same      *)
(* tenant; and that a token has had one slug only, wherever it is kept -   *)
(* in a session, in a call or in the row of a tenant.                      *)
(***************************************************************************)
EXTENDS Onboarding, TLAPS

Owning == {"owner", "audit", "channel", "store", "register", "user", "session",
           "undoOwner", "undoTenant"}
Making == [pc : {"slug", "tenant"} \cup Owning, email : Emails, slug : Slugs, token : 0..MaxTokens,
           tenant : TenantIds \cup {None}, ctx : Contexts]

Types == /\ session \in [Emails -> Session \cup {NoSession}]
         /\ tokens \in 0..MaxTokens /\ made \in 0..MaxTenants
         /\ tenant \in [TenantIds -> Row \cup {NoRow}]
         /\ \A t \in Existing : t <= made
         /\ settings \in [TenantIds -> Settings]
         /\ call \in [Calls -> Call]

\* What a call has made, and what it can still rely on.
Progress(q) ==
  /\ q \in Making /\ q.token # 0 => session[q.email] # NoSession
  /\ q.pc \in {"project", "mark"} => session[q.email] # NoSession
  /\ q.pc \in {"register", "user", "session"} => q.token # 0
  /\ q.pc \in Owning => /\ q.tenant \in Existing
                        /\ tenant[q.tenant] = [slug |-> q.slug, owner |-> q.email, token |-> q.token]
  /\ q.pc \in {"audit", "channel", "store", "register", "user", "session"}
       => <<q.tenant, q.email>> \in owners
  /\ q.pc \in {"channel", "store", "register", "user", "session"} => q.tenant \in audited
  /\ q.pc \in {"user", "session"} => q.email \in identities
  /\ q.pc = "session" => q.email \in users

\* Two calls are never about one tenant ...
Apart == \A r, s \in Calls :
  r # s /\ call[r].pc \in Owning /\ call[s].pc \in Owning => call[r].tenant # call[s].tenant

\* ... and none is about a tenant whose session is complete.
Settled(e) == session[e].tenant # None =>
  LET t == session[e].tenant IN
  /\ t \in Existing /\ tenant[t].owner = e
  /\ <<t, e>> \in owners /\ t \in audited
  /\ e \in identities /\ e \in users
  /\ \A r \in Calls : call[r].pc \in Owning => call[r].tenant # t

\* A token that was given out for a slug.
Given(x, slug) ==
  \/ \E e \in Emails : session[e] # NoSession /\ session[e].token = x /\ session[e].slug = slug
  \/ \E r \in Calls : call[r] \in Making /\ call[r].token = x /\ call[r].slug = slug
  \/ \E t \in Existing : tenant[t].token = x /\ tenant[t].slug = slug

OneSlug == \A x \in Nat \ {0}, s, u \in Slugs : Given(x, s) => x <= tokens /\ (Given(x, u) => s = u)

SlugsUnique == \A t, u \in Existing : tenant[t].slug = tenant[u].slug => t = u

Verifications == (\A r \in Calls : Progress(call[r])) /\ Apart /\ \A e \in Emails : Settled(e)
IInv == Types /\ Verifications /\ OneSlug /\ SlugsUnique
-----------------------------------------------------------------------------
LEMMA Numbers ==
  /\ MaxTenants \in Nat /\ MaxTokens \in Nat
  /\ Home \notin TenantIds /\ None \notin TenantIds /\ Home # None
<1>1. MaxTenants \in Nat /\ MaxTokens \in Nat
  BY BoundAssumption
<1>2. TenantIds \subseteq 0..MaxTenants
  BY <1>1 DEF TenantIds
<1> QED  BY <1>1, <1>2, NameAssumption

\* The record a call is.
LEMMA Shapes ==
  ASSUME NEW q \in Call
  PROVE  /\ q.pc \in {"slug", "tenant"} \cup Owning => q \in Making
         /\ q.pc \in {"project", "mark"} => q.email \in Emails /\ q.tenant \in TenantIds /\ q \notin Making
         /\ q.pc \in {"idle", "policy"} => q \notin Making
         /\ q.pc = "policy" => q.tenant \in TenantIds /\ q.seen \in Settings
<1>1. CASE q = Idle
  BY <1>1 DEF Idle, Making, Owning
<1>2. CASE q # Idle
  BY <1>2 DEF Call, Making, Owning
<1> QED  BY <1>1, <1>2

LEMMA MakingIsCall == Making \subseteq Call
BY DEF Making, Call, Owning

LEMMA NoneRows ==
  /\ NoSession \notin Session /\ NoSession.tenant = None /\ NoSession.token = 0
  /\ NoRow \notin Row
  /\ \A s \in Session : s.token \in Nat /\ s.token # 0 /\ s.slug \in Slugs
                        /\ s.tenant \in TenantIds \cup {None}
  /\ \A row \in Row : row.token \in Nat /\ row.slug \in Slugs /\ row.owner \in Emails
<1>1. NoSession \notin Session /\ NoSession.tenant = None /\ NoSession.token = 0
  BY Numbers DEF NoSession, Session
<1>2. NoRow \notin Row
  <2>1. \A row \in Row : "owner" \in DOMAIN row
    BY DEF Row
  <2>2. "owner" \notin DOMAIN NoRow
    BY DEF NoRow
  <2> QED  BY <2>1, <2>2
<1>3. \A s \in Session : s.token \in Nat /\ s.token # 0 /\ s.slug \in Slugs
                         /\ s.tenant \in TenantIds \cup {None}
  BY Numbers DEF Session
<1>4. \A row \in Row : row.token \in Nat /\ row.slug \in Slugs /\ row.owner \in Emails
  BY Numbers DEF Row
<1> QED  BY <1>1, <1>2, <1>3, <1>4
-----------------------------------------------------------------------------
(* Tables that grow.                                                       *)

\* What a call relies on stays when nobody takes back its tenant.
LEMMA ProgressKept ==
  ASSUME NEW q \in Call, Progress(q),
         \A e \in Emails : session[e] # NoSession => session'[e] # NoSession,
         q.pc \in Owning => tenant'[q.tenant] = tenant[q.tenant],
         q.pc \in Owning \ {"undoOwner", "undoTenant"} =>
           (<<q.tenant, q.email>> \in owners => <<q.tenant, q.email>> \in owners'),
         audited \subseteq audited', identities \subseteq identities', users \subseteq users'
  PROVE  Progress(q)'
<1>1. q \in Making => q.email \in Emails
  BY DEF Making
<1>2. q.pc \in {"project", "mark"} => q.email \in Emails
  BY Shapes
<1> QED  BY <1>1, <1>2 DEF Progress, Owning, Existing

\* One call moves on; the tables but the sessions and the tenants may grow.
LEMMA Moves ==
  ASSUME IInv, NEW r \in Calls, NEW q \in Call, call' = [call EXCEPT ![r] = q],
         session' = session, tenant' = tenant, made' = made, tokens' = tokens,
         owners \subseteq owners', audited \subseteq audited', identities \subseteq identities',
         users \subseteq users', settings' \in [TenantIds -> Settings],
         Progress(q)',
         q.pc \in Owning => call[r].pc \in Owning /\ q.tenant = call[r].tenant,
         q \in Making /\ q.token # 0 => Given(q.token, q.slug)
  PROVE  IInv'
<1>1. call' \in [Calls -> Call] /\ call'[r] = q /\ \A x \in Calls \ {r} : call'[x] = call[x]
  BY DEF IInv, Types
<1>2. Types'
  BY <1>1 DEF IInv, Types, Existing
<1>3. ASSUME NEW x \in Calls PROVE (Progress(call[x]))'
  <2>1. CASE x = r
    BY <1>1, <2>1 DEF Progress, Existing
  <2>2. CASE x # r
    <3>1. Progress(call[x]) /\ call[x] \in Call
      BY DEF IInv, Verifications, Types
    <3>2. (<<call[x].tenant, call[x].email>> \in owners => <<call[x].tenant, call[x].email>> \in owners')
      OBVIOUS
    <3>3. \A y : call[x] = y => Progress(y)'
      BY <3>1, <3>2, ProgressKept
    <3> QED  BY <1>1, <2>2, <3>3 DEF Progress, Existing
  <2> QED  BY <2>1, <2>2
<1>4. Apart'
  BY <1>1 DEF IInv, Verifications, Apart
<1>5. ASSUME NEW e \in Emails PROVE Settled(e)'
  <2>1. Settled(e)
    BY DEF IInv, Verifications
  <2>2. \A x \in Calls : call'[x].pc \in Owning /\ session[e].tenant # None
          => call'[x].tenant # session[e].tenant
    BY <1>1, <2>1 DEF Settled
  <2> QED  BY <2>1, <2>2 DEF Settled, Existing
<1>6. ASSUME NEW x \in Nat \ {0}, NEW slug, Given(x, slug)' PROVE Given(x, slug)
  BY <1>1, <1>6 DEF Given, Existing
<1>7. OneSlug'
  BY <1>6 DEF IInv, OneSlug
<1>8. SlugsUnique'
  BY DEF IInv, SlugsUnique, Existing
<1> QED  BY <1>2, <1>3, <1>4, <1>5, <1>7, <1>8 DEF IInv, Verifications

\* A call ends, whatever it was.
LEMMA Ends ==
  ASSUME IInv, NEW r \in Calls, End(r),
         session' = session, tenant' = tenant, made' = made, tokens' = tokens,
         owners \subseteq owners', audited \subseteq audited', identities \subseteq identities',
         users \subseteq users', settings' \in [TenantIds -> Settings]
  PROVE  IInv'
<1>1. Idle \in Call /\ Idle.pc = "idle"
  BY DEF Idle, Call
<1>2. Idle \notin Making
  BY <1>1, Shapes
<1>3. call' = [call EXCEPT ![r] = Idle]
  BY DEF End, Put
<1> HIDE DEF Idle
<1>4. Progress(Idle)'
  BY <1>1, <1>2 DEF Progress, Owning
<1>5. Idle.pc \notin Owning
  BY <1>1 DEF Owning
<1> QED  BY <1>1, <1>2, <1>3, <1>4, <1>5, Moves

\* Where the workflow goes on.
LEMMA GoesOn ==
  ASSUME IInv, NEW r \in Calls, call[r] \in Making, NEW pc \in {"slug", "tenant"} \cup Owning,
         Goto(r, pc), session' = session, tenant' = tenant, made' = made, tokens' = tokens,
         owners \subseteq owners', audited \subseteq audited', identities \subseteq identities',
         users \subseteq users', settings' = settings,
         pc \in Owning => call[r].pc \in Owning,
         pc \in {"register", "user", "session"} => call[r].token # 0,
         pc \in {"audit", "channel", "store", "register", "user", "session"}
           => <<call[r].tenant, call[r].email>> \in owners',
         pc \in {"channel", "store", "register", "user", "session"} => call[r].tenant \in audited',
         pc \in {"user", "session"} => call[r].email \in identities',
         pc = "session" => call[r].email \in users'
  PROVE  IInv'
<1> DEFINE q == [call[r] EXCEPT !.pc = pc]
<1>1. /\ q \in Making /\ q.pc = pc /\ q.email = call[r].email /\ q.slug = call[r].slug
      /\ q.token = call[r].token /\ q.tenant = call[r].tenant
  BY DEF Making
<1>2. call' = [call EXCEPT ![r] = q]
  BY DEF Goto, IInv, Types
<1> HIDE DEF q
<1>3. PICK y \in Making :
        /\ y.pc = pc /\ y.email = call[r].email /\ y.slug = call[r].slug
        /\ y.token = call[r].token /\ y.tenant = call[r].tenant
        /\ call' = [call EXCEPT ![r] = y]
  BY <1>1, <1>2
<1>4. y \in Call /\ Given(y.token, y.slug)
  BY <1>3, MakingIsCall DEF Given
<1>5. settings' \in [TenantIds -> Settings]
  BY DEF IInv, Types
<1>6. Progress(call[r])
  BY DEF IInv, Verifications
<1>7. Progress(y)'
  BY <1>3, <1>6 DEF Progress, Existing, Owning
<1> QED  BY <1>3, <1>4, <1>5, <1>7, Moves
-----------------------------------------------------------------------------
(* The steps of the workflow.                                              *)

\* A call that makes a tenant is a record of all it needs.
LEMMA Maker ==
  ASSUME IInv, NEW r \in Calls, call[r].pc \in {"slug", "tenant"} \cup Owning
  PROVE  call[r] \in Making /\ call[r] \in Call /\ Progress(call[r])
BY Shapes DEF IInv, Types, Verifications

LEMMA ReadSlugInv == ASSUME IInv, NEW r \in Calls, ReadSlug(r) PROVE IInv'
<1>1. call[r].pc = "slug" /\ UNCHANGED <<session, tenant, made, tokens, owners, audited, identities, users, settings>>
  BY DEF ReadSlug, creation, accounts
<1>2. CASE End(r)
  BY <1>1, <1>2, Ends DEF IInv, Types
<1>3. CASE Goto(r, "tenant")
  BY <1>1, <1>3, Maker, GoesOn DEF Owning
<1> QED  BY <1>2, <1>3 DEF ReadSlug

LEMMA InsertOwnerInv == ASSUME IInv, NEW r \in Calls, InsertOwner(r) PROVE IInv'
<1>1. call[r].pc = "owner" /\ UNCHANGED <<session, tenant, made, tokens, audited, identities, users, settings>>
      /\ owners \subseteq owners'
  BY DEF InsertOwner, creation, accounts
<1>2. CASE End(r)
  BY <1>1, <1>2, Ends DEF IInv, Types
<1>3. CASE Goto(r, "audit") /\ owners' = owners \cup {<<call[r].tenant, call[r].email>>}
  BY <1>1, <1>3, Maker, GoesOn DEF Owning
<1> QED  BY <1>2, <1>3 DEF InsertOwner

LEMMA RecordCreationInv == ASSUME IInv, NEW r \in Calls, RecordCreation(r) PROVE IInv'
<1>1. call[r].pc = "audit" /\ UNCHANGED <<session, tenant, made, tokens, owners, identities, users, settings>>
      /\ audited' = audited \cup {call[r].tenant} /\ Goto(r, "channel")
  BY DEF RecordCreation, creation, accounts
<1>2. call[r] \in Making /\ Progress(call[r])
  BY <1>1, Maker DEF Owning
<1> QED  BY <1>1, <1>2, GoesOn DEF Owning, Progress

LEMMA ChannelInv == ASSUME IInv, NEW r \in Calls, CreateDefaultSalesChannel(r) PROVE IInv'
<1>1. call[r].pc = "channel" /\ UNCHANGED <<session, tenant, made, tokens, owners, audited, identities, users, settings>>
      /\ Goto(r, "store")
  BY DEF CreateDefaultSalesChannel, creation, accounts
<1>2. call[r] \in Making /\ Progress(call[r])
  BY <1>1, Maker DEF Owning
<1> QED  BY <1>1, <1>2, GoesOn DEF Owning, Progress

LEMMA StoreInv == ASSUME IInv, NEW r \in Calls, ConfigureDefaultStore(r) PROVE IInv'
<1>1. call[r].pc = "store" /\ UNCHANGED <<session, tenant, made, tokens, owners, audited, identities, users, settings>>
  BY DEF ConfigureDefaultStore, creation, accounts
<1>2. call[r] \in Making /\ Progress(call[r])
  BY <1>1, Maker DEF Owning
<1>3. CASE End(r)
  BY <1>1, <1>3, Ends DEF IInv, Types
<1>4. CASE Goto(r, "register") /\ call[r].token # 0
  BY <1>1, <1>2, <1>4, GoesOn DEF Owning, Progress
<1> QED  BY <1>3, <1>4 DEF ConfigureDefaultStore

LEMMA FailInv == ASSUME IInv, NEW r \in Calls, Fail(r) PROVE IInv'
<1>1. UNCHANGED <<session, tenant, made, tokens, owners, audited, identities, users, settings>>
  BY DEF Fail, accounts
<1>2. CASE End(r)
  BY <1>1, <1>2, Ends DEF IInv, Types
<1>3. CASE Goto(r, "undoOwner") /\ call[r].pc \in {"channel", "store"}
  BY <1>1, <1>3, Maker, GoesOn DEF Owning
<1> QED  BY <1>2, <1>3 DEF Fail

LEMMA RegisterIdentityInv == ASSUME IInv, NEW r \in Calls, RegisterIdentity(r) PROVE IInv'
<1>1. call[r].pc = "register" /\ UNCHANGED <<session, tenant, made, tokens, owners, audited, users, settings>>
      /\ identities \subseteq identities'
  BY DEF RegisterIdentity, creation, places
<1>2. call[r] \in Making /\ Progress(call[r])
  BY <1>1, Maker DEF Owning
<1>3. CASE End(r)
  BY <1>1, <1>3, Ends DEF IInv, Types
<1>4. CASE Goto(r, "user") /\ identities' = identities \cup {call[r].email}
  BY <1>1, <1>2, <1>4, GoesOn DEF Owning, Progress
<1> QED  BY <1>3, <1>4 DEF RegisterIdentity

LEMMA CreateUserInv == ASSUME IInv, NEW r \in Calls, CreateUser(r) PROVE IInv'
<1>1. call[r].pc = "user" /\ UNCHANGED <<session, tenant, made, tokens, owners, audited, identities, settings>>
      /\ users \subseteq users'
  BY DEF CreateUser, creation, places
<1>2. call[r] \in Making /\ Progress(call[r])
  BY <1>1, Maker DEF Owning
<1>3. CASE End(r)
  BY <1>1, <1>3, Ends DEF IInv, Types
<1>4. CASE Goto(r, "session") /\ users' = users \cup {call[r].email}
  BY <1>1, <1>2, <1>4, GoesOn DEF Owning, Progress
<1> QED  BY <1>3, <1>4 DEF CreateUser

\* A request that comes with a token of a session, or with none.
LEMMA CreatingInv ==
  ASSUME IInv, NEW r \in Calls, NEW e \in Emails, NEW slug \in Slugs, NEW token \in 0..MaxTokens,
         NEW ctx \in Contexts, Put(r, Creating(e, slug, token, ctx)),
         token # 0 => session[e] # NoSession /\ Given(token, slug),
         UNCHANGED <<session, tenant, made, tokens, owners, audited, identities, users, settings>>
  PROVE  IInv'
<1> DEFINE q == Creating(e, slug, token, ctx)
<1>1. q \in Making /\ q.pc = "slug" /\ q.email = e /\ q.slug = slug /\ q.token = token
  BY DEF Creating, Making
<1>2. call' = [call EXCEPT ![r] = q]
  BY DEF Put
<1> HIDE DEF q
<1>3. Progress(q)'
  BY <1>1 DEF Progress, Owning
<1>4. q \in Call /\ q.pc \notin Owning
  BY <1>1, MakingIsCall DEF Owning
<1> QED  BY <1>1, <1>2, <1>3, <1>4, Moves DEF IInv, Types

LEMMA VerifyEmailInv ==
  ASSUME IInv, NEW r \in Calls, NEW e \in Emails, NEW ctx \in Contexts, VerifyEmail(r, e, ctx)
  PROVE  IInv'
<1>1. session[e] # NoSession /\ Put(r, Creating(e, session[e].slug, session[e].token, ctx))
      /\ UNCHANGED <<session, tenant, made, tokens, owners, audited, identities, users, settings>>
  BY DEF VerifyEmail, creation, accounts
<1>2. session[e] \in Session
  BY <1>1 DEF IInv, Types
<1>3. session[e].slug \in Slugs /\ session[e].token \in 0..MaxTokens
  BY <1>2, Numbers DEF Session
<1>4. Given(session[e].token, session[e].slug)
  BY <1>1 DEF Given
<1> QED  BY <1>1, <1>3, <1>4, CreatingInv

LEMMA CreateTenantInv ==
  ASSUME IInv, NEW r \in Calls, NEW e \in Emails, NEW slug \in Slugs, NEW ctx \in Contexts,
         CreateTenant(r, e, slug, ctx)
  PROVE  IInv'
<1>1. 0 \in 0..MaxTokens
  BY Numbers
<1> QED  BY <1>1, CreatingInv DEF CreateTenant, creation, accounts
-----------------------------------------------------------------------------
(* The wizard, the access configuration, and what changes sessions.        *)

LEMMA SetupWizardInv ==
  ASSUME IInv, NEW r \in Calls, NEW e \in Emails, NEW t \in TenantIds, SetupWizard(r, e, t)
  PROVE  IInv'
<1> DEFINE q == [pc |-> "project", email |-> e, tenant |-> t]
<1>1. session[e].tenant = t /\ call' = [call EXCEPT ![r] = q]
      /\ UNCHANGED <<session, tenant, made, tokens, owners, audited, identities, users, settings>>
  BY DEF SetupWizard, HasSession, Put, configuring, places
<1>2. session[e] # NoSession
  BY <1>1, NoneRows, Numbers
<1>3. q \in Call /\ q.pc = "project" /\ q.email = e
  BY DEF Call
<1> HIDE DEF q
<1>4. q \notin Making
  BY <1>3, Shapes
<1>5. Progress(q)'
  BY <1>1, <1>2, <1>3, <1>4 DEF Progress, Owning
<1>6. q.pc \notin Owning
  BY <1>3 DEF Owning
<1> QED  BY <1>1, <1>3, <1>4, <1>5, <1>6, Moves DEF IInv, Types

LEMMA WriteProjectInv == ASSUME IInv, NEW r \in Calls, WriteProject(r) PROVE IInv'
<1> DEFINE q == [call[r] EXCEPT !.pc = "mark"]
<1>1. call[r].pc = "project" /\ call' = [call EXCEPT ![r].pc = "mark"]
      /\ settings' = [settings EXCEPT ![call[r].tenant].project = r]
      /\ UNCHANGED <<session, tenant, made, tokens, owners, audited, identities, users>>
  BY DEF WriteProject, Goto, configuring, places
<1>2. call[r] \in [pc : {"project", "mark"}, email : Emails, tenant : TenantIds] /\ Progress(call[r])
  <2>1. call[r] \in Call /\ Progress(call[r])
    BY DEF IInv, Types, Verifications
  <2> QED  BY <1>1, <2>1 DEF Call, Idle
<1>3. q \in Call /\ q.pc = "mark" /\ q.email = call[r].email
  BY <1>2 DEF Call
<1>4. call' = [call EXCEPT ![r] = q]
  BY <1>1 DEF IInv, Types
<1> HIDE DEF q
<1>5. settings' \in [TenantIds -> Settings]
  BY <1>1 DEF IInv, Types, Settings
<1>6. PICK y \in Call : y = q
  BY <1>3
<1>7. y \notin Making /\ session[y.email] # NoSession /\ y.pc = "mark" /\ y.pc \notin Owning
  BY <1>1, <1>2, <1>3, <1>6, Shapes DEF Progress, Owning
<1>8. Progress(y)'
  BY <1>1, <1>7 DEF Progress, Owning
<1>9. call' = [call EXCEPT ![r] = y]
  BY <1>4, <1>6
<1> QED  BY <1>1, <1>5, <1>7, <1>8, <1>9, Moves

LEMMA ReadSettingsInv ==
  ASSUME IInv, NEW r \in Calls, NEW t \in TenantIds, ReadSettings(r, t) PROVE IInv'
<1> DEFINE q == [pc |-> "policy", tenant |-> t, seen |-> settings[t]]
<1>1. call' = [call EXCEPT ![r] = q]
      /\ UNCHANGED <<session, tenant, made, tokens, owners, audited, identities, users, settings>>
  BY DEF ReadSettings, Put, configuring, places
<1>2. q \in Call /\ q.pc = "policy"
  BY DEF Call, IInv, Types
<1> HIDE DEF q
<1>3. PICK y \in Call : y = q
  BY <1>2
<1>4. y \notin Making /\ y.pc = "policy" /\ y.pc \notin Owning
  BY <1>2, <1>3, Shapes DEF Owning
<1>5. Progress(y)'
  BY <1>4 DEF Progress, Owning
<1>6. call' = [call EXCEPT ![r] = y]
  BY <1>1, <1>3
<1> QED  BY <1>1, <1>4, <1>5, <1>6, Moves DEF IInv, Types

LEMMA UpdateAccessInv == ASSUME IInv, NEW r \in Calls, UpdateTenantAccessConfiguration(r) PROVE IInv'
<1>1. call[r].pc = "policy" /\ End(r)
      /\ UNCHANGED <<session, tenant, made, tokens, owners, audited, identities, users>>
  BY DEF UpdateTenantAccessConfiguration, configuring, places
<1>2. call[r] \in Call
  BY DEF IInv, Types
<1>3. call[r].seen \in Settings /\ call[r].tenant \in TenantIds
  BY <1>1, <1>2, Shapes
<1>4. MergedSettings(call[r].seen, r) \in Settings
  BY <1>3 DEF MergedSettings, Settings
<1>5. settings' \in [TenantIds -> Settings]
  BY <1>4 DEF UpdateTenantAccessConfiguration, IInv, Types
<1> QED  BY <1>1, <1>5, Ends

\* Sessions change and calls may end; a token is one that was given for
\* the slug, or the next.
LEMMA Sessions ==
  ASSUME IInv, NEW slug, tokens' \in 0..MaxTokens, tokens <= tokens',
         session' \in [Emails -> Session \cup {NoSession}], call' \in [Calls -> Call],
         UNCHANGED <<tenant, made, owners, audited, identities, users, settings>>,
         \A r \in Calls : call'[r] = call[r] \/ call'[r] = Idle,
         \A e \in Emails :
           \/ session'[e] = session[e]
           \/ /\ session'[e] # NoSession
              /\ \/ Given(session'[e].token, session'[e].slug)
                 \/ session'[e].slug = slug /\ session'[e].token = tokens' /\ tokens' = tokens + 1
              /\ Settled(e)'
  PROVE  IInv'
<1>1. Types'
  BY DEF IInv, Types, Existing
<1>2. Idle.pc = "idle" /\ Idle \notin Making
  <2>1. Idle \in Call /\ Idle.pc = "idle"
    BY DEF Idle, Call
  <2> QED  BY <2>1, Shapes
<1>3. \A e \in Emails : session[e] # NoSession => session'[e] # NoSession
  OBVIOUS
<1> HIDE DEF Idle
<1>4. ASSUME NEW r \in Calls PROVE (Progress(call[r]))'
  <2>1. CASE call'[r] = Idle
    BY <1>2, <2>1 DEF Progress, Owning
  <2>2. CASE call'[r] = call[r]
    <3>1. Progress(call[r]) /\ call[r] \in Call
      BY DEF IInv, Verifications, Types
    <3>2. \A y : call[r] = y => Progress(y)'
      BY <1>3, <3>1, ProgressKept
    <3>3. session'[call[r].email] # NoSession \/ ~(call[r] \in Making /\ call[r].token # 0)
      BY <1>3, <3>1 DEF Progress, Making
    <3>4. call[r].pc \in {"project", "mark"} => session'[call[r].email] # NoSession
      BY <1>3, <3>1, Shapes DEF Progress
    <3> QED  BY <2>2, <3>1, <3>3, <3>4 DEF Progress, Existing
  <2> QED  BY <2>1, <2>2
<1>5. \A r \in Calls : call'[r].pc \in Owning => call'[r] = call[r]
  BY <1>2 DEF Owning
<1>6. Apart'
  BY <1>5 DEF IInv, Verifications, Apart
<1>7. ASSUME NEW e \in Emails PROVE Settled(e)'
  <2>1. CASE session'[e] = session[e]
    <3>1. Settled(e)
      BY DEF IInv, Verifications
    <3> QED  BY <1>5, <2>1, <3>1 DEF Settled, Existing
  <2> QED  BY <2>1
<1>8. ASSUME NEW x \in Nat \ {0}, NEW s, Given(x, s)'
      PROVE  Given(x, s) \/ (s = slug /\ x = tokens' /\ tokens' = tokens + 1)
  <2>1. CASE \E e \in Emails : session'[e] # NoSession /\ session'[e].token = x /\ session'[e].slug = s
    BY <2>1 DEF Given
  <2>2. CASE \E r \in Calls : call'[r] \in Making /\ call'[r].token = x /\ call'[r].slug = s
    BY <1>2, <2>2 DEF Given
  <2>3. CASE \E t \in (Existing)' : tenant'[t].token = x /\ tenant'[t].slug = s
    BY <2>3 DEF Given, Existing
  <2> QED  BY <1>8, <2>1, <2>2, <2>3 DEF Given
<1>9. OneSlug'
  <2>1. tokens \in Nat /\ tokens' \in Nat
    BY Numbers DEF IInv, Types
  <2> SUFFICES ASSUME NEW x \in Nat \ {0}, NEW s \in Slugs, NEW u \in Slugs, Given(x, s)'
               PROVE  x <= tokens' /\ (Given(x, u)' => s = u)
    BY DEF OneSlug
  <2>2. x <= tokens'
    BY <1>8, <2>1 DEF IInv, OneSlug
  <2>3. ASSUME Given(x, u)' PROVE s = u
    <3>1. CASE x <= tokens
      <4>1. Given(x, s) /\ Given(x, u)
        BY <1>8, <2>1, <2>3, <3>1
      <4> QED  BY <4>1 DEF IInv, OneSlug
    <3>2. CASE ~(x <= tokens)
      <4>1. ~Given(x, s) /\ ~Given(x, u)
        BY <3>2 DEF IInv, OneSlug
      <4> QED  BY <1>8, <2>3, <4>1
    <3> QED  BY <3>1, <3>2
  <2> QED  BY <2>2, <2>3
<1>10. SlugsUnique'
  BY DEF IInv, SlugsUnique, Existing
<1> QED  BY <1>1, <1>4, <1>6, <1>7, <1>9, <1>10 DEF IInv, Verifications

LEMMA SignupInv == ASSUME IInv, NEW e \in Emails, NEW slug \in Slugs, Signup(e, slug) PROVE IInv'
<1> DEFINE s == IF session[e] = NoSession THEN NewSession(slug) ELSE Merged(session[e], slug)
<1>1. session' = [session EXCEPT ![e] = s] /\ tokens' = tokens + 1 /\ tokens < MaxTokens
      /\ UNCHANGED <<tenant, made, owners, audited, identities, users, settings, call>>
  BY DEF Signup
<1>2. tokens \in Nat /\ tokens' \in 0..MaxTokens /\ tokens + 1 \in 1..MaxTokens
  BY <1>1, Numbers DEF IInv, Types
<1>3. session[e] \in Session \cup {NoSession}
  BY DEF IInv, Types
<1>4. NewSession(slug) \in Session /\ NewSession(slug).slug = slug
      /\ NewSession(slug).token = tokens + 1 /\ NewSession(slug).tenant = None
  BY <1>2 DEF NewSession, Session
<1>5. s \in Session /\ s.slug = slug /\ s.token = tokens + 1 /\ s.tenant = session[e].tenant
  <2>1. CASE session[e] = NoSession
    BY <1>4, <2>1, NoneRows
  <2>2. CASE session[e] # NoSession
    <3>1. s = [NewSession(slug) EXCEPT !.tenant = session[e].tenant, !.at = session[e].at]
      BY <2>2 DEF Merged
    <3>2. session[e].tenant \in TenantIds \cup {None} /\ session[e].at \in SUBSET Timestamps
      BY <1>3, <2>2 DEF Session
    <3> QED  BY <1>4, <3>1, <3>2 DEF Session
  <2> QED  BY <2>1, <2>2
<1> HIDE DEF s
<1>6. session' \in [Emails -> Session \cup {NoSession}] /\ session'[e] = s
      /\ \A x \in Emails \ {e} : session'[x] = session[x]
  BY <1>1, <1>5 DEF IInv, Types
<1>7. Settled(e)'
  <2>1. Settled(e)
    BY DEF IInv, Verifications
  <2> QED  BY <1>1, <1>5, <1>6, <2>1 DEF Settled, Existing
<1>8. s # NoSession
  BY <1>5, NoneRows
<1>9. call' \in [Calls -> Call] /\ \A r \in Calls : call'[r] = call[r]
  BY <1>1 DEF IInv, Types
<1> QED  BY <1>1, <1>2, <1>5, <1>6, <1>7, <1>8, <1>9, Sessions

\* The same session, as far as anything here depends on it.
LEMMA SameSession ==
  ASSUME IInv, NEW e \in Emails, NEW s \in Session, session[e] # NoSession,
         s.token = session[e].token, s.slug = session[e].slug, s.tenant = session[e].tenant,
         session' = [session EXCEPT ![e] = s], tokens' = tokens, call' \in [Calls -> Call],
         \A r \in Calls : call'[r] = call[r] \/ call'[r] = Idle,
         UNCHANGED <<tenant, made, owners, audited, identities, users, settings>>
  PROVE  IInv'
<1>1. session' \in [Emails -> Session \cup {NoSession}] /\ session'[e] = s
      /\ \A x \in Emails \ {e} : session'[x] = session[x]
  BY DEF IInv, Types
<1>2. \A r \in Calls : call'[r].pc \in Owning => call'[r] = call[r]
  BY DEF Idle, Owning
<1>3. Settled(e)'
  <2>1. Settled(e)
    BY DEF IInv, Verifications
  <2> QED  BY <1>1, <1>2, <2>1 DEF Settled, Existing
<1>4. s # NoSession /\ Given(s.token, s.slug)
  BY NoneRows DEF Given
<1>5. tokens \in Nat /\ tokens' \in 0..MaxTokens
  BY Numbers DEF IInv, Types
<1> QED  BY <1>1, <1>3, <1>4, <1>5, Sessions

LEMMA ExpireInv == ASSUME IInv, NEW e \in Emails, Expire(e) PROVE IInv'
<1> DEFINE s == [session[e] EXCEPT !.expired = TRUE]
<1>1. session[e] # NoSession /\ session' = [session EXCEPT ![e].expired = TRUE]
      /\ UNCHANGED <<tokens, tenant, made, owners, audited, identities, users, settings, call>>
  BY DEF Expire
<1>2. session[e] \in Session
  BY <1>1 DEF IInv, Types
<1>3. s \in Session /\ s.token = session[e].token /\ s.slug = session[e].slug
      /\ s.tenant = session[e].tenant
  BY <1>2 DEF Session
<1>4. session' = [session EXCEPT ![e] = s]
  BY <1>1 DEF IInv, Types
<1> HIDE DEF s
<1>5. call' \in [Calls -> Call] /\ \A r \in Calls : call'[r] = call[r]
  BY <1>1 DEF IInv, Types
<1> QED  BY <1>1, <1>3, <1>4, <1>5, SameSession

\* A call that ends, and the others.
LEMMA Ended ==
  ASSUME IInv, NEW r \in Calls, End(r)
  PROVE  /\ call' \in [Calls -> Call] /\ call'[r] = Idle /\ call'[r].pc \notin Owning
         /\ \A x \in Calls \ {r} : call'[x] = call[x]
<1>1. Idle \in Call /\ Idle.pc \notin Owning
  BY DEF Idle, Call, Owning
<1> HIDE DEF Idle
<1> QED  BY <1>1 DEF End, Put, IInv, Types

LEMMA MarkProjectInv == ASSUME IInv, NEW r \in Calls, MarkProject(r) PROVE IInv'
<1> DEFINE e == call[r].email
           s == [session[e] EXCEPT !.at = @ \cup {"first_project_setup"}, !.step = "first_project_setup"]
<1>1. call[r].pc = "mark" /\ End(r)
      /\ session' = [session EXCEPT ![e].at = @ \cup {"first_project_setup"},
                                    ![e].step = "first_project_setup"]
      /\ UNCHANGED <<tokens, tenant, made, owners, audited, identities, users, settings>>
  BY DEF MarkProject, configuring, places
<1>2. e \in Emails /\ session[e] # NoSession
  BY <1>1, Shapes DEF IInv, Types, Verifications, Progress
<1>3. session[e] \in Session
  BY <1>2 DEF IInv, Types
<1>4. s \in Session /\ s.token = session[e].token /\ s.slug = session[e].slug
      /\ s.tenant = session[e].tenant
  BY <1>3 DEF Session, Timestamps
<1>5. session' = [session EXCEPT ![e] = s]
  BY <1>1, <1>2 DEF IInv, Types
<1> HIDE DEF s, e
<1>6. call' \in [Calls -> Call] /\ \A x \in Calls : call'[x] = call[x] \/ call'[x] = Idle
  BY <1>1, Ended
<1> QED  BY <1>1, <1>2, <1>4, <1>5, <1>6, SameSession

LEMMA CompleteSessionInv == ASSUME IInv, NEW r \in Calls, CompleteSession(r) PROVE IInv'
<1> DEFINE q == call[r]
           e == q.email
           t == q.tenant
           s == Completed(session[e], t)
<1>1. q.pc = "session" /\ End(r) /\ session' = [session EXCEPT ![e] = s]
      /\ UNCHANGED <<tokens, tenant, made, owners, audited, identities, users, settings>>
  BY DEF CompleteSession, creation, places
<1>2. q \in Making /\ Progress(q)
  BY <1>1, Maker DEF Owning
<1>3. e \in Emails /\ session[e] # NoSession /\ t \in Existing /\ tenant[t].owner = e
      /\ <<t, e>> \in owners /\ t \in audited /\ e \in identities /\ e \in users
  BY <1>1, <1>2 DEF Progress, Making, Owning
<1>4. session[e] \in Session /\ t \in TenantIds
  BY <1>3 DEF IInv, Types, Existing
<1>5. s \in Session /\ s.token = session[e].token /\ s.slug = session[e].slug /\ s.tenant = t
  BY <1>4 DEF Completed, Session, Timestamps, Verified
<1>6. call' \in [Calls -> Call] /\ call'[r].pc \notin Owning
      /\ (\A x \in Calls : call'[x] = call[x] \/ call'[x] = Idle)
      /\ \A x \in Calls \ {r} : call'[x] = call[x]
  BY <1>1, Ended
<1>7. \A x \in Calls : call'[x].pc \in Owning => call'[x].tenant # t
  BY <1>1, <1>6 DEF IInv, Verifications, Apart, Owning
<1>8. session' \in [Emails -> Session \cup {NoSession}] /\ session'[e] = s
      /\ \A x \in Emails \ {e} : session'[x] = session[x]
  BY <1>1, <1>3, <1>5 DEF IInv, Types
<1>9. s # NoSession /\ Given(s.token, s.slug)
  BY <1>3, <1>5, NoneRows DEF Given
<1> HIDE DEF s
<1>10. tokens \in Nat /\ tokens' \in 0..MaxTokens
  BY <1>1, Numbers DEF IInv, Types
<1>11. ASSUME NEW x \in Emails, session'[x] # session[x]
       PROVE  session'[x] # NoSession /\ Given(session'[x].token, session'[x].slug) /\ Settled(x)'
  <2>1. x = e /\ session'[x] = s
    BY <1>8, <1>11
  <2>2. Settled(x)'
    BY <1>1, <1>3, <1>5, <1>7, <1>8, <2>1 DEF Settled, Existing
  <2> QED  BY <1>9, <2>1, <2>2
<1> QED  BY <1>1, <1>6, <1>8, <1>10, <1>11, Sessions

LEMMA RestartInv == ASSUME IInv, Restart PROVE IInv'
<1>1. call' = [r \in Calls |-> Idle] /\ UNCHANGED <<session, tokens, tenant, made, owners, audited, identities, users, settings>>
  BY DEF Restart, accounts, places
<1>2. Idle \in Call
  BY DEF Idle, Call
<1> HIDE DEF Idle
<1>3. call' \in [Calls -> Call] /\ \A r \in Calls : call'[r] = Idle
  BY <1>1, <1>2
<1>4. tokens \in Nat /\ tokens' \in 0..MaxTokens /\ session' \in [Emails -> Session \cup {NoSession}]
  BY <1>1, Numbers DEF IInv, Types
<1> QED  BY <1>1, <1>3, <1>4, Sessions
-----------------------------------------------------------------------------
(* The row of a tenant comes and goes.                                     *)

\* The id is one nobody has, and the slug one no tenant has.
LEMMA InsertTenantInv == ASSUME IInv, NEW r \in Calls, InsertTenant(r) PROVE IInv'
<1> DEFINE n == made + 1
<1>1. call[r].pc = "tenant" /\ made < MaxTenants /\ made' = n
      /\ UNCHANGED <<session, tokens, owners, audited, identities, users, settings>>
  BY DEF InsertTenant, creation, accounts
<1>2. call[r] \in Making /\ Progress(call[r])
  BY <1>1, Maker DEF Owning
<1>3. made \in Nat /\ n \in TenantIds /\ n # None /\ n \notin Existing
      /\ \A t \in Existing : t # n /\ t <= n /\ t # None
  BY <1>1, Numbers DEF IInv, Types, Existing, TenantIds
<1>4. CASE End(r) /\ tenant' = tenant
  <2>1. call' \in [Calls -> Call] /\ call'[r] = Idle /\ call'[r].pc \notin Owning
        /\ \A x \in Calls \ {r} : call'[x] = call[x]
    BY <1>4, Ended
  <2>2. Types'
    BY <1>1, <1>3, <1>4, <2>1 DEF IInv, Types, Existing, TenantIds
  <2>3. Idle \notin Making /\ Idle.pc = "idle"
    BY Shapes DEF Idle, Call
  <2> HIDE DEF Idle
  <2>4. ASSUME NEW x \in Calls PROVE (Progress(call[x]))'
    BY <1>1, <1>4, <2>1, <2>3 DEF IInv, Verifications, Progress, Existing, Owning
  <2>5. Apart' /\ \A e \in Emails : Settled(e)'
    BY <1>1, <1>4, <2>1 DEF IInv, Verifications, Apart, Settled, Existing
  <2>6. ASSUME NEW x \in Nat \ {0}, NEW slug, Given(x, slug)' PROVE Given(x, slug)
    BY <1>1, <1>4, <2>1, <2>3, <2>6 DEF Given, Existing
  <2>7. OneSlug' /\ SlugsUnique'
    BY <1>1, <1>4, <2>6 DEF IInv, OneSlug, SlugsUnique, Existing
  <2> QED  BY <2>2, <2>4, <2>5, <2>7 DEF IInv, Verifications
<1>5. CASE ~SlugTaken(call[r].slug)
  <2> DEFINE row == [slug |-> call[r].slug, owner |-> call[r].email, token |-> call[r].token]
             q == [call[r] EXCEPT !.pc = "owner", !.tenant = n]
  <2>1. tenant' = [tenant EXCEPT ![n] = row] /\ call' = [call EXCEPT ![r] = q]
    BY <1>1, <1>5 DEF InsertTenant, Put
  <2>2. row \in Row /\ row.slug = call[r].slug /\ row.token = call[r].token
    BY <1>2 DEF Row, Making
  <2>3. q \in Making /\ q.pc = "owner" /\ q.tenant = n /\ q.email = call[r].email
        /\ q.slug = call[r].slug /\ q.token = call[r].token
        /\ row = [slug |-> q.slug, owner |-> q.email, token |-> q.token]
    BY <1>2, <1>3 DEF Making, Owning
  <2> HIDE DEF n, row, q
  <2>4. /\ tenant' \in [TenantIds -> Row \cup {NoRow}] /\ tenant'[n] = row
        /\ \A t \in TenantIds \ {n} : tenant'[t] = tenant[t]
    BY <1>3, <2>1, <2>2 DEF IInv, Types
  <2>5. call' \in [Calls -> Call] /\ call'[r] = q /\ \A x \in Calls \ {r} : call'[x] = call[x]
    BY <2>1, <2>3, MakingIsCall DEF IInv, Types
  <2>6. row # NoRow
    BY <2>2, NoneRows
  <2>7. Existing' = Existing \cup {n}
    BY <1>3, <2>4, <2>6 DEF Existing
  <2>8. Types'
    BY <1>1, <1>3, <2>4, <2>5, <2>7 DEF IInv, Types, TenantIds, n
  <2>9. ASSUME NEW x \in Calls PROVE (Progress(call[x]))'
    <3>1. CASE x = r
      BY <1>1, <1>2, <2>3, <2>4, <2>5, <2>7, <3>1 DEF Progress, Owning
    <3>2. CASE x # r
      <4>1. Progress(call[x]) /\ (call[x].pc \in Owning => call[x].tenant \in Existing)
        BY DEF IInv, Verifications, Progress
      <4>2. call[x].pc \in Owning => tenant'[call[x].tenant] = tenant[call[x].tenant]
        BY <1>3, <2>4, <4>1 DEF Existing
      <4> QED  BY <1>1, <2>5, <2>7, <3>2, <4>1, <4>2 DEF Progress
    <3> QED  BY <3>1, <3>2
  <2>10. Apart'
    <3>1. \A x \in Calls : call[x].pc \in Owning => call[x].tenant # n
      BY <1>3 DEF IInv, Verifications, Progress
    <3> QED  BY <2>3, <2>5, <3>1 DEF IInv, Verifications, Apart
  <2>11. ASSUME NEW e \in Emails PROVE Settled(e)'
    <3>1. Settled(e) /\ (session[e].tenant # None => session[e].tenant # n)
      BY <1>3 DEF IInv, Verifications, Settled
    <3>2. session[e].tenant # None => tenant'[session[e].tenant] = tenant[session[e].tenant]
      BY <2>4, <3>1 DEF Settled, Existing
    <3> QED  BY <1>1, <2>3, <2>5, <2>7, <3>1, <3>2 DEF Settled
  <2>12. ASSUME NEW x \in Nat \ {0}, NEW slug, Given(x, slug)' PROVE Given(x, slug)
    <3>1. CASE \E e \in Emails : session'[e] # NoSession /\ session'[e].token = x /\ session'[e].slug = slug
      BY <1>1, <3>1 DEF Given
    <3>2. CASE \E c \in Calls : call'[c] \in Making /\ call'[c].token = x /\ call'[c].slug = slug
      BY <1>2, <2>3, <2>5, <3>2 DEF Given
    <3>3. CASE \E t \in Existing' : tenant'[t].token = x /\ tenant'[t].slug = slug
      BY <1>2, <1>3, <2>2, <2>4, <2>7, <3>3 DEF Given, Existing
    <3> QED  BY <2>12, <3>1, <3>2, <3>3 DEF Given
  <2>13. OneSlug'
    BY <1>1, <2>12 DEF IInv, OneSlug
  <2>14. SlugsUnique'
    <3>1. \A t \in Existing : tenant'[t] = tenant[t] /\ tenant[t].slug # call[r].slug
      BY <1>3, <1>5, <2>4 DEF SlugTaken, Existing
    <3> QED  BY <2>2, <2>4, <2>7, <3>1 DEF IInv, SlugsUnique
  <2> QED  BY <2>8, <2>9, <2>10, <2>11, <2>13, <2>14 DEF IInv, Verifications
<1> QED  BY <1>1, <1>4, <1>5 DEF InsertTenant

\* What is taken back is nobody else's: its call is the only one about it,
\* and its session is not complete.
LEMMA UndoOwnerInv == ASSUME IInv, NEW r \in Calls, UndoOwner(r) PROVE IInv'
<1> DEFINE q == [call[r] EXCEPT !.pc = "undoTenant"]
           t == call[r].tenant
<1>1. call[r].pc = "undoOwner" /\ call' = [call EXCEPT ![r] = q] /\ owners' = {o \in owners : o[1] # t}
      /\ UNCHANGED <<session, tokens, tenant, made, audited, identities, users, settings>>
  BY DEF UndoOwner, creation, accounts, Goto, IInv, Types
<1>2. call[r] \in Making /\ Progress(call[r])
  BY <1>1, Maker DEF Owning
<1>3. q \in Making /\ q.pc = "undoTenant" /\ q.tenant = t /\ q.email = call[r].email
      /\ q.slug = call[r].slug /\ q.token = call[r].token
  BY <1>2 DEF Making, Owning
<1> HIDE DEF q
<1>4. call' \in [Calls -> Call] /\ call'[r] = q /\ \A x \in Calls \ {r} : call'[x] = call[x]
  BY <1>1, <1>3, MakingIsCall DEF IInv, Types
<1>5. \A x, e : <<x, e>> \in owners /\ x # t => <<x, e>> \in owners'
  BY <1>1
<1>6. \A x \in Calls \ {r} : call[x].pc \in Owning => call[x].tenant # t
  BY <1>1 DEF IInv, Verifications, Apart, Owning
<1>7. Types'
  BY <1>1, <1>4 DEF IInv, Types, Existing
<1>8. ASSUME NEW x \in Calls PROVE (Progress(call[x]))'
  <2>1. CASE x = r
    BY <1>1, <1>2, <1>3, <1>4, <2>1 DEF Progress, Owning, Existing
  <2>2. CASE x # r
    <3>1. Progress(call[x]) /\ call[x] \in Call
      BY DEF IInv, Verifications, Types
    <3>2. call[x].pc \in Owning => (<<call[x].tenant, call[x].email>> \in owners
                                      => <<call[x].tenant, call[x].email>> \in owners')
      BY <1>5, <1>6, <2>2
    <3>3. \A y : call[x] = y => Progress(y)'
      BY <1>1, <3>1, <3>2, ProgressKept
    <3> QED  BY <1>1, <1>4, <2>2, <3>3 DEF Progress, Existing
  <2> QED  BY <2>1, <2>2
<1>9. Apart'
  BY <1>1, <1>3, <1>4 DEF IInv, Verifications, Apart, Owning
<1>10. ASSUME NEW e \in Emails PROVE Settled(e)'
  <2>1. Settled(e) /\ (session[e].tenant # None => session[e].tenant # t)
    BY <1>1 DEF IInv, Verifications, Settled, Owning
  <2>2. \A x \in Calls : call'[x].pc \in Owning /\ session[e].tenant # None
          => call'[x].tenant # session[e].tenant
    BY <1>1, <1>3, <1>4, <2>1 DEF Settled, Owning
  <2> QED  BY <1>1, <1>5, <2>1, <2>2 DEF Settled, Existing
<1>11. ASSUME NEW x \in Nat \ {0}, NEW slug, Given(x, slug)' PROVE Given(x, slug)
  BY <1>1, <1>2, <1>3, <1>4, <1>11 DEF Given, Existing
<1>12. OneSlug' /\ SlugsUnique'
  BY <1>1, <1>11 DEF IInv, OneSlug, SlugsUnique, Existing
<1> QED  BY <1>7, <1>8, <1>9, <1>10, <1>12 DEF IInv, Verifications

LEMMA UndoTenantInv == ASSUME IInv, NEW r \in Calls, UndoTenant(r) PROVE IInv'
<1> DEFINE t == call[r].tenant
<1>1. call[r].pc = "undoTenant" /\ End(r) /\ tenant' = [tenant EXCEPT ![t] = NoRow]
      /\ UNCHANGED <<session, tokens, made, owners, audited, identities, users, settings>>
  BY DEF UndoTenant, creation, accounts
<1>2. call' \in [Calls -> Call] /\ call'[r] = Idle /\ call'[r].pc \notin Owning
      /\ \A x \in Calls \ {r} : call'[x] = call[x]
  BY <1>1, Ended
<1>3. Idle \notin Making /\ Idle.pc = "idle"
  BY Shapes DEF Idle, Call
<1> HIDE DEF Idle, t
<1>4. tenant' \in [TenantIds -> Row \cup {NoRow}] /\ \A x \in TenantIds : x # t => tenant'[x] = tenant[x]
  BY <1>1 DEF IInv, Types
<1>5. Existing' \subseteq Existing /\ \A x \in Existing' : tenant'[x] = tenant[x]
  BY <1>1, <1>4 DEF IInv, Types, Existing
<1>6. \A x \in Existing : x # t => x \in Existing' /\ tenant'[x] = tenant[x]
  BY <1>4 DEF Existing
<1>7. \A x \in Calls \ {r} : call[x].pc \in Owning => call[x].tenant # t
  BY <1>1 DEF IInv, Verifications, Apart, Owning, t
<1>8. Types'
  BY <1>1, <1>2, <1>4, <1>5 DEF IInv, Types
<1>9. ASSUME NEW x \in Calls PROVE (Progress(call[x]))'
  <2>1. CASE x = r
    BY <1>2, <1>3, <2>1 DEF Progress, Owning
  <2>2. CASE x # r
    <3>1. Progress(call[x])
      BY DEF IInv, Verifications
    <3> QED  BY <1>1, <1>2, <1>6, <1>7, <2>2, <3>1 DEF Progress
  <2> QED  BY <2>1, <2>2
<1>10. Apart'
  BY <1>2 DEF IInv, Verifications, Apart
<1>11. ASSUME NEW e \in Emails PROVE Settled(e)'
  <2>1. Settled(e) /\ (session[e].tenant # None => session[e].tenant # t)
    BY <1>1 DEF IInv, Verifications, Settled, Owning, t
  <2> QED  BY <1>1, <1>2, <1>6, <2>1 DEF Settled
<1>12. ASSUME NEW x \in Nat \ {0}, NEW slug, Given(x, slug)' PROVE Given(x, slug)
  BY <1>1, <1>2, <1>3, <1>5, <1>12 DEF Given
<1>13. OneSlug' /\ SlugsUnique'
  BY <1>1, <1>5, <1>12 DEF IInv, OneSlug, SlugsUnique
<1> QED  BY <1>8, <1>9, <1>10, <1>11, <1>13 DEF IInv, Verifications
-----------------------------------------------------------------------------
(* All steps, and the theorems.                                            *)

LEMMA InitInv == Init => IInv
<1> SUFFICES ASSUME Init PROVE IInv
  OBVIOUS
<1>1. Existing = {} /\ \A r \in Calls : call[r] = Idle
  BY DEF Init, Existing
<1>2. Idle \in Call /\ Idle.pc = "idle" /\ Idle \notin Making
  BY Shapes DEF Idle, Call
<1> HIDE DEF Idle
<1>3. Types
  <2>1. NoSettings \in Settings
    BY DEF NoSettings, Settings
  <2>2. call \in [Calls -> Call]
    BY <1>2 DEF Init
  <2> QED  BY <1>1, <2>1, <2>2, Numbers DEF Init, Types
<1>4. Verifications
  <2>1. \A r \in Calls : Progress(call[r])
    BY <1>1, <1>2 DEF Progress, Owning
  <2>2. Apart
    BY <1>1, <1>2 DEF Apart, Owning
  <2>3. \A e \in Emails : Settled(e)
    BY NoneRows DEF Init, Settled
  <2> QED  BY <2>1, <2>2, <2>3 DEF Verifications
<1>5. OneSlug /\ SlugsUnique
  <2>1. \A x, slug : ~Given(x, slug)
    BY <1>1, <1>2 DEF Given, Init
  <2> QED  BY <1>1, <2>1 DEF OneSlug, SlugsUnique
<1> QED  BY <1>3, <1>4, <1>5 DEF IInv

LEMMA WorkflowInv == ASSUME IInv, NEW r \in Calls, Workflow(r) PROVE IInv'
BY ReadSlugInv, InsertTenantInv, InsertOwnerInv, RecordCreationInv, ChannelInv, StoreInv,
   UndoOwnerInv, UndoTenantInv DEF Workflow

LEMMA Stutter == ASSUME IInv, UNCHANGED vars PROVE IInv'
BY DEF vars, IInv, Types, Verifications, Progress, Apart, Settled, OneSlug, Given, SlugsUnique, Existing

LEMMA NextInv == IInv /\ [Next]_vars => IInv'
<1> SUFFICES ASSUME IInv, [Next]_vars PROVE IInv'
  OBVIOUS
<1>1. CASE \E e \in Emails : Expire(e) \/ \E slug \in Slugs : Signup(e, slug)
  BY <1>1, ExpireInv, SignupInv
<1>2. ASSUME NEW r \in Calls,
             \E e \in Emails, ctx \in Contexts :
               VerifyEmail(r, e, ctx) \/ \E slug \in Slugs : CreateTenant(r, e, slug, ctx)
      PROVE  IInv'
  BY <1>2, VerifyEmailInv, CreateTenantInv
<1>3. ASSUME NEW r \in Calls,
             \E t \in TenantIds : ReadSettings(r, t) \/ \E e \in Emails : SetupWizard(r, e, t)
      PROVE  IInv'
  BY <1>3, ReadSettingsInv, SetupWizardInv
<1>4. ASSUME NEW r \in Calls,
             \/ Workflow(r) \/ Fail(r)
             \/ RegisterIdentity(r) \/ CreateUser(r) \/ CompleteSession(r)
             \/ WriteProject(r) \/ MarkProject(r) \/ UpdateTenantAccessConfiguration(r)
      PROVE  IInv'
  BY <1>4, WorkflowInv, FailInv, RegisterIdentityInv, CreateUserInv, CompleteSessionInv,
     WriteProjectInv, MarkProjectInv, UpdateAccessInv
<1>5. CASE Restart
  BY <1>5, RestartInv
<1>6. CASE UNCHANGED vars
  BY <1>6, Stutter
<1> QED  BY <1>1, <1>2, <1>3, <1>4, <1>5, <1>6 DEF Next

LEMMA Invariant == Spec => []IInv
BY InitInv, NextInv, PTL DEF Spec

\* A session that names a tenant stands for all a verification creates,
\* whatever failed and whatever was compensated or restarted in between:
\* a compensation takes back only the tenant of its own call, whose session
\* is not complete.
THEOREM VerifiedComplete == Spec => []VerifiedIsComplete
<1>1. IInv => VerifiedIsComplete
  BY DEF IInv, Verifications, Settled, VerifiedIsComplete
<1> QED  BY <1>1, Invariant, PTL

\* A token makes one tenant at most: all that carries it carries the slug it
\* was given for, and the slugs of the tenants are unique.
THEOREM TokensMakeOne == Spec => []TokenMakesOneTenant
<1>1. ASSUME IInv, NEW t \in Existing, NEW u \in Existing,
             tenant[t].token # 0, tenant[t].token = tenant[u].token
      PROVE  t = u
  <2>1. tenant[t] \in Row /\ tenant[u] \in Row
    BY <1>1 DEF IInv, Types, Existing
  <2>2. tenant[t].token \in Nat \ {0} /\ tenant[t].slug \in Slugs /\ tenant[u].slug \in Slugs
    BY <1>1, <2>1, NoneRows
  <2>3. Given(tenant[t].token, tenant[t].slug) /\ Given(tenant[t].token, tenant[u].slug)
    BY <1>1 DEF Given
  <2>4. tenant[t].slug = tenant[u].slug
    BY <1>1, <2>2, <2>3 DEF IInv, OneSlug
  <2> QED  BY <1>1, <2>4 DEF IInv, SlugsUnique
<1>2. IInv => TokenMakesOneTenant
  BY <1>1 DEF TokenMakesOneTenant
<1> QED  BY <1>2, Invariant, PTL
-----------------------------------------------------------------------------
(* What a creation leaves with the framework.                              *)

\* The calls whose tenant can still be taken back.
Undoable == {"owner", "audit", "channel", "store", "undoOwner", "undoTenant"}

Tables == /\ owners \subseteq TenantIds \X Emails /\ audited \subseteq 1..made
          /\ channels \subseteq [for : TenantIds, scope : Contexts]
          /\ store \in TenantIds \cup {Home}
          /\ identities \subseteq Emails /\ users \subseteq Emails

\* The store is that of no tenant that can still be taken back.
Lodged == store # Home => /\ store \in Existing
                          /\ \A r \in Calls : call[r].pc \in Undoable => call[r].tenant # store

\* Only a context whose row of the owner was accepted comes to the channel.
Admitted(q) == q.pc \in {"audit", "channel", "store"} => Insertable(q.ctx, q.tenant)
Scoped == /\ \A r \in Calls : Admitted(call[r])
          /\ \A c \in channels : Insertable(c.scope, c.for)

Left == Tables /\ Lodged /\ Scoped

\* A call moves on, or ends.
LEMMA MovesLeft ==
  ASSUME IInv, Left, NEW r \in Calls, NEW q \in Call, call' = [call EXCEPT ![r] = q],
         UNCHANGED <<enforced, tenant, made, channels, store>>,
         owners' \subseteq TenantIds \X Emails, audited' \subseteq 1..made,
         identities' \subseteq Emails, users' \subseteq Emails,
         q.pc \in Undoable => call[r].pc \in Undoable /\ q.tenant = call[r].tenant,
         Admitted(q)
  PROVE  Left'
<1>1. call'[r] = q /\ \A x \in Calls \ {r} : call'[x] = call[x]
  BY DEF IInv, Types
<1>2. Tables'
  BY DEF Left, Tables
<1>3. Lodged'
  BY <1>1 DEF Left, Lodged, Existing
<1>4. Scoped'
  BY <1>1 DEF Left, Scoped, Admitted, Insertable
<1> QED  BY <1>2, <1>3, <1>4 DEF Left

LEMMA EndsLeft ==
  ASSUME IInv, Left, NEW r \in Calls, End(r),
         UNCHANGED <<enforced, tenant, made, channels, store>>,
         owners' \subseteq TenantIds \X Emails, audited' \subseteq 1..made,
         identities' \subseteq Emails, users' \subseteq Emails
  PROVE  Left'
<1>1. Idle \in Call /\ Idle.pc = "idle" /\ call' = [call EXCEPT ![r] = Idle]
  BY DEF Idle, Call, End, Put
<1> HIDE DEF Idle
<1>2. Admitted(Idle) /\ Idle.pc \notin Undoable
  BY <1>1 DEF Admitted, Undoable
<1> QED  BY <1>1, <1>2, MovesLeft

LEMMA GoesOnLeft ==
  ASSUME IInv, Left, NEW r \in Calls, call[r] \in Making, NEW pc \in {"slug", "tenant"} \cup Owning,
         Goto(r, pc), UNCHANGED <<enforced, tenant, made, channels, store>>,
         owners' \subseteq TenantIds \X Emails, audited' \subseteq 1..made,
         identities' \subseteq Emails, users' \subseteq Emails,
         pc \in Undoable => call[r].pc \in Undoable,
         pc \in {"audit", "channel", "store"} => Insertable(call[r].ctx, call[r].tenant)
  PROVE  Left'
<1> DEFINE q == [call[r] EXCEPT !.pc = pc]
<1>1. q \in Making /\ q.pc = pc /\ q.tenant = call[r].tenant /\ q.ctx = call[r].ctx
  BY DEF Making
<1>2. call' = [call EXCEPT ![r] = q]
  BY DEF Goto, IInv, Types
<1> HIDE DEF q
<1>3. q \in Call /\ Admitted(q)
  BY <1>1, MakingIsCall DEF Admitted
<1> QED  BY <1>1, <1>2, <1>3, MovesLeft

LEMMA WorkflowLeft == ASSUME IInv, Left, NEW r \in Calls, Workflow(r) PROVE Left'
<1> USE DEF creation, accounts
<1>0. Tables /\ Scoped
  BY DEF Left
<1>1. CASE ReadSlug(r)
  <2>1. call[r] \in Making
    BY <1>1, Maker DEF ReadSlug
  <2> QED  BY <1>0, <1>1, <2>1, EndsLeft, GoesOnLeft DEF ReadSlug, Tables, Undoable
<1>2. CASE InsertOwner(r)
  <2>1. call[r] \in Making /\ call[r].tenant \in TenantIds /\ call[r].email \in Emails
    <3>1. call[r] \in Making /\ Progress(call[r]) /\ call[r].pc = "owner"
      BY <1>2, Maker DEF InsertOwner, Owning
    <3> QED  BY <3>1 DEF Making, Progress, Owning, Existing
  <2>2. CASE End(r) /\ owners' = owners
    BY <1>0, <1>2, <2>2, EndsLeft DEF InsertOwner, Tables
  <2>3. CASE Goto(r, "audit") /\ Insertable(call[r].ctx, call[r].tenant)
             /\ owners' = owners \cup {<<call[r].tenant, call[r].email>>}
    <3>1. owners' \subseteq TenantIds \X Emails
      BY <1>0, <2>1, <2>3 DEF Tables
    <3> QED  BY <1>0, <1>2, <2>1, <2>3, <3>1, GoesOnLeft DEF InsertOwner, Tables, Undoable, Owning
  <2> QED  BY <1>2, <2>2, <2>3 DEF InsertOwner
<1>3. CASE RecordCreation(r)
  <2>1. call[r] \in Making /\ Progress(call[r]) /\ call[r].pc = "audit"
    BY <1>3, Maker DEF RecordCreation, Owning
  <2>2. call[r].tenant \in 1..made
    BY <2>1, Numbers DEF Progress, Owning, IInv, Types, Existing, TenantIds
  <2>3. Insertable(call[r].ctx, call[r].tenant) /\ audited' \subseteq 1..made
    BY <1>0, <1>3, <2>1, <2>2 DEF Scoped, Admitted, RecordCreation, Tables
  <2> QED  BY <1>0, <1>3, <2>1, <2>3, GoesOnLeft DEF RecordCreation, Tables, Undoable, Owning
<1>4. CASE CreateDefaultSalesChannel(r)
  <2> DEFINE q == [call[r] EXCEPT !.pc = "store"]
             c == [for |-> call[r].tenant, scope |-> call[r].ctx]
  <2>1. call[r] \in Making /\ Progress(call[r]) /\ call[r].pc = "channel"
    BY <1>4, Maker DEF CreateDefaultSalesChannel, Owning
  <2>2. q \in Making /\ q.pc = "store" /\ q.tenant = call[r].tenant /\ q.ctx = call[r].ctx
    BY <2>1 DEF Making, Owning
  <2>3. call' = [call EXCEPT ![r] = q]
    BY <1>4 DEF CreateDefaultSalesChannel, Goto, IInv, Types
  <2>4. c \in [for : TenantIds, scope : Contexts] /\ Insertable(c.scope, c.for)
    BY <1>0, <2>1 DEF Scoped, Admitted, Making, Progress, Owning, Existing
  <2>5. channels' = channels \cup {c}
    BY <1>4 DEF CreateDefaultSalesChannel
  <2> HIDE DEF q, c
  <2>6. call'[r] = q /\ \A x \in Calls \ {r} : call'[x] = call[x]
    BY <2>3 DEF IInv, Types
  <2>7. Tables'
    BY <1>0, <1>4, <2>4, <2>5 DEF CreateDefaultSalesChannel, Tables
  <2>8. Lodged'
    BY <1>4, <2>1, <2>2, <2>6 DEF CreateDefaultSalesChannel, Left, Lodged, Existing, Undoable
  <2>9. Scoped'
    BY <1>0, <1>4, <2>1, <2>2, <2>4, <2>5, <2>6 DEF CreateDefaultSalesChannel, Scoped, Admitted, Insertable
  <2> QED  BY <2>7, <2>8, <2>9 DEF Left
<1>5. CASE ConfigureDefaultStore(r)
  <2> DEFINE q == IF call[r].token = 0 THEN Idle ELSE [call[r] EXCEPT !.pc = "register"]
  <2>1. call[r] \in Making /\ Progress(call[r]) /\ call[r].pc = "store"
    BY <1>5, Maker DEF ConfigureDefaultStore, Owning
  <2>2. q.pc \notin Undoable /\ q.pc \notin {"audit", "channel", "store"}
    BY <2>1 DEF Idle, Making, Undoable, Owning
  <2>3. call' = [call EXCEPT ![r] = q]
    BY <1>5 DEF ConfigureDefaultStore, Goto, End, Put, IInv, Types
  <2> HIDE DEF q
  <2>4. call'[r] = q /\ \A x \in Calls \ {r} : call'[x] = call[x]
    BY <2>3 DEF IInv, Types
  <2>5. call[r].tenant \in Existing /\ call[r].tenant \in TenantIds /\ store' = call[r].tenant
    BY <1>5, <2>1 DEF ConfigureDefaultStore, Progress, Owning, Existing
  <2>6. \A x \in Calls \ {r} : call[x].pc \in Undoable => call[x].tenant # call[r].tenant
    BY <2>1 DEF IInv, Verifications, Apart, Owning, Undoable
  <2>7. Tables'
    BY <1>0, <1>5, <2>5 DEF ConfigureDefaultStore, Tables
  <2>8. Lodged'
    BY <1>5, <2>2, <2>4, <2>5, <2>6 DEF ConfigureDefaultStore, Lodged, Existing
  <2>9. Scoped'
    BY <1>0, <1>5, <2>2, <2>4 DEF ConfigureDefaultStore, Scoped, Admitted, Insertable
  <2> QED  BY <2>7, <2>8, <2>9 DEF Left
<1>6. CASE UndoOwner(r)
  <2>1. call[r] \in Making
    BY <1>6, Maker DEF UndoOwner, Owning
  <2> QED  BY <1>0, <1>6, <2>1, GoesOnLeft DEF UndoOwner, Tables, Undoable, Owning
<1>7. CASE UndoTenant(r)
  <2>1. call' = [call EXCEPT ![r] = Idle] /\ Idle.pc = "idle"
    BY <1>7 DEF UndoTenant, End, Put, Idle
  <2> HIDE DEF Idle
  <2>2. call'[r] = Idle /\ \A x \in Calls \ {r} : call'[x] = call[x]
    BY <2>1 DEF IInv, Types
  <2>3. store # call[r].tenant \/ store = Home
    BY <1>7 DEF UndoTenant, Left, Lodged, Undoable
  <2>4. Tables'
    BY <1>0, <1>7 DEF UndoTenant, Tables
  <2>5. store # Home => store \in Existing'
    BY <1>0, <1>7, <2>3 DEF UndoTenant, Tables, Left, Lodged, Existing, IInv, Types
  <2>6. Lodged'
    BY <1>7, <2>1, <2>2, <2>5 DEF UndoTenant, Left, Lodged, Undoable
  <2>7. Scoped'
    BY <1>0, <1>7, <2>1, <2>2 DEF UndoTenant, Scoped, Admitted, Insertable
  <2> QED  BY <2>4, <2>6, <2>7 DEF Left
<1>8. CASE InsertTenant(r)
  <2> DEFINE n == made + 1
             row == [slug |-> call[r].slug, owner |-> call[r].email, token |-> call[r].token]
             q == [call[r] EXCEPT !.pc = "owner", !.tenant = n]
  <2>1. call[r] \in Making /\ call[r].pc = "tenant" /\ made < MaxTenants /\ made' = n
        /\ UNCHANGED <<enforced, owners, audited, channels, store, identities, users>>
    BY <1>8, Maker DEF InsertTenant
  <2>2. made \in Nat /\ n \in TenantIds /\ 1..made \subseteq 1..n /\ \A t \in Existing : t # n
    BY <2>1, Numbers DEF IInv, Types, Existing, TenantIds
  <2>3. Tables'
    BY <1>0, <2>1, <2>2 DEF Tables
  <2>4. CASE End(r) /\ tenant' = tenant
    <3>1. call' = [call EXCEPT ![r] = Idle] /\ Idle.pc = "idle"
      BY <2>4 DEF End, Put, Idle
    <3> HIDE DEF Idle
    <3>2. call'[r] = Idle /\ \A x \in Calls \ {r} : call'[x] = call[x]
      BY <3>1 DEF IInv, Types
    <3>3. Lodged'
      BY <2>1, <2>4, <3>1, <3>2 DEF Left, Lodged, Undoable, Existing
    <3>4. Scoped'
      BY <1>0, <2>1, <3>1, <3>2 DEF Scoped, Admitted, Insertable
    <3> QED  BY <2>3, <3>3, <3>4 DEF Left
  <2>5. CASE ~SlugTaken(call[r].slug)
    <3>1. tenant' = [tenant EXCEPT ![n] = row] /\ call' = [call EXCEPT ![r] = q]
      BY <1>8, <2>1, <2>5 DEF InsertTenant, Put
    <3>2. q.pc = "owner" /\ q.tenant = n
      BY <2>1 DEF Making
    <3>3. row \in Row /\ row # NoRow
      BY <2>1, NoneRows DEF Row, Making
    <3> HIDE DEF q, row, n
    <3>4. call'[r] = q /\ \A x \in Calls \ {r} : call'[x] = call[x]
      BY <3>1 DEF IInv, Types
    <3>5. Existing \subseteq Existing'
      BY <2>2, <3>1, <3>3 DEF IInv, Types, Existing
    <3>6. Lodged'
      BY <2>1, <2>2, <3>2, <3>4, <3>5 DEF Left, Lodged
    <3>7. Scoped'
      BY <1>0, <2>1, <3>2, <3>4 DEF Scoped, Admitted, Insertable
    <3> QED  BY <2>3, <3>6, <3>7 DEF Left
  <2> QED  BY <1>8, <2>4, <2>5 DEF InsertTenant
<1> QED  BY <1>1, <1>2, <1>3, <1>4, <1>5, <1>6, <1>7, <1>8 DEF Workflow

\* The steps that are not the workflow's.
LEMMA OthersLeft ==
  ASSUME IInv, Left, NEW r \in Calls,
         UNCHANGED <<enforced, tenant, made, owners, audited, channels, store>>,
         identities' \subseteq Emails, users' \subseteq Emails, NEW q \in Call,
         q.pc \notin Undoable, call' = [call EXCEPT ![r] = q]
  PROVE  Left'
<1>1. Admitted(q)
  BY DEF Admitted, Undoable
<1> QED  BY <1>1, MovesLeft DEF Left, Tables

LEMMA AccountsLeft ==
  ASSUME IInv, Left, NEW r \in Calls, RegisterIdentity(r) \/ CreateUser(r) \/ CompleteSession(r)
  PROVE  Left'
<1>1. call[r] \in Making /\ call[r].pc \in {"register", "user", "session"}
  BY Maker DEF RegisterIdentity, CreateUser, CompleteSession, Owning
<1>2. call[r].email \in Emails /\ UNCHANGED <<enforced, tenant, made, owners, audited, channels, store>>
  BY <1>1 DEF Making, RegisterIdentity, CreateUser, CompleteSession, creation, places
<1>3. identities' \subseteq Emails /\ users' \subseteq Emails
  BY <1>2 DEF RegisterIdentity, CreateUser, CompleteSession, Left, Tables
<1>4. CASE End(r)
  BY <1>2, <1>3, <1>4, EndsLeft DEF Left, Tables
<1>5. CASE Goto(r, "user") \/ Goto(r, "session")
  BY <1>1, <1>2, <1>3, <1>5, GoesOnLeft DEF Left, Tables, Undoable, Owning
<1> QED  BY <1>4, <1>5 DEF RegisterIdentity, CreateUser, CompleteSession

LEMMA CreatingLeft ==
  ASSUME IInv, Left, NEW r \in Calls, NEW e \in Emails, NEW ctx \in Contexts,
         VerifyEmail(r, e, ctx) \/ \E slug \in Slugs : CreateTenant(r, e, slug, ctx)
  PROVE  Left'
<1>1. PICK slug \in Slugs, token \in 0..MaxTokens : Put(r, Creating(e, slug, token, ctx))
  <2>1. CASE VerifyEmail(r, e, ctx)
    <3>1. session[e] \in Session
      BY <2>1 DEF VerifyEmail, IInv, Types
    <3> QED  BY <2>1, <3>1, Numbers DEF VerifyEmail, Session
  <2>2. CASE \E slug \in Slugs : CreateTenant(r, e, slug, ctx)
    BY <2>2, Numbers DEF CreateTenant
  <2> QED  BY <2>1, <2>2
<1> DEFINE q == Creating(e, slug, token, ctx)
<1>2. q \in Call /\ q.pc = "slug" /\ call' = [call EXCEPT ![r] = q]
  BY <1>1, MakingIsCall DEF Creating, Making, Put
<1> HIDE DEF q
<1>3. UNCHANGED <<enforced, tenant, made, owners, audited, channels, store, identities, users>>
  BY DEF VerifyEmail, CreateTenant, creation, accounts
<1>4. q.pc \notin Undoable
  BY <1>2 DEF Undoable
<1> QED  BY <1>2, <1>3, <1>4, OthersLeft DEF Left, Tables

LEMMA FailLeft == ASSUME IInv, Left, NEW r \in Calls, Fail(r) PROVE Left'
<1>1. UNCHANGED <<enforced, tenant, made, owners, audited, channels, store, identities, users>>
  BY DEF Fail, accounts
<1>2. CASE End(r)
  BY <1>1, <1>2, EndsLeft DEF Left, Tables
<1>3. CASE Goto(r, "undoOwner") /\ call[r].pc \in {"channel", "store"}
  BY <1>1, <1>3, Maker, GoesOnLeft DEF Left, Tables, Undoable, Owning
<1> QED  BY <1>2, <1>3 DEF Fail

LEMMA WizardLeft ==
  ASSUME IInv, Left, NEW r \in Calls,
         \/ \E t \in TenantIds : ReadSettings(r, t) \/ \E e \in Emails : SetupWizard(r, e, t)
         \/ WriteProject(r) \/ MarkProject(r) \/ UpdateTenantAccessConfiguration(r)
  PROVE  Left'
<1>1. /\ UNCHANGED <<enforced, tenant, made, owners, audited, channels, store, identities, users>>
      /\ identities' \subseteq Emails /\ users' \subseteq Emails
  BY DEF ReadSettings, SetupWizard, WriteProject, MarkProject, UpdateTenantAccessConfiguration,
         configuring, places, Left, Tables
<1>2. CASE End(r)
  BY <1>1, <1>2, EndsLeft DEF Left, Tables
<1>3. ASSUME NEW q \in Call, q.pc \in {"policy", "project", "mark"}, call' = [call EXCEPT ![r] = q]
      PROVE  Left'
  BY <1>1, <1>3, OthersLeft DEF Undoable
<1>4. CASE \E t \in TenantIds : ReadSettings(r, t)
  <2>1. PICK t \in TenantIds : ReadSettings(r, t)
    BY <1>4
  <2>2. [pc |-> "policy", tenant |-> t, seen |-> settings[t]] \in Call
    BY DEF IInv, Types, Call
  <2> QED  BY <1>3, <2>1, <2>2 DEF ReadSettings, Put
<1>5. CASE \E t \in TenantIds, e \in Emails : SetupWizard(r, e, t)
  <2>1. PICK t \in TenantIds, e \in Emails : SetupWizard(r, e, t)
    BY <1>5
  <2>2. [pc |-> "project", email |-> e, tenant |-> t] \in Call
    BY DEF Call
  <2> QED  BY <1>3, <2>1, <2>2 DEF SetupWizard, Put
<1>6. CASE WriteProject(r)
  <2> DEFINE q == [call[r] EXCEPT !.pc = "mark"]
  <2>1. call[r] \in [pc : {"project", "mark"}, email : Emails, tenant : TenantIds]
    BY <1>6 DEF WriteProject, IInv, Types, Call, Idle
  <2>2. q \in Call /\ q.pc = "mark"
    BY <2>1 DEF Call
  <2>3. call' = [call EXCEPT ![r] = q]
    BY <1>6 DEF WriteProject, Goto, IInv, Types
  <2> HIDE DEF q
  <2> QED  BY <1>3, <2>2, <2>3
<1> QED  BY <1>2, <1>4, <1>5, <1>6 DEF MarkProject, UpdateTenantAccessConfiguration

LEMMA TablesLeft ==
  ASSUME IInv, Left, UNCHANGED <<enforced, tenant, made, owners, audited, channels, store, identities, users>>,
         \A r \in Calls : call'[r] = call[r] \/ call'[r] = Idle
  PROVE  Left'
<1>1. \A r \in Calls : call'[r].pc \in Undoable => call'[r] = call[r]
  BY DEF Idle, Undoable
<1>2. Tables' /\ Lodged'
  BY <1>1 DEF Left, Tables, Lodged, Existing
<1>3. Scoped'
  BY <1>1 DEF Left, Scoped, Admitted, Insertable, Undoable
<1> QED  BY <1>2, <1>3 DEF Left

LEMMA NextLeft == IInv /\ Left /\ [Next]_vars => Left'
<1> SUFFICES ASSUME IInv, Left, [Next]_vars PROVE Left'
  OBVIOUS
<1>1. CASE \E e \in Emails : Expire(e) \/ \E slug \in Slugs : Signup(e, slug)
  BY <1>1, TablesLeft DEF Expire, Signup
<1>2. CASE Restart
  BY <1>2, TablesLeft DEF Restart, accounts, places
<1>3. CASE UNCHANGED vars
  BY <1>3, TablesLeft DEF vars
<1> QED
  BY <1>1, <1>2, <1>3, CreatingLeft, WorkflowLeft, FailLeft, AccountsLeft, WizardLeft DEF Next

LEMMA LeftInvariant == Spec => [](IInv /\ Left)
<1>1. Init => Left
  <2> SUFFICES ASSUME Init PROVE Left
    OBVIOUS
  <2>1. \A r \in Calls : call[r].pc = "idle"
    BY DEF Init, Idle
  <2> QED  BY <2>1 DEF Init, Left, Tables, Lodged, Scoped, Admitted
<1> QED  BY <1>1, InitInv, NextInv, NextLeft, PTL DEF Spec

\* Rows, sessions and requests are what the code builds: a column holds what
\* its references allow, and a request is one of those the handlers make.
THEOREM TypeCorrect == Spec => []TypeOK
<1>1. ASSUME IInv, Left PROVE TypeOK
  <2>1. \A t \in TenantIds : tenant[t] # NoRow => t <= made
    BY <1>1 DEF IInv, Types, Existing
  <2> QED  BY <1>1, <2>1 DEF IInv, Types, Left, Tables, TypeOK
<1> QED  BY <1>1, LeftInvariant, PTL

\* The store names a tenant there is, and a new tenant's channel is in no
\* other's scope, however creations fail, are compensated, restart and
\* overlap: the store is named by the step after which nothing is taken
\* back, and the owner's row is refused before a channel is created.
THEOREM CreationsAreClean == Spec => []CreationIsClean
<1>1. ASSUME Left PROVE CreationIsClean
  BY <1>1 DEF Left, Tables, Lodged, Scoped, Insertable, CreationIsClean
<1> QED  BY <1>1, LeftInvariant, PTL
=============================================================================
