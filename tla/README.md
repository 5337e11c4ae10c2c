# Verification of medusa-multi-tenancy

TLA+ specifications of the multi-tenancy layer this repository adds to Medusa, TLC instances that
check them, and proofs checked by TLAPS. Paths below are relative to the repository's root; line
numbers are those of the commit the project stands beside.

* [Inventory](#1-inventory) — the system's parts, their state, operations and hard behaviour
* [Modules and code](#2-modules-and-code)
* [Runs](#3-runs-bounds-and-what-they-show)
* [Proofs](#4-proofs)
* [What does not hold](#5-what-the-code-does-not-keep)
* [Limits](#6-what-is-not-covered) and [plan](#7-plan)

How to run: `tlc -workers 2 -config pool.cfg MCRlsPool.tla`, `tlapm RlsPool_proofs.tla`. The module of
each configuration is named in `PROJECT.json`.

## 1. Inventory

The program is a Node.js server: one event loop, many requests in flight, every `await` a point where
another request may run; several server processes may share the database. Almost no service method
opens a transaction, so "read, decide, write" is three steps. Isolation between tenants rests on
PostgreSQL row-level security and on one session variable.

| part | state | operations | what is hard | what makes it correct |
|---|---|---|---|---|
| **Tenant lifecycle and membership** (`src/modules/tenant-management`, `src/api/admin/tenants/*`) | tables `tenant`, `tenant_membership`, `tenant_invitation`, `audit_log` | invite, accept, change role, remove, transfer ownership, deactivate, suspend, reactivate, request deletion | checks and writes in separate statements; a hold set in between; token used twice; stop between two statements; last owner | an owner remains; deletion is final; legal hold blocks it; a used token was applied; audit rows are true |
| **Row-level security and the pool** (`patches/@medusajs+framework*`, `src/modules/tenant-context/migrations`) | session variable `app.current_tenant` per connection, WeakMap of what was set, policies, `tenant_id` defaults | set the tenant on acquire and before each query | connections shared by tenants; reuse, reconnection, rollback; a failure that is only logged | a tenant sees its own rows, all of them and no others; its inserts are its own |
| **Tenant access and request context** (`src/api/admin/_shared/tenant-user-access.ts`, `tenant-access.ts`, `src/modules/tenant-context/middleware.ts`) | table of access records; platform-admin list; AsyncLocalStorage | resolve, activate, assign, select; middleware | first request twice at once; access and membership written apart; status checked once per request; middleware and route resolve separately | one workspace per user, with a membership; a handler works in the scope its queries have; a blocked tenant is not served, nor who is no active member; the platform's own operations are for those on the list |
| **Billing and metering** (`src/modules/billing`) | billing account, usage counters, metered events | ensure, renew, fail, lifecycle transitions, record usage, entitlements | lost updates of counters; transitions from stale reads; grace and trial boundaries | usage stays within the limit and the charged events; nobody is served after the grace; entitlements hold up to the requests under way |
| **Apps, credentials, outbound webhooks** (`src/modules/apps`) | installation, credential, webhook, delivery log | install, uninstall, rotate, deliver with retries | rotation and uninstall overlap; retries; app removed between attempts | a rotated key is dead |
| **Inbound webhooks** (`src/api/store/apps/webhooks/[app_id]`) | nonces in process memory | verify, accept | replay, clock windows, an await between the check and the use | a signed call is accepted once |
| **Rate limits, quotas, alerts** (`src/api/middlewares.ts`) | fixed-window buckets, alert sets, leakage patterns, in process memory | count, refuse, alert, watch, clean up | window boundaries; clean-up; responses out of order | a bound on what passes in any window; a move between tenants is reported |
| **Runtime state** (`src/modules/tenant-context/runtime-state.ts`) | registry of the maps above | invalidate one tenant | purge while requests are in flight | counts and nonces hold from one invalidation to the next |
| **Signup and onboarding** (`src/api/store/tenants/*`, `src/workflows/tenant/create-tenant.ts`) | signup session, tenant, auth identity, user | sign up, verify e-mail, set-up wizard, create-tenant workflow | failure between steps; compensation; second signup during a verification; restart | a session that names a tenant is complete; a token makes one tenant; nothing points to a tenant taken back |
| **Tenant settings** (`tenant.settings_json`) | one JSON column | access configuration, wizard | one writer merges from an earlier read | nothing the code states: the write of the other is lost in that one race (section 5) |
| **Themes** (`src/modules/theme`) | themes, configurations, publish status | upload, edit, publish, show | overlapping uploads | the storefront shows one theme; an edit is shown |
| **Analytics** (`src/modules/analytics`, `src/jobs`) | events, daily rollups, top products | record, roll up, retain | two jobs over one table; late events; retention of what is pending; limited lists | what is marked was counted; totals stay; the top products leave out no better seller; every event is processed |
| **Checkout** (`src/workflows/checkout`) | the provider's charge; an event | checkout workflow | a failed capture returned as data; no compensation; amounts in fractions | what is reported as sold was authorized |
| **Order, refund, return, fulfilment** (`src/workflows/orders`) | rows of the framework | wrappers, timeline | four tables read while they change | a timeline is complete and in order |
| **Inventory sync** (`src/workflows/sync-inventory-by-location.ts`), **sales channels** (`src/api/admin/sales-channels`) | stock levels, channels | create, edit, delete, sync | a second step fails; edits of different fields overlap | an edit answered with success stays; a failed sync leaves nothing |
| Feature flags, job context | none | resolution of overrides; tenant of a job | — | the job context is a guard of Apps; the flags are called by nothing |
| Product batches, store settings and payments routes; provider adapters; admin UI; scripts | none of their own | pass through, presentation, by hand | — | not modelled, section 6 |

### How the parts interact

`tenantContextMiddleware` resolves the caller's tenant (access record, header, slug), refuses blocked
tenants, and runs the handler inside `tenantContextStorage.run`. Every query of the handler then goes
through the patched knex client, which copies that tenant into the connection's session variable; the
policies filter. Handlers of tenant administration call `authorizeTenantAction`, then one service
method, then write an audit row and call `invalidateTenantRuntimeState`, which clears the in-process
maps of rate limits, quotas and nonces. Billing's entitlements guard app installation and metering.
Jobs and subscribers set the same AsyncLocalStorage per tenant. A signup's verification runs the creation
workflow, which leaves the tenant that memberships, billing and themes belong to.
Checkouts write analytics events, which the jobs roll up. `PROJECT.json` lists each hazard at its line.

## 2. Modules and code

### TenantLifecycle, TenantManagement

`TenantManagement` is one tenant: `status`, `legalHold`, `scheduledPurge` (columns of `tenant`), `rows`
(`tenant_membership`), `invites` (`tenant_invitation`) and `req`, the requests in flight. A request is
one HTTP handler; `req[r].pc` names the statement it runs next, and the other fields are the local
variables it carries across its awaits (`target` is the row it named or read, `source` the actor's row
of a transfer, `seen` the actor's role).

| action | code |
|---|---|
| `BeginInvite`, `BeginUpdateRole`, `BeginOnMember`, `BeginLifecycle`, `BeginAccept` | the route handlers, up to the first statement |
| `AuthoriseMember`, `AuthoriseStatus` | the two reads of `authorizeTenantAction` and its answer, `authorization.ts:57-83` |
| `InsertInvitation` | `inviteUserToTenant`, `service.ts:160` |
| `ReadInvitation`, `ReadExistingMember`, `AcceptUpdate` / `AcceptInsert`, `MarkAccepted` | `acceptInvitation`, one action per statement, `service.ts:201-246` |
| `ReadMember`, `CountOwners`, `WriteRole` / `DeleteMember` | `updateMemberRole`, `removeMember`, `service.ts:290-370` |
| `ReadActor`, `ReadTarget`, `WriteTransfer` | `transferOwnership`; its two updates are one transaction, hence one action |
| `ReadTenant`, `WriteStatus`, `WriteMembers` | the four lifecycle methods, `service.ts:456-593` |
| `RecordEvent` | the audit row, with which the handler ends |
| `Abort` | a failed statement, a 409, a process that stops: the request ends where it is |
| `ExpireInvitation` | time passes `expires_at` |
| `ChangeHold` | an operator sets or lifts `legal_hold` in the database; no code does (section 5) |

Abstractions: addresses, row ids and tokens are model values; a body's role is an element of
`AskedRoles` and goes through `NormalizeRole`, as in the code. Reads that refuse with different
messages refuse alike. An UPDATE by id of a row that is gone changes nothing, an INSERT that would
break `UNIQUE (tenant_id, user_email)` fails. The audit table is append-only and read by nobody here:
the action that writes it keeps no row, and `AuditIsTrue` speaks of the moment of the write. `TokenColumn`
is a switch because model and migration disagree on the type of `invitation_token`: the migration's
`uuid` lets no invitation be stored, so the runs use the model's `text`, the type everything else in the
code is written for. The system as migrated is the one without invitations (section 5).

`held`, in a request, is a history: the hold has been set ever since its handler began to look at the tenant.

`TenantLifecycle` is what `docs/ops/tenant-lifecycle-policy.md` and the guards promise: the four
operations and the operator's hold, each in one step, nothing but reactivation from a blocked state, no return from a pending
deletion. `TenantManagement!ImplementsLifecycle` instantiates it; its three variables have the same names.

### RlsPool

`session[c]` is `app.current_tenant` of a connection, `mapped[c]` the WeakMap's entry, `task[t]` a request,
job or subscriber with its tenant (`ctx`, the AsyncLocalStorage), the connection it holds, and the
command it is about to send.

| action | code |
|---|---|
| `AcquireConnection`, `AcquireHook` | patched `client.acquireConnection`: pool, then `setTenantContextOnConnection` |
| `QueryHook` | patched `client.query`: the same before each command |
| `SetTenantContext(c, x, ok)` | `setTenantContextOnConnection`, patch lines 34-59; `ok = FALSE` is the caught and logged error |
| `SendBegin`, `SendStatement`, `Continue`, `SendCommit`, `SendRollback`, `Release`, `GiveUp`, `Reconnect` | knex and PostgreSQL (external) |

A query that is already running in a transaction keeps its connection; a rollback restores the
session variable of the transaction's beginning (`saved`), as PostgreSQL does with a session-level
`set_config`. Whether a transaction's client inherits the patched `query` depends on how knex builds it
(the patch's note at line 97 assumes it does): `HookInTransactions` is a switch and both are checked.
A statement is characterised by the rows it is about (`asks`, by `tenant_id`) and those the policies let
it reach (`got`); `RowVisible` is the USING / WITH CHECK condition of the migrations. `tags` are the
`tenant_id` values its inserts took from the column default. `stored` is a history of committed ones.
The policies bind a role that is neither superuser nor table owner, as `seed-rls-user.ts` sets up; under
any other role the database ignores them.

### AccessPolicy, TenantUserAccess

`access[u]` is a user's row of `tenant_user_access`, `member[t][u]` the status of the membership row (`removed`
once it is gone), `writing[t]` the lifecycle requests between their two UPDATEs,
`owner` and `status` two columns of `tenant`; `adminList` and `autoCreate` are the environment of the
process. A request (`req[r]`) has a `stage` - middleware, scope, route, service - because each of these
resolves the user anew, and a `pc`, the statement it is at.

| action | code |
|---|---|
| `Arrive` | a request with its user, its claim (header or slug) and what it asks for |
| `ResolveRead`, then `ConflictOnInsert`, `EnlistPlatformAdmin`, `CreateTenantForUser`, `RefuseUnassigned` or `SyncRecord` | `resolveTenantUserAccess`, `tenant-user-access.ts:124-226`, a transaction of a read and a commit |
| `EnforceTenantLifecycleState` | `middleware.ts:291-317` |
| `ListMemberships`, `CheckMembership`, `CheckTenantStatus`, `HandlerEnds` | `resolveAuthenticatedTenantAccess`, `tenant-access.ts:10-94` |
| `SelectActiveTenant`, `ActivatePlatformAdminTenant`, `AssignReadsAccess` to `AssignWritesMembership` | the routes of `admin/tenants/active` and `admin/tenant-access`, one action per statement |
| `ChangeStatus`, `WriteMembers` | the lifecycle of TenantManagement, seen from here: the UPDATE of the tenant and, for a deactivation or a reactivation, that of every membership (`service.ts:473`, `:550`) |
| `ChangeMember` | an accepted invitation or a removal, seen from here |
| `Restart` | the process comes back with another administrator list or another `AUTO_CREATE_TENANT_ON_FIRST_LOGIN` |

`operator` stands for `isPlatformOperator` (an API key, claims or a header), which matters for a request
without a user only. `LifecycleStops` has the override of the reactivation route (`middleware.ts:92`), which goes
on to `authorizeTenantAction` instead of the access record.

`blocked` and `outside`, in a request, are histories: the tenants that were blocked, and those the user was
no active member of, when it came and ever since.
`AccessPolicy` is what the records promise - a workspace, an enlistment, an activation or an assignment
is one step, and one comes into a tenant in no other way. `ImplementsPolicy` refines it with `home` the
effective tenant of each record.

### Billing, Apps

One tenant's account, counters and apps; `Billing` extends `Apps`, because an installation is an
entitlement check followed by a transaction. `call[j]` is a request's way through
`BillingService`, `job[j]` its way through `AppsService`.

| action | code |
|---|---|
| `FindAccount`, `CreateAccount`, `ReadAccount`, `ApplyLifecycleTransitions`, `CountInstallations` | `ensureTenantBilling`, `applyLifecycleTransitions`, `assertEntitlement`, `billing/service.ts:57-174`, one action per statement |
| `ReadUsage`, `RecordMeteredEvent` | the transaction of `recordMeteredEvent`, `service.ts:176-239` |
| `ProcessRenewal`, `MarkPaymentFailed`, `RereadAccount` | `service.ts:241-303` |
| `FindApp`, `CommitInstall`, `SnapshotCredentials`, `CommitRotate`, `CommitUninstall`, `Rollback` | the three transactions of `apps/service.ts:58-227` |
| `PublishEventToSubscribers`, `AttemptDelivery`, `LogDelivery`, `LogFails`, `LogDeadLetter` | `apps/service.ts:271-391`, with three attempts |
| `Tick` | midnight, while no call runs |

An UPDATE under READ COMMITTED works on the rows of its snapshot and skips those another transaction has
changed: that is why a rotation is a snapshot and a commit.

### RuntimeState, RateLimits, Leakage, Webhooks, Edge

What the process keeps in memory, over one clock. A pass through the limiters has no `await` and is one
step (`FirstPass`); a webhook matches both routes of `defineMiddlewares` and passes the limiters twice
(`SecondPass`), with the lookup of its tenant in between. `Finish` is what happens when a response is
done, in any order. `ReceiveWebhook` checks the stamp and the nonce and then looks up the signature;
`AcceptNonce` or `RefuseSignature` comes later, and `MaxQuery` bounds by how many ticks.
`InvalidateTenantRuntimeState` purges all of it for one tenant. `passedIp`, `passedQuota`, `taken` and
`lastSeen` are histories for the properties: they say what really passed within the last window, when,
since the last invalidation.

| module | code |
|---|---|
| `RuntimeState` | `tenant-context/runtime-state.ts`, and the bucket of a fixed window |
| `RateLimits` | `middlewares.ts:240-560`: the four limiters, endpoint classes, quotas, alerts, clean-up |
| `Leakage` | `middlewares.ts:594-685` |
| `Webhooks` | `api/store/apps/webhooks/[app_id]/route.ts` |
| `Edge` | `defineMiddlewares` and `invalidateTenantRuntimeState`: the parts together |

### Onboarding

| action | code |
|---|---|
| `Signup`, `Expire` | `signup/route.ts`; one INSERT ... ON CONFLICT that takes over the session of the address |
| `VerifyEmail`, `CreateTenant` | the two routes that run the workflow |
| `ReadSlug` to `ConfigureDefaultStore` | the statements of `create-tenant.ts:34-154` |
| `Fail`, `UndoOwner`, `UndoTenant`, `Restart` | a step fails, its predecessors are compensated (`create-tenant.ts:100-110`), or the process stops and nothing is |
| `RegisterIdentity`, `CreateUser`, `CompleteSession` | the rest of `verify-email/route.ts`, with no compensation |
| `SetupWizard`, `WriteProject`, `MarkProject` | `setup-wizard/route.ts` |
| `ReadSettings`, `UpdateTenantAccessConfiguration` | the access configuration, `tenant-management/service.ts:641-716` |

`enforced` says whether the policies bind the role of the process: then the request's context, which is
that of a tenant from before, makes the insertion of the owner fail, and the tenant stays behind with its
slug taken. `channels` and `store` are rows of Medusa's that no compensation touches.

### Analytics, Checkout

`Checkout` extends `Analytics`: a checkout's events are among those the jobs roll up. An event is its
number; a rollup is the set of events it was computed from, so that a wrong total is a wrong set. An event's
items are its lines; a row of the top products is the set of the lines it adds up (`ByProduct`), `Gmv` its sum.
`Highest` is ORDER BY gmv DESC with a LIMIT, and takes any of equal rows: a day's list keeps the first
`TopLimit` rows (50 in the code), a report the first `Clamped(limit)` of the lists of its days. Prices are in
halves, to have fractions.

| action | code |
|---|---|
| `StorefrontEvent`, `SetupEvent`, `RecordSale`, `RefuseSale` | `recordEvent` and the routes that call it; an amount in fractions does not fit BIGINT |
| `AggregatePendingEvents`, `SelectRollup`, `UpsertRollup`, `SelectProducts`, `FinishBucket`, `AbortJob` | `analytics/service.ts:89-200`, one transaction per bucket; both jobs run it |
| `EnforceRetentionPolicies`, `DeleteEvents`, `DeleteRollups`, `DeleteTopProducts` | `service.ts:262-298` |
| `StartCheckout`, `ValidateCart`, `SelectShippingRate`, `AuthorizePayment`, `CapturePayment` | the steps of `workflows/checkout`; the provider answers as it likes |
| `CutOff` | the process stops, or a call fails |

### Themes, Orders, BackOffice

`Themes`: an upload is a transaction, `BeginUpload`, `DeactivateThemes` (waits while another upload has
locked a row), `InsertTheme`, `CommitUpload` or `AbortUpload`; `EditThemeSettings`, `SetThemePublishStatus`
find a theme and write later. `Orders`: every workflow of the framework leaves a row with its times in one
step; the timeline (`AskTimeline`, `ReadTable` per table in any order, `AnswerTimeline`) is the
repository's. `BackOffice` adds the sales channels (`FindChannel`, `UpdateChannel`, `RereadChannel`,
`DeleteChannel`) and the inventory sync (`SplitLevels`, `CreateLevels`, `UpdateLevels` with the
compensation of the creates), and puts the four side by side: they share no state.

### Proof modules

`TenantManagement_proofs`, `RlsPool_proofs`, `TenantUserAccess_proofs`, `Billing_proofs`, `Edge_proofs`,
`Onboarding_proofs`, `Checkout_proofs`, `BackOffice_proofs`, each about the module it is named after and those
that one extends. The modules `MC...` hold instances for TLC and say nothing about the code. Definitions
called `X_Variant`, before `X`, are wrong forms of `X` that `PROJECT.json` uses to see the properties fail.

## 3. Runs, bounds and what they show

| run | question | distinct states |
|---|---|---|
| `tokens_race` | Two overlapping invitations, acceptances or removals, each of which may stop anywhere: is a used token always applied (`AcceptedImpliesApplied`), does anyone join uninvited (`MembersWereInvited`)? | 489 k |
| `members_race` | Two overlapping role changes, removals, transfers or lifecycle operations: is every owner legitimate (`OwnersAreLegitimate`), is no deletion written that was under hold since it looked (`LegalHoldBlocksDeletion`), who changes the status (`LifecycleByOwnersOnly`)? | 2.55 M |
| `serial` | Requests of every kind one at a time, cut short anywhere: are audit rows true (`AuditIsTrue`), what takes the last owner away (`LastOwnerKept`), and do they implement the lifecycle (`ImplementsLifecycle`)? | 3.21 M |
| `last_owner_race` | Two owners removed or downgraded at once: `OwnerRemains` is violated, section 5. | — |
| `pool` | Two tasks on one connection, unhooked transactions, `set_config` may fail: does a task reach another tenant's rows (`TenantIsolation`), does it reach its own (`OwnRowsReached`)? | 502 k |
| `pool_hooked` | Two tasks on one connection, hooked transactions, fair pool: do inserted rows belong to their writer (`RowsBelong`), and does every waiting task end (`TasksEnd`)? | 147 k |
| `access` | Two requests among first logins, tenant routes, activations, assignments and selections, with restarts and changes of status and of members: `NoOrphanTenant`, `HandlerInScope`, `BlockedStaysOut`, `PlatformOnly`, and the refinement `ImplementsPolicy`. | 1.36 M |
| `billing_apps` | Two requests over a trial, a grace and the end of a month: `UsageBounded`, `NoServiceAfterGrace`, `OvershootBounded`, `RotationRevokes`. | 1.81 M |
| `edge` | Two requests and two deliveries over the windows and the life of a nonce, with invalidations: `RatesBounded`, `CrossTenantReported`, `ReplayOnlyAtBoundary`. | 178 k |
| `onboarding` | Two calls, one failure or restart: `VerifiedIsComplete`, `TokenMakesOneTenant`, `CreationIsClean`. | 1.46 M |
| `checkout` | Two aggregations, the retention, a checkout, suspended tenants and aborts: `ReportsAreTrue`, `TotalsKept`, `ChargesMatchSales`, and whether every event is processed (`EventsAreProcessed`). | 384 k |
| `backoffice` | Three theme requests, three of channels, three syncs, or a timeline over three writes: `OneThemeShown`, `EditIsShown`, `TimelineIsTrue`, `RowsAsAnswered`. | 1.22 M |

The last five also check the type invariant of their modules; all eight are proved.
Each takes one to two minutes with two workers.

Bounds. Two requests in flight are enough for every race between a read and a write of these
handlers: each reads at most a few rows it later writes, and the second request supplies the write in
between; where a third is needed to hide the second (themes, channels, syncs) there are three. In the runs
of TenantManagement two addresses let actor and target differ or coincide, a third row id lets a removed
member come back under a new id, and two tokens let one be accepted while another is pending. For
`RlsPool`, a second task is the connection's previous user and the waiting competitor at once; two tenants
and the null tenant are all the policy distinguishes; two statements per transaction give a first and a last one.

| bound | value | what happens within it |
|---|---|---|
| `access`: users, tenants, `MaxEvents` | 2, 3 (one given), 3 | a race of first logins and a restart, a block or a removal in the midst |
| `billing_apps`: `AppsLimit`, `MeterLimit`, days | 1, 2, trial 1, grace 1, month 2, `MaxTime` 2 | a limit passed by two, a transition overtaken by a renewal, a counter's month turned; the code has 14 and 3 days, and the proofs any |
| `billing_apps`, `edge`, `onboarding`, `checkout`, `backoffice`: `Workloads` | a few sets of operations | what may meet in one behaviour: operations that share state are in one set, others would only multiply it |
| `edge`: windows, `Ttl`, `MaxSkew`, `MaxQuery`, `MaxTime` | 2 and 3, 4, 2, 1, 4 | every window turns once, a nonce's entry ends and its stamp is tried again; the code has `Ttl` twice `MaxSkew` |
| `onboarding`: addresses, slugs, tokens, tenants, failures | 2 each, 1 | a repeated signup, a slug used twice, a creation taken back while another runs |
| `checkout`: events (of the storefront and the wizard: 3), days, failures, status changes | 4, 3, 1, 2 | a day too old for its events, then for its rollup (`RawDays` 0, `RollupDays` 1), a tenant that is back; `BucketLimit` 1 makes the order of the buckets matter |
| `checkout`: orders, products, `TopLimit`, `Limits` | 2, 2, 1, {0, 1} | a product that does not get on the list, one that sold more by the time the list is made, a tie; failures only where the workload has them |
| `backoffice`: `MaxWrites`, rows | 3, 2 | a row created, shipped and overtaken while the tables are read |

The proofs remove these bounds for every safety property, and the number of requests for all but three
(section 4); the runs show that the cases occur, and every
property is refuted when the definition it depends on is changed as a plausible bug would (`mutants`
in `PROJECT.json`).

Symmetry (rows, requests, tokens, slugs, apps, users, tenants, connections, tasks) is used only in runs without
a liveness property and only where no `CHOOSE` decides behaviour. Deadlock is checked except in
`onboarding`, `checkout` and `backoffice`, whose behaviours end when their events are used up; `Quiet`
stands for that end in `access`, `billing_apps` and `edge`.

Fairness. `RlsPool!FairSpec` has weak fairness of a task's own steps (the event loop resumes an awaited
statement; PostgreSQL answers or the connection breaks, `Reconnect`) and strong fairness of getting a
connection (knex's pool, tarn, keeps its waiters in a queue, so a waiter is passed over only finitely
often). `Checkout!Spec` has weak fairness of each aggregation: the scheduler starts the two jobs again
and again, and a started one is resumed. No fairness is assumed of failures, reconnections, requests,
checkouts, the clock or the retention. `EventsAreProcessed` says what is left: an event is processed
unless its tenant is suspended or an item in fractions stands before it.

## 4. Proofs

All theorems hold for every value of the constants that satisfies the modules' ASSUMEs.

**TenantManagement_proofs**: `TypeCorrect`, `HoldSafe`, `TokenSafe`, `OwnersSafe`, `MembersInvited` and
the action property `StatusByOwners`, for requests that overlap in any way. What a request does at its
write depends on what it read several statements earlier, so the properties are not inductive: the
invariant `IInv` adds, per request, what it may still rely on whatever the others have done
(`RequestInv`). A row once used stays used and keeps its address; a row that was read as owner's and is
to be written with `owner` is in `ownersEver`; a deletion about to be written saw no legal hold, which
may have been set since; a token about to be marked was applied; a lifecycle request past its membership
check has an actor who once was an owner. `HoldSafe` is about steps: whoever writes a deletion has read
the tenant before, so the hold was not set all the time. None of these speaks of the *current* role or
status, because those may be gone: this is the line between what concurrent requests keep and what they
do not. The argument is that histories only grow (`Grows`, `OthersStay`): one lemma shows that any step
of one request keeps `RequestInv` of the others, one lemma per action shows the rest. `MembersInvited`
needs `AllInvited` besides: an invitation in the making has a row of its own, so that no token is made
twice, and an acceptance has the address of its invitation.

The same module has the three results that hold only for requests that do not overlap, under the hypothesis
`OneAtATime` (there is one place for requests in flight; requests follow each other in it without end and
may be cut short anywhere). `SerialLifecycle`: `TenantManagement` implements `TenantLifecycle`; `SerialInv`
adds to `IInv` that the status a lifecycle request has seen is still the status; each `WriteStatus` maps to
one abstract operation, every other step stutters. `SerialAudit` and `SerialOwner` (`AuditIsTrue`,
`LastOwnerKept`) rest on `SoundInv`: what the request in flight has read is still so, what it has written is
there when it comes to the audit row, and a removal or downgrade about to be written has found another
owner. `SerialOwner` counts the owner rows across each change of the table. Without the hypothesis the last
owner may be lost (`last_owner_race`) and a requested deletion taken back (section 5).

**RlsPool_proofs**: `Isolation`, `OwnRows`, `MapTrue`, `TagsRight`, `PoolTypes`, assuming `OneSwitch`: not
both hooked transactions and a failing `set_config`. `IInv` says that a connection has one holder, that the
WeakMap is true, that the holder's tenant is the session's from the hook to the end of the command unless
the hook failed, and that in an open transaction the session variable equals its value at BEGIN. The last
conjunct is the heart: a rollback then changes nothing and cannot make the WeakMap lie. It holds because an
unhooked transaction never calls `set_config`, and a hooked one finds its tenant already set. With both
switches on it fails: the hook at acquisition fails, the one after BEGIN succeeds, the rollback undoes it,
the WeakMap keeps it (TLC finds the trace when `pool.cfg` is given both).

**TenantUserAccess_proofs**: `NoOrphans`, `InScope`, `BlockedOut`, `ByThePlatform`, and `Refinement`, that the statements
implement `AccessPolicy`. `IInv` is the type, `NoOrphanTenant`, that the active tenant of a record exists
(`ActiveExists`), and what each request may rely on between its statements (`RequestsInv`): a record it has
read is still one, a tenant it has looked up still exists, a tenant that was blocked since it came is still
blocked, one its user was no member of since then still is not. The argument is that records and tenants
only come to be, and that every write of a status or a membership corrects the histories (`Witness`). For the refinement,
`CreateTenantForUser` maps to `GetWorkspace`, `EnlistPlatformAdmin` to `BecomeAdmin`, a `SyncRecord` that
writes to `BecomeAdmin` or `Activate`, `ActivatePlatformAdminTenant` to `Activate`, `AssignWritesAccess` to
`Assign`; all others stutter.

**Billing_proofs**: `UsageStaysBounded`, `GraceEnds`, `OvershootStaysBounded`, `RotationsRevoke`,
`TypeCorrect`. `Reads` says what the numbers a call has read still bound; `Transits`, that a transition
about to be written is still due or harmless, because an account never goes back to its trial; `Due`, that a
request from after the grace is on its way to be refused. The relation `Alike` is the crux: no call is about
to end a trial while another is about to end a grace. A stale end of a trial could otherwise be written
after a suspension and lift it; it cannot, because the clock does not move while calls run, and a trial that
ends on a day leaves a grace that does not. `OvershootStaysBounded` follows from `Room`: the apps installed
and the installations let through are together at most the limit and all requests but one, since whoever
passes the check has just counted what is installed and is one of the requests itself. `RotationsRevoke` and
`TypeCorrect` have the hypothesis `[]KeysLeft`, that a secret not in use can still be drawn; `SecretsLast`
proves that infinitely many secrets always leave one, because only finitely many are in tables and requests
at any time (the code draws 32 random bytes). `Revoking` says that a key active when the rotation found its
app is in its snapshot or no longer active.

**Edge_proofs**: `ReplaysBounded`, `RatesStayBounded`, `MovesAreReported`, `TypeCorrect`. `Remembers`: a
nonce taken is in the map until its time, or its time has come; `Waited`: a delivery in progress came at
most a lookup ago. With `2 * MaxSkew <= Ttl`, which the code's constants satisfy with equality, a second
acceptance of the same stamp needs the whole of both. For the rates, `Limits` gives every passed call a mark
with the end of its bucket and its number in it: the marks of a key have distinct numbers or come from
buckets a window apart, and those of the running bucket are as many as it has counted. Marks of the last
window therefore lie in two buckets at most, and not both buckets lie in it whole, because their first calls
are a window apart: fewer than twice the limit (`MarksAreFew`). For the leakage watch, `Watch` says that an
actor's last response is the one its pattern shows for as long as it counts; so the clean-up removes only
what is too old to be compared.

**Onboarding_proofs**: `VerifiedComplete`, `TokensMakeOne`, `CreationsAreClean`,
`TypeCorrect`. `Progress` says of each call what it has made so far and still relies on; `Apart`, that no
two calls are about one tenant; `Settled`, that none is about the tenant of a complete session. So a
compensation takes back only what nobody else relies on. For the tokens, `OneSlug` follows a token wherever
it is kept - a session, a call, a tenant's row - and says that it has had one slug; slugs are unique, so the
tenants are. It is needed because a second signup gives the session a new token *and* possibly a new slug
while the verification of the old one runs. `CreationsAreClean` is from `Left`: the store is of no tenant
that can still be taken back (`Lodged`: naming the store is the creation's last step, and nothing is
compensated after it), and only a context whose row of the owner was accepted comes to the channel
(`Scoped`).

**Checkout_proofs**: `SalesAreCharged`, from `SalesInv` (`Accounted`: what the provider has of a checkout at
each of its steps; `SalesAnswered`: the event of a sale is that of an answered checkout); `TotalsStay` and
`ReportsTrue`. The first conjunct of `ReportsAreTrue`, which stands alone as `MarkedCounted`, is from
`RollupsInv` (`Read`: an aggregation knows every event of its bucket, or they came since it read); the
second from `ProductsInv` (`Listed`: the top products are the first of rows made from lines among which are
those of the orders in the rollup; `Sells`: so they are while the aggregation runs, as long as the retention
cannot have deleted any in between). `ReportCovers` goes from there to a report: rows made from more lines
have at least the sum (`Gmv` over a subset, by induction over it), and what is not among the first is at most
each of them. `TypeCorrect`: that a total is a number is an induction over the items of a cart.

**BackOffice_proofs**: `TypeCorrect`, `StorefrontShows`, `EditsAreShown`, `TimelinesAreTrue`, `RowsKept`;
`IInv` is one invariant per part, which share no state. Themes: two active themes were uploaded by
transactions that overlapped, because an upload deactivates all it can see (`Apart`), some theme is active
once there is one, with its settings (`Settled`), and an edit of the active theme is of an active one until
the next upload (`Edited`). Orders: the rows a timeline has read have all that was there when it was asked
for (`Reading`); the lemmas on sorting by rank and on concatenation say that it answers with these, in
order. Channels: an edit writes the fields it was given and no others. Stock: what a sync has created and
not yet answered is what its compensation takes back (`StockInv`).

Assumptions on constants are named in the modules; they are that bounds are numbers, that the names of
"nothing" are not names of something, that a grace and a month have a day, that the requests on the apps are
finitely many and at least one (`JobAssumption`), that rows are finitely many, and the relation of `Ttl` and
`MaxSkew` above. Hypotheses of single theorems are `OneSwitch`, `OneAtATime` and `[]KeysLeft`, each
explained where it is used.

Only model-checked: the liveness properties `TasksEnd` and `EventsAreProcessed`, since they need ENABLED,
which the prover here does not have. Every other property of a passing run is a theorem. Where a proof needs
induction over data (a fold over items, a sort, a subtotal), it takes the least counterexample of a
well-founded order (`NatLessThanWellFounded`, `WFMin`), since the library's induction theorems take an
operator as a parameter, which no installed prover can instantiate; the modules use no RECURSIVE operator,
because the prover can say nothing of one.

## 5. What the code does not keep

Found by a run of the project:

| run | the code says | TLC's trace |
|---|---|---|
| `last_owner_race` | "Cannot remove the last owner." (`tenant-management/service.ts:364`) | two owners are removed at once; both requests count two owners, both write |

Met while modelling. Each is in the modules as the code has it, and the properties are worded around it:

* "`legal_hold=true` blocks deletion scheduling" (`docs/ops/tenant-lifecycle-policy.md:31`): a hold that is set after the
  request has read the tenant (`service.ts:577-583`) and before it writes (`:588`) is not seen, and the tenant is
  pending deletion under hold.
* A reactivation that has read the status before a deletion request writes overwrites it, although
  "Tenant cannot be reactivated while deletion is in progress." (`service.ts:542`); the purge date stays.
* `action !== 'reactivate_tenant'` (`authorization.ts:68`) exempts reactivation from the status check, but a
  deactivation has set every membership inactive, so the membership check before it refuses everyone.
* `invitation_token UUID` (`Migration20260412100000.ts:64`) refuses the token `<tenant>.<role>.<nonce>`.
* "This ensures tenant_id is always current" (patch, line 79): when `set_config` fails the error is logged
  and the statement runs under the last user's tenant.
* "invitation token lookup is global by design" (`service.ts:204`): the policy hides the invitation of any
  tenant but the caller's own.
* A platform admin taken off the list becomes a `tenant_admin` without a tenant, which the CHECK of
  `tenant_user_access` refuses: every later request of that user fails.
* Two installations that overlap pass the last slot together (`OvershootBounded` says by how many); two
  rotations that overlap leave two active keys (`RotationRevokes` says that the old ones are dead).
* "Duplicate nonce within TTL rejected with `409`" (`docs/platform/integration-framework.md:61`): not after an
  invalidation of the tenant, which every change of a member or a status performs, nor after a restart.
* Quota alerts are stored under one key and deleted under another: a tenant gets one, and no other before it is
  invalidated or the process restarts.
* With the policies in force, the owner of a new tenant is refused outside the tenant's own context, and
  the tenant stays with its slug taken. A failed registration leaves one such tenant per attempt. Every
  creation renames the first store there is.
* The access configuration merges `settings_json` from an earlier read (`service.ts:690`): what the setup wizard
  has written in between is lost. Nothing says that it must not be.
* A report over several days adds up the days' lists of fifty (`analytics/service.ts:174`), so a product that is
  never among a day's first fifty is not in it, however much it sold in all. A day's
  products are read after its totals and may count a sale that the totals do not.
* A price in fractions makes the rollup's `::int` fail: that bucket and every younger one, of all tenants,
  stays pending. A total in fractions is authorized and then answered with a 500.
* An event inserted between an aggregation's SELECT and its UPDATE is marked and in no total (the drift
  `docs/ops/analytics-governance-runbook.md:25` warns of). A tenant back after a month gets the totals of
  an old day overwritten by what was pending.
* "Marks all previous tenant themes as inactive." (`docs/theme-contract.md:124`): two uploads that overlap leave two
  active; an edit may then go to the one the storefront does not show.
* A PUT of a sales channel that is deleted meanwhile writes the deleted row and then fails on it.

## 6. What is not covered

* Purging a tenant whose deletion is due: no code does it. `createTenant` of the service has no caller.
* Reads without effect (lists, reports, the onboarding checklist, the list of returns), formatting,
  validation of bodies that ends in a 400, the sanitising of metadata.
* One tenant at a time in `TenantManagement`, `Billing` and `Themes`: their statements are confined to it.
  The middleware's own lookup of the caller's tenant belongs to TenantUserAccess.
* In `RlsPool`, several statements of one task at the same time (`Promise.all` outside a transaction) are
  several tasks.
* The two product batches, which hand one list to one workflow of the framework each; the store settings
  route, which stores nothing; the payments route, which passes an authorization or a capture on to the
  provider; the feature flags, which nothing calls; the error-rate buckets, which only warn. Duplicate
  items in the levels of one sync.
* Provider adapters (interfaces and a lookup), the admin user interface (presentation; it keeps no state
  the server depends on), the seed and maintenance scripts (run by hand, outside the running system).
* Idempotency keys handed to the framework are taken to have no effect.

## 7. Plan

Done: every part with state of its own is a module, composed with those it shares state with, and the
refinements of TenantLifecycle and AccessPolicy are stated, checked and proved. Every safety and action property the runs
check is proved. Next, in this order:

1. The refinement of more parts, as for the lifecycle and the access: what a creation of a tenant promises
   (one step, or nothing but a slug), against `Onboarding` without restarts.
2. The four hazards that no property covers: the delivery log of a failed insert (`apps/service.ts:323`), the alerts deleted
   under another key (`middlewares.ts:262`), the wizard's lost project (`tenant-management/service.ts:690`), the
   two publication stamps (`theme/service.ts:124`).
3. The safety half of `EventsAreProcessed`: what an event that is left pending waits for.

Runs stay one per question; a component composed with another is checked in the composed instance.
