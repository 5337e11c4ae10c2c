----------------------------- MODULE RateLimits -----------------------------
(***************************************************************************)
(* The chain of limiters every request passes: requests of a tenant and    *)
(* an address, mutations of a scope, and the throttle and the quota of an  *)
(* endpoint class.  A pass runs without an await, so it is one step; a     *)
(* webhook matches both routes of defineMiddlewares and passes twice, with *)
(* the lookup of the tenant in between.                                    *)
(***************************************************************************)
EXTENDS RuntimeState, FiniteSets

CONSTANTS
  Requests,                                \* requests at a time
  Shapes,                                  \* bound: the requests that arrive, as Shape
  Ips, NoScope,
  MaxIp, MaxMutation,                      \* RATE_LIMIT_MAX_REQUESTS, maxRequests
  Throttle, Hard, Grace, AlertAt,    \* EndpointClassQuotaConfig
  SpikeAt,
  RateWindow, QuotaWindow                  \* in ticks; the abuse window is the rate window

ASSUME LimitAssumption ==
  /\ {MaxIp, MaxMutation, Throttle, Hard, RateWindow, QuotaWindow} \subseteq Nat \ {0}
  /\ {Grace, AlertAt, SpikeAt} \subseteq Nat

VARIABLES
  ipBuckets, mutationBuckets, throttles, quotas, abuses,
  quotaAlerts, abuseAlerts,   \* alerts already raised, by tenant and class
  request,
  passedIp, passedQuota       \* (history) the Marks of the requests let through, by key

limitVars == <<ipBuckets, mutationBuckets, throttles, quotas, abuses, quotaAlerts, abuseAlerts,
               passedIp, passedQuota>>

Marks == {"auth", "export", "report"}
Methods == {"GET", "POST"}
Scopes == {"checkout", "app-install", "tenant-invite", "order-mutation"}
Limited(s) == s.scope \in Scopes /\ s.method = "POST"

\* What the chain reads of a request: the tenant the context found, the one
\* the header or the route names, and the words in its path.
IsShape(s) ==
  /\ s.context \in Owners /\ s.named \in Owners /\ s.ip \in Ips
  /\ s.marks \subseteq Marks /\ s.method \in Methods
  /\ s.scope \in Scopes \cup {NoScope} /\ s.webhook \in BOOLEAN

ASSUME ShapeAssumption == \A s \in Shapes : IsShape(s)

\* getTenantRateLimitIdentity
Identity(s) == IF s.context # System THEN s.context ELSE s.named

\* The first mark that applies decides.
ClassifyEndpoint(s) ==
  IF "auth" \in s.marks THEN "auth"
  ELSE IF "export" \in s.marks THEN "api-exports"
  ELSE IF "report" \in s.marks THEN "reporting"
  ELSE IF s.method = "POST" THEN "write-heavy" ELSE "reporting"

IpKey(s) == <<s.context, s.ip>>
MutationKey(s) == <<Identity(s), s.scope>>
ClassKey(s) == <<Identity(s), ClassifyEndpoint(s)>>
IpKeys == {IpKey(s) : s \in Shapes}
MutationKeys == {MutationKey(s) : s \in Shapes}
ClassKeys == {ClassKey(s) : s \in Shapes}

Idle == [pc |-> "idle"]
\* passes: how often the chain has let the request through, and so how many
\* listeners wait for its end.
Request == [pc : {"second", "handler"}, shape : Shapes, passes : 1..2] \cup {Idle}

LimitsInit ==
  /\ ipBuckets = [k \in IpKeys |-> NoBucket]
  /\ mutationBuckets = [k \in MutationKeys |-> NoBucket]
  /\ throttles = [k \in ClassKeys |-> NoBucket]
  /\ quotas = [k \in ClassKeys |-> NoBucket]
  /\ abuses = [k \in ClassKeys |-> NoBucket]
  /\ quotaAlerts = {} /\ abuseAlerts = {}
  /\ request = [r \in Requests |-> Idle]
  /\ passedIp = [k \in IpKeys |-> {}]
  /\ passedQuota = [k \in ClassKeys |-> {}]

-----------------------------------------------------------------------------
(* Which limiter lets the request through; each is asked only if those     *)
(* before it have.                                                         *)

\* Variant: one request too many.
IpPasses_Late(s) == ~Full(ipBuckets[IpKey(s)], MaxIp + 1)
IpPasses(s) == ~Full(ipBuckets[IpKey(s)], MaxIp)
MutationPasses(s) == ~Limited(s) \/ ~Full(mutationBuckets[MutationKey(s)], MaxMutation)
ThrottlePasses(s) == ~Full(throttles[ClassKey(s)], Throttle)

\* The request is counted before the quota is compared.
UsageCount(s) == Hit(quotas[ClassKey(s)], QuotaWindow).count
QuotaPasses(s) == UsageCount(s) <= Hard + Grace

ReachesMutation(s) == IpPasses(s)
ReachesThrottle(s) == ReachesMutation(s) /\ MutationPasses(s)
ReachesQuota(s) == ReachesThrottle(s) /\ ThrottlePasses(s)
Passes(s) == ReachesQuota(s) /\ QuotaPasses(s)

Count(map, key, window, counted) ==
  IF counted THEN [Cleaned(map) EXCEPT ![key] = Hit(@, window)] ELSE Cleaned(map)

\* rateLimitCleanup deletes the alerts under the key of the quota, where
\* none is stored: an alert stays.
RaiseQuotaAlert(s) ==
  quotaAlerts' = IF ReachesQuota(s) /\ UsageCount(s) >= AlertAt THEN quotaAlerts \cup {ClassKey(s)} ELSE quotaAlerts

\* A spike's alert is stored under the key of its bucket and is deleted
\* with it.  The bucket is deleted before it is read, so no window knows the
\* count of the one before it and the threshold is always the least one.
SpikeAlerts(s) == LET kept == {k \in abuseAlerts : Running(abuses[k])} IN
  abuseAlerts' = IF Passes(s) /\ Running(abuses[ClassKey(s)]) /\ abuses[ClassKey(s)].count + 1 >= SpikeAt
                 THEN kept \cup {ClassKey(s)} ELSE kept

\* The mark of a request: the counter it was counted in, by its end, as
\* which one, and when.
Mark(b) == [ends |-> b.resetAt, nth |-> b.count, at |-> now]
Remember(passed, key, b, counted) == IF counted THEN [passed EXCEPT ![key] = @ \cup {Mark(b)}] ELSE passed

Chain(s) ==
  /\ ipBuckets' = Count(ipBuckets, IpKey(s), RateWindow, IpPasses(s))
  /\ mutationBuckets' = Count(mutationBuckets, MutationKey(s), RateWindow, Limited(s) /\ ReachesThrottle(s))
  /\ throttles' = Count(throttles, ClassKey(s), RateWindow, ReachesQuota(s))
  /\ quotas' = Count(quotas, ClassKey(s), QuotaWindow, ReachesQuota(s))
  /\ abuses' = Count(abuses, ClassKey(s), RateWindow, Passes(s))
  /\ RaiseQuotaAlert(s) /\ SpikeAlerts(s)
  /\ passedIp' = Remember(passedIp, IpKey(s), Hit(ipBuckets[IpKey(s)], RateWindow), IpPasses(s))
  /\ passedQuota' = Remember(passedQuota, ClassKey(s), Hit(quotas[ClassKey(s)], QuotaWindow), Passes(s))

PutRequest(r, q) == request' = [request EXCEPT ![r] = q]

\* A request that is let through waits for its end.
Arrive(r, s, pc, passes) == PutRequest(r, [pc |-> pc, shape |-> s, passes |-> passes])

FirstPass(r, s) ==
  /\ request[r].pc = "idle"
  /\ Chain(s)
  /\ IF Passes(s) THEN Arrive(r, s, IF s.webhook THEN "second" ELSE "handler", 1) ELSE UNCHANGED request

\* A request refused now has a listener from its first pass.
SecondPass(r) == LET s == request[r].shape IN
  /\ request[r].pc = "second"
  /\ Chain(s)
  /\ PutRequest(r, [request[r] EXCEPT !.pc = "handler", !.passes = IF Passes(s) THEN 2 ELSE 1])

\* The history begins anew with the counters.
PurgeLimits(t) ==
  /\ ipBuckets' = Purged(ipBuckets, t, NoBucket)
  /\ mutationBuckets' = Purged(mutationBuckets, t, NoBucket)
  /\ throttles' = Purged(throttles, t, NoBucket)
  /\ quotas' = Purged(quotas, t, NoBucket)
  /\ abuses' = Purged(abuses, t, NoBucket)
  /\ quotaAlerts' = PurgedSet(quotaAlerts, t)
  /\ abuseAlerts' = PurgedSet(abuseAlerts, t)
  /\ passedIp' = Purged(passedIp, t, {})
  /\ passedQuota' = Purged(passedQuota, t, {})

\* The history goes back as far as the window.
Within(marks, window) == {m \in marks : now' - m.at < window}
AgeLimits == /\ passedIp' = [k \in IpKeys |-> Within(passedIp[k], RateWindow)]
             /\ passedQuota' = [k \in ClassKeys |-> Within(passedQuota[k], QuotaWindow)]
             /\ UNCHANGED <<ipBuckets, mutationBuckets, throttles, quotas, abuses, quotaAlerts, abuseAlerts>>
=============================================================================
