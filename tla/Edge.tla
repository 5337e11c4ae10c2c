-------------------------------- MODULE Edge --------------------------------
(***************************************************************************)
(* The edge of the process: the limiters, the leakage watch and the nonces *)
(* of the webhook route over one clock, and the invalidation of a tenant   *)
(* that every change of its members or its status ends with.               *)
(***************************************************************************)
EXTENDS Leakage, Webhooks

CONSTANT Workloads   \* bound: what arrives in one behaviour
ASSUME WorkloadAssumption ==
  Workloads \subseteq SUBSET {"limits", "mutations", "leakage", "webhooks", "invalidation"}

VARIABLE workload

vars == <<now, request, limitVars, leakVars, webhookVars, workload>>

Init == /\ now = 0 /\ LimitsInit /\ LeakageInit /\ WebhooksInit
        /\ workload \in Workloads

Arriving == {s \in Shapes : s.workload \in workload}

\* Bound: the counters are kept in the workloads about the limits only, and
\* there a response leaves nothing behind.
Limit(r) == /\ {"limits", "mutations"} \cap workload # {}
            /\ (\E s \in Arriving : FirstPass(r, s)) \/ SecondPass(r)
            /\ CleanLeakage
            /\ UNCHANGED <<now, webhookVars, workload>>

LetThrough(r) == /\ "leakage" \in workload
                 /\ request[r].pc = "idle"
                 /\ \E s \in Arriving : Arrive(r, s, "handler", IF s.webhook THEN 2 ELSE 1)
                 /\ CleanLeakage
                 /\ UNCHANGED <<now, limitVars, webhookVars, workload>>

Respond(r) == /\ request[r].pc = "handler"
              /\ IF "leakage" \in workload THEN Finish(r) ELSE PutRequest(r, Idle) /\ UNCHANGED leakVars
              /\ UNCHANGED <<now, limitVars, webhookVars, workload>>

Webhook(d) == /\ "webhooks" \in workload
              /\ ReceiveWebhook(d) \/ RefuseSignature(d) \/ AcceptNonce(d)
              /\ UNCHANGED <<now, request, limitVars, leakVars, workload>>

InvalidateTenantRuntimeState(t) ==
  /\ "invalidation" \in workload
  /\ PurgeLimits(t) /\ PurgeLeakage(t) /\ PurgeWebhooks(t)
  /\ UNCHANGED <<now, request, workload>>

Tick == /\ now < MaxTime
        /\ \A d \in Deliveries : delivery[d].pc = "verify" => now - delivery[d].at < MaxQuery
        /\ now' = now + 1
        /\ AgeLimits
        /\ UNCHANGED <<request, leakVars, webhookVars, workload>>

\* Nothing more has to arrive.
Quiet == now = MaxTime /\ UNCHANGED vars

Next == \/ Tick \/ Quiet
        \/ \E r \in Requests : Limit(r) \/ LetThrough(r) \/ Respond(r)
        \/ \E d \in Deliveries : Webhook(d)
        \/ \E t \in Tenants : InvalidateTenantRuntimeState(t)

Spec == Init /\ [][Next]_vars
-----------------------------------------------------------------------------
Counters == {ipBuckets[k] : k \in IpKeys} \cup {mutationBuckets[k] : k \in MutationKeys}
            \cup {throttles[k] : k \in ClassKeys} \cup {quotas[k] : k \in ClassKeys} \cup {abuses[k] : k \in ClassKeys}

\* The type invariant: counters, keys and requests are what the code builds.
TypeOK ==
  /\ now \in 0..MaxTime
  /\ \A b \in Counters : b.count \in Nat /\ b.resetAt \in 0..(MaxTime + RateWindow + QuotaWindow)
  /\ quotaAlerts \subseteq ClassKeys /\ abuseAlerts \subseteq ClassKeys
  /\ request \in [Requests -> Request]
  /\ \A k \in leaks : k[1] \in Owners /\ k[3] \in Actors \cup {NoActor} /\ k[4] \in Owners
  /\ patterns \in [Actors -> [tenant : Owners, at : 0..MaxTime, known : BOOLEAN]]
  /\ seen \in [NonceKeys -> Nat] /\ accepted \in [Tenants -> SUBSET NonceKeys]
  /\ delivery \in [Deliveries -> Delivery]

\* Counters begin at a request and not at the minute, so more than a limit
\* may pass in some minutes: never twice the limit, though, in any stretch
\* as long as the window - neither of an address, nor, with the grace, of
\* a tenant's class.
RatesBounded ==
  /\ \A k \in IpKeys : Cardinality(passedIp[k]) <= 2 * MaxIp - 1
  /\ \A k \in ClassKeys : Cardinality(passedQuota[k]) <= 2 * (Hard + Grace) - 1

\* A response for another tenant than the actor's last one within the
\* window is reported, whatever rateLimitCleanup has deleted in between.
CrossTenantReported ==
  [][\A r \in Requests :
       request[r].pc = "handler" /\ request'[r] = Idle =>
         LET s == request[r].shape IN
         s.actor \in Actors /\ lastSeen[s.actor].known /\ now - lastSeen[s.actor].at < PatternWindow
           /\ lastSeen[s.actor].tenant # Identity(s)
           => CrossTenantKey(s, lastSeen[s.actor].tenant) \in leaks']_vars

Again(k) == taken'[k] # taken[k] /\ taken[k].known /\ taken'[k].known

\* As long as the process remembers the tenant, the same delivery, with
\* one time stamp, is accepted twice only when it comes first as early and
\* then as late as its stamp allows, up to a lookup: the entry ends with
\* the last instant the stamp counts, and a delivery that waits for its
\* signature may find the entry gone that was there when it came.
ReplayOnlyAtBoundary ==
  [][\A k \in NonceKeys : Again(k) /\ taken'[k].stamp = taken[k].stamp
       => Distance(taken'[k].at, taken[k].at) >= 2 * MaxSkew - MaxQuery]_vars
=============================================================================
