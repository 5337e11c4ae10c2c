------------------------------ MODULE Webhooks ------------------------------
(***************************************************************************)
(* Inbound webhooks: the time stamp, the signature, and the nonces the     *)
(* process remembers.  The signature is looked up in the database between  *)
(* the two, so other deliveries, the clock and an invalidation come in     *)
(* between.                                                                *)
(***************************************************************************)
EXTENDS RuntimeState, FiniteSets

CONSTANTS
  Deliveries,        \* deliveries handled at a time
  Nonces, NoNonce,   \* of the one app of each tenant
  MaxSkew, Ttl,      \* WEBHOOK_MAX_SKEW_MS, WEBHOOK_NONCE_TTL_MS
  MaxQuery           \* bound: ticks the lookup may take

\* An entry outlives every stamp that was good when it was made.
ASSUME WebhookAssumption ==
  /\ NoNonce \notin Nonces
  /\ {MaxSkew, Ttl, MaxQuery} \subseteq Nat /\ 2 * MaxSkew <= Ttl

VARIABLES
  seen,      \* seenWebhookNonces: when the entry ends, 0 without one
  accepted,  \* webhookAcceptanceIndex, by tenant
  delivery,
  taken      \* (history) the last delivery accepted, since the tenant was invalidated

webhookVars == <<seen, accepted, delivery, taken>>

NonceKeys == Tenants \X Nonces
Times == 0..MaxTime
NoneTaken == [stamp |-> 0, at |-> 0, known |-> FALSE]

Waiting == [pc |-> "idle", key |-> <<System, NoNonce>>, stamp |-> 0, at |-> 0]
Delivery == [pc : {"verify"}, key : NonceKeys, stamp : Times, at : Times] \cup {Waiting}

WebhooksInit ==
  /\ seen = [k \in NonceKeys |-> 0]
  /\ accepted = [t \in Tenants |-> {}]
  /\ delivery = [d \in Deliveries |-> Waiting]
  /\ taken = [k \in NonceKeys |-> NoneTaken]

PutDelivery(d, q) == delivery' = [delivery EXCEPT ![d] = q]

Distance(a, b) == IF a < b THEN b - a ELSE a - b

CleanupExpiredNonces == [k \in NonceKeys |-> IF seen[k] <= now THEN 0 ELSE seen[k]]

\* Headers are there, the stamp is a number: what is missing is refused.
ReceiveWebhook(d) == \E key \in NonceKeys, stamp \in Times :
  /\ delivery[d].pc = "idle"
  /\ Distance(now, stamp) <= MaxSkew
  /\ PutDelivery(d, [pc |-> "verify", key |-> key, stamp |-> stamp, at |-> now])
  /\ seen' = CleanupExpiredNonces
  /\ UNCHANGED <<accepted, taken>>

\* No newest active key of an installed app of an active tenant signs it.
RefuseSignature(d) ==
  /\ delivery[d].pc = "verify"
  /\ PutDelivery(d, Waiting)
  /\ UNCHANGED <<seen, accepted, taken>>

\* Variant: an entry ends with the skew.
Remembered_Skew(at) == at + MaxSkew
Remembered(at) == at + Ttl

Upsert(t, document) == [accepted EXCEPT ![t] = @ \cup {document}]

\* No await between the answer, the look at the nonces and the entry.
AcceptNonce(d) == LET q == delivery[d] IN
  /\ q.pc = "verify"
  /\ IF seen[q.key] # 0 THEN UNCHANGED <<seen, accepted, taken>>
     ELSE /\ seen' = [seen EXCEPT ![q.key] = Remembered(q.at)]
          /\ accepted' = Upsert(q.key[1], q.key)
          /\ taken' = [taken EXCEPT ![q.key] = [stamp |-> q.stamp, at |-> q.at, known |-> TRUE]]
  /\ PutDelivery(d, Waiting)

PurgeWebhooks(t) ==
  /\ seen' = Purged(seen, t, 0)
  /\ accepted' = [accepted EXCEPT ![t] = {}]
  /\ taken' = Purged(taken, t, NoneTaken)
  /\ UNCHANGED delivery
=============================================================================
