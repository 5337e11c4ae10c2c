------------------------------ MODULE Leakage ------------------------------
(***************************************************************************)
(* What the process watches when a response is finished: a request for     *)
(* another tenant than the one the session is for, and an actor who moves  *)
(* between tenants.  Responses finish in any order.                        *)
(***************************************************************************)
EXTENDS RateLimits

CONSTANTS
  Actors, NoActor,
  PatternWindow   \* LEAKAGE_PATTERN_WINDOW_MS

ASSUME LeakageAssumption ==
  /\ NoActor \notin Actors
  /\ PatternWindow \in Nat
  /\ \A s \in Shapes : s.actor \in Actors \cup {NoActor} /\ s.session \in Owners

VARIABLES
  leaks,       \* potentialLeakageDeduplication: what has been reported
  patterns,    \* actorTenantPatternWindow
  lastSeen     \* (history) the last finished request of each actor

leakVars == <<leaks, patterns, lastSeen>>

NotSeen == [tenant |-> System, at |-> 0, known |-> FALSE]

LeakageInit ==
  /\ leaks = {}
  /\ patterns = [a \in Actors |-> NotSeen]
  /\ lastSeen = [a \in Actors |-> NotSeen]

AuthMismatch(s) == {<<Identity(s), "auth-mismatch", s.actor, t>> : t \in {s.session} \ {System, Identity(s)}}

Recent(seen) == seen.known /\ now - seen.at <= PatternWindow
CrossTenantKey(s, from) == <<Identity(s), "cross-tenant-pattern", s.actor, from>>
CrossTenant(s) ==
  IF s.actor \in Actors /\ Recent(patterns[s.actor]) /\ patterns[s.actor].tenant # Identity(s)
  THEN {CrossTenantKey(s, patterns[s.actor].tenant)} ELSE {}

See(seen, s) == IF s.actor \in Actors
                THEN [seen EXCEPT ![s.actor] = [tenant |-> Identity(s), at |-> now, known |-> TRUE]]
                ELSE seen

\* A second listener finds what the first has reported.
Finish(r) ==
  LET s == request[r].shape IN
  /\ request[r].pc = "handler"
  /\ leaks' = leaks \cup AuthMismatch(s) \cup CrossTenant(s)
  /\ patterns' = See(patterns, s)
  /\ lastSeen' = See(lastSeen, s)
  /\ PutRequest(r, Idle)

\* Variant: patterns are kept for the rate window.
CleanLeakage_TooSoon ==
  /\ patterns' = [a \in Actors |-> IF patterns[a].at + RateWindow <= now THEN NotSeen ELSE patterns[a]]
  /\ UNCHANGED <<leaks, lastSeen>>

\* The part of rateLimitCleanup that falls here.
CleanLeakage ==
  /\ patterns' = [a \in Actors |-> IF patterns[a].at + PatternWindow <= now THEN NotSeen ELSE patterns[a]]
  /\ UNCHANGED <<leaks, lastSeen>>

\* patterns are kept by actor, and no invalidator knows them.
PurgeLeakage(t) ==
  /\ leaks' = PurgedSet(leaks, t)
  /\ UNCHANGED <<patterns, lastSeen>>
=============================================================================
