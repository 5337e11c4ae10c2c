----------------------------- MODULE Analytics -----------------------------
(***************************************************************************)
(* Analytics events, the two jobs that roll them up by tenant and day, the *)
(* job that deletes what is past its retention, and the reports.           *)
(*                                                                         *)
(* An event is its number; the numbers in stored are in the table, those   *)
(* in pending have no processed_at.  A rollup is the events it was         *)
(* computed from, and a day's top products are the lines - the items of    *)
(* sales - of the products listed, so a total that is wrong is a set that  *)
(* is.  A step of a job is one statement at READ COMMITTED: whoever has    *)
(* written the rollup of a bucket holds its row until it commits, and what *)
(* a transaction writes appears when it ends.                              *)
(***************************************************************************)
EXTENDS Naturals, Sequences, FiniteSets, FiniteSetsExt

CONSTANTS
  Tenants, Orders, None,
  RawDays, RollupDays,   \* RAW_EVENT_RETENTION_DAYS, ROLLUP_RETENTION_DAYS
  BucketLimit,           \* buckets of one aggregatePendingEvents
  TopLimit,              \* products of a day
  Products,
  Limits,                \* bound: how many products a report is asked for
  FrontKinds,            \* bound: the kinds of event the storefront reports
  Workloads,             \* bound: what happens in one behaviour
  MaxEvents, MaxFrontEvents, MaxDays, MaxStatusChanges, MaxFailures   \* bounds

ASSUME RetentionAssumption == RawDays \in Nat /\ RollupDays \in Nat /\ RawDays < RollupDays
ASSUME FrontAssumption == FrontKinds \subseteq {"session_started", "checkout_started"}
ASSUME LimitAssumption == /\ BucketLimit \in Nat \ {0} /\ TopLimit \in Nat \ {0}
                          /\ Limits \subseteq Nat
ASSUME BoundsAssumption == MaxEvents \in Nat /\ MaxDays \in Nat \ {0}

VARIABLES
  event,       \* every event recorded so far
  stored, pending,
  rollup,      \* analytics_rollup_daily
  top,         \* analytics_top_product_daily
  today, active,
  job,         \* the transaction each aggregation is in
  sweep,       \* the deletes of enforceRetentionPolicies still to run
  counted,     \* events some committed rollup has counted
  raced,       \* events recorded while an aggregation had read their bucket
  failures, changes, workload

tables == <<event, stored, pending, rollup, top, counted, raced>>
jobs == <<job, sweep>>
world == <<today, active, failures, changes, workload>>
analyticsVars == <<tables, jobs, world>>

Jobs == {"rollups", "top-products"}
Activities == Jobs \cup {"session", "setup", "status", "days", "retention", "checkout", "failures"}
ASSUME WorkloadAssumption == Workloads \subseteq SUBSET (Activities \cup Tenants \cup Orders)

Days == 1..MaxDays
Buckets == Tenants \X Days
Kinds == {"session_started", "checkout_started", "checkout_completed"}
\* Prices and amounts are in halves; only a sale has items.
Item == [product : Products, quantity : Nat, price : Nat]
Event == [tenant : Tenants, day : Days, kind : Kinds, order : Orders \cup {None},
          amount : Nat, items : Seq(Item)]
Numbers == 1..Len(event)
Bucket(i) == <<event[i].tenant, event[i].day>>
InBucket(b) == {i \in stored : Bucket(i) = b}

\* A line is an event and the place of one of its items.
Lines(S) == UNION {{i} \X (1..Len(event[i].items)) : i \in S}
Line(x) == event[x[1]].items[x[2]]

Idle == [pc |-> "idle"]
\* The buckets still to do and, inside a transaction, its bucket and reads.
Job == {Idle} \cup [pc : {"select"}, todo : SUBSET Buckets]
       \cup [pc : {"upsert", "products", "finish"}, todo : SUBSET Buckets, bucket : Buckets,
             seen : SUBSET (1..MaxEvents), lines : SUBSET ((1..MaxEvents) \X Nat)]

AnalyticsInit ==
  /\ event = <<>> /\ stored = {} /\ pending = {} /\ counted = {} /\ raced = {}
  /\ rollup = [b \in Buckets |-> None] /\ top = [b \in Buckets |-> {}]
  /\ today = 1 /\ active = Tenants /\ failures = 0 /\ changes = 0
  /\ job = [j \in Jobs |-> Idle] /\ sweep = {}
  /\ workload \in Workloads
-----------------------------------------------------------------------------
(* Events arrive.                                                          *)

\* A transaction of b that has read the events of its bucket.
Reading(j, b) == job[j].pc \in {"upsert", "products", "finish"} /\ job[j].bucket = b

\* Nobody names event_timestamp, so an event belongs to the day it comes.
\* The column takes an amount in whole numbers only.
RecordEvent(t, kind, order, amount, items) ==
  /\ Len(event) < MaxEvents
  /\ amount % 2 = 0
  /\ event' = Append(event, [tenant |-> t, day |-> today, kind |-> kind, order |-> order,
                             amount |-> amount, items |-> items])
  /\ LET i == Len(event) + 1 IN
     /\ stored' = stored \cup {i} /\ pending' = pending \cup {i}
     /\ raced' = IF \E j \in Jobs : Reading(j, <<t, today>>) THEN raced \cup {i} ELSE raced
  /\ UNCHANGED <<rollup, top, counted>>

\* The storefront's own events, once the billing meter has let them pass.
StorefrontEvent(t) ==
  /\ {"session", t} \subseteq workload /\ Len(event) < MaxFrontEvents
  /\ \E kind \in FrontKinds : RecordEvent(t, kind, None, 0, <<>>)
  /\ UNCHANGED <<jobs, world>>

\* The setup wizard reports a completed checkout that has no order.
SetupEvent(t) ==
  /\ {"setup", t} \subseteq workload /\ Len(event) < MaxFrontEvents
  /\ RecordEvent(t, "checkout_completed", None, 0, <<>>)
  /\ UNCHANGED <<jobs, world>>
-----------------------------------------------------------------------------
(* aggregatePendingEvents and aggregateByDate.                             *)

\* Variant: the day that is over is left to the retention.
PendingBuckets_Today == {Bucket(i) : i \in {n \in pending : event[n].tenant \in active /\ event[n].day = today}}
PendingBuckets == {Bucket(i) : i \in {n \in pending : event[n].tenant \in active}}

Oldest(S) == {todo \in SUBSET S :
                /\ Cardinality(todo) = IF Cardinality(S) < BucketLimit THEN Cardinality(S) ELSE BucketLimit
                /\ \A b \in todo, c \in S \ todo : b[2] <= c[2]}

PutJob(j, q) == job' = [job EXCEPT ![j] = q]
Continued(todo) == IF todo = {} THEN Idle ELSE [pc |-> "select", todo |-> todo]

AggregatePendingEvents(j) ==
  /\ j \in workload /\ job[j] = Idle
  /\ PendingBuckets # {}
  /\ \E todo \in Oldest(PendingBuckets) : PutJob(j, [pc |-> "select", todo |-> todo])
  /\ UNCHANGED <<tables, sweep, world>>

\* Variant: what has been counted is not read again.
Rolled_New(b) == InBucket(b) \cap pending
\* The totals are of all events of the day that are still there.
Rolled(b) == InBucket(b)

SelectRollup(j) ==
  /\ job[j].pc = "select"
  /\ \E b \in job[j].todo :
       /\ \A c \in job[j].todo : b[2] <= c[2]
       /\ PutJob(j, [pc |-> "upsert", todo |-> job[j].todo \ {b}, bucket |-> b,
                     seen |-> Rolled(b), lines |-> {}])
  /\ UNCHANGED <<tables, sweep, world>>

\* Who has written the row of b and not committed.
Holds(j, b) == job[j].pc \in {"products", "finish"} /\ job[j].bucket = b

UpsertRollup(j) ==
  /\ job[j].pc = "upsert"
  /\ \A k \in Jobs : ~Holds(k, job[j].bucket)
  /\ job' = [job EXCEPT ![j].pc = "products"]
  /\ UNCHANGED <<tables, sweep, world>>

\* The lines of each product together.
ByProduct(L) == {{x \in L : Line(x).product = p} : p \in {Line(x).product : x \in L}}
Gmv(L) == SumFunction([x \in L |-> Line(x).quantity * Line(x).price])

Least(m, n) == IF m < n THEN m ELSE n
\* Variant: the order is left to its default.
Highest_Ascending(rows, limit) ==
  {R \in SUBSET rows : /\ Cardinality(R) = Least(limit, Cardinality(rows))
                       /\ \A u \in R, v \in rows \ R : Gmv(u) <= Gmv(v)}
\* The first rows by gmv; of equal ones, any.
Highest(rows, limit) ==
  {R \in SUBSET rows : /\ Cardinality(R) = Least(limit, Cardinality(rows))
                       /\ \A u \in R, v \in rows \ R : Gmv(v) <= Gmv(u)}

Selling(b) == {i \in InBucket(b) : event[i].kind = "checkout_completed"}
Split(i) == \E n \in 1..Len(event[i].items) : event[i].items[n].price % 2 = 1

SelectProducts(j) ==
  /\ job[j].pc = "products"
  /\ LET sales == Selling(job[j].bucket) IN
     \/ /\ \A i \in sales : ~Split(i)
        /\ \E rows \in Highest(ByProduct(Lines(sales)), TopLimit) :
             job' = [job EXCEPT ![j].pc = "finish", ![j].lines = UNION rows]
     \/ \* a cast to int fails; so do the transaction and the whole run
        (\E i \in sales : Split(i)) /\ PutJob(j, Idle)
  /\ UNCHANGED <<tables, sweep, world>>

\* Variant: everything the tenant has is marked, whatever its day.
Marked_Tenant(b) == {i \in pending : event[i].tenant = b[1]}
\* The last statement marks the events the bucket has by then.
Marked(b) == pending \cap InBucket(b)

\* The top products are replaced, the events are marked, the transaction commits.
FinishBucket(j) ==
  /\ job[j].pc = "finish"
  /\ LET b == job[j].bucket IN
     /\ rollup' = [rollup EXCEPT ![b] = job[j].seen]
     /\ top' = [top EXCEPT ![b] = job[j].lines]
     /\ pending' = pending \ Marked(b)
     /\ counted' = counted \cup job[j].seen
  /\ PutJob(j, Continued(job[j].todo))
  /\ UNCHANGED <<event, stored, raced, sweep, world>>

\* A connection is lost or the process stops: the transaction is undone and
\* the buckets after it wait for the next run.
AbortJob(j) ==
  /\ "failures" \in workload /\ job[j] # Idle /\ failures < MaxFailures
  /\ PutJob(j, Idle)
  /\ failures' = failures + 1
  /\ UNCHANGED <<tables, sweep, today, active, changes, workload>>
-----------------------------------------------------------------------------
(* enforceRetentionPolicies: three deletes at once.                        *)

Past(day, keep) == day + keep < today

EnforceRetentionPolicies ==
  /\ "retention" \in workload /\ sweep = {}
  /\ \E d \in Days : Past(d, RawDays)
  /\ sweep' = {"events", "rollups", "top products"}
  /\ UNCHANGED <<tables, job, world>>

Swept(what) == what \in sweep /\ sweep' = sweep \ {what}

\* What has not been processed stays.
Expired == {i \in stored \ pending : Past(event[i].day, RawDays)}

DeleteEvents ==
  /\ Swept("events")
  /\ stored' = stored \ Expired /\ pending' = pending \ Expired
  /\ UNCHANGED <<event, rollup, top, counted, raced, job, world>>

\* A row a transaction holds is waited for.
DeleteRollups ==
  LET old == {b \in Buckets : rollup[b] # None /\ Past(b[2], RollupDays)} IN
  /\ Swept("rollups")
  /\ \A b \in old, j \in Jobs : ~Holds(j, b)
  /\ rollup' = [b \in Buckets |-> IF b \in old THEN None ELSE rollup[b]]
  /\ UNCHANGED <<event, stored, pending, top, counted, raced, job, world>>

DeleteTopProducts ==
  /\ Swept("top products")
  /\ top' = [b \in Buckets |-> IF Past(b[2], RollupDays) THEN {} ELSE top[b]]
  /\ UNCHANGED <<event, stored, pending, rollup, counted, raced, job, world>>
-----------------------------------------------------------------------------
NextDay ==
  /\ "days" \in workload /\ today < MaxDays
  /\ today' = today + 1
  /\ UNCHANGED <<tables, jobs, active, failures, changes, workload>>

\* A tenant is suspended, or comes back.
ChangeStatus(t) ==
  /\ {"status", t} \subseteq workload /\ changes < MaxStatusChanges
  /\ active' = IF t \in active THEN active \ {t} ELSE active \cup {t}
  /\ changes' = changes + 1
  /\ UNCHANGED <<tables, jobs, today, failures, workload>>

Aggregation(j) ==
  \/ AggregatePendingEvents(j) \/ SelectRollup(j) \/ UpsertRollup(j) \/ SelectProducts(j)
  \/ FinishBucket(j)

AnalyticsNext ==
  \/ \E t \in Tenants : StorefrontEvent(t) \/ SetupEvent(t) \/ ChangeStatus(t)
  \/ \E j \in Jobs : Aggregation(j) \/ AbortJob(j)
  \/ EnforceRetentionPolicies \/ DeleteEvents \/ DeleteRollups \/ DeleteTopProducts
  \/ NextDay
-----------------------------------------------------------------------------
(* The reports.                                                            *)

Of(S, kind) == {i \in S : event[i].kind = kind}
AmountOf(i) == event[i].amount
Row(b) == LET S == rollup[b] IN
  [date |-> b[2], sessions |-> Cardinality(Of(S, "session_started")),
   started |-> Cardinality(Of(S, "checkout_started")),
   completed |-> Cardinality(Of(S, "checkout_completed")),
   orders |-> Cardinality({event[i].order : i \in Of(S, "checkout_completed")} \ {None}),
   gmv |-> MapThenSumSet(AmountOf, Of(S, "checkout_completed"))]

\* The days of a range that have a rollup.
GetTimeseries(t, from, to) == {Row(<<t, d>>) : d \in {n \in from..to : rollup[<<t, n>>] # None}}

\* No limit, or 0, is 10; the greatest is 100.
Clamped(limit) == Least(IF limit = 0 THEN 10 ELSE limit, 100)

\* The products of a range, each with the lines it is added up from.
GetTopProducts(t, from, to, limit) ==
  Highest(ByProduct(UNION {top[<<t, d>>] : d \in from..to}), Clamped(limit))
=============================================================================
