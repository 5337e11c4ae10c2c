------------------------------- MODULE Orders -------------------------------
(***************************************************************************)
(* The routes around an order - fulfilments, tracking, refunds, returns -  *)
(* and its timeline.                                                       *)
(*                                                                         *)
(* The rows and the workflows that write them are the framework's, and     *)
(* external: each is one step here that leaves a row with its times.  The  *)
(* repository's own part is what its routes hand over and the timeline,    *)
(* which reads four tables at once and puts what it found in order.        *)
(***************************************************************************)
EXTENDS Naturals, Sequences, FiniteSets, SequencesExt

CONSTANTS Rows,      \* ids of fulfilments, refunds and returns
          Readers, MaxWrites   \* bound

VARIABLES
  order,        \* created_at and updated_at of the order
  fulfillments, returns, refunds,
  time, writes,
  timeline      \* the requests for the timeline

orderVars == <<order, fulfillments, returns, refunds, time, writes, timeline>>

ASSUME WritesAssumption == MaxWrites \in Nat

Tables == {"order", "fulfillment", "return", "refund"}
Times == 1..MaxWrites + 1
NoRow == [created |-> 0]
Fulfillment == [created : Times, updated : Times, tracked : BOOLEAN] \cup {NoRow}
Return == [created : Times, updated : Times] \cup {NoRow}
Refund == [created : Times, payment : 1..2] \cup {NoRow}
EventTypes == {"order.created", "order.updated", "fulfillment.created", "fulfillment.shipped",
               "refund.created", "return.created", "return.updated"}

OrdersInit ==
  /\ order = [created |-> 1, updated |-> 1]
  /\ fulfillments = [x \in Rows |-> NoRow]
  /\ returns = [x \in Rows |-> NoRow]
  /\ refunds = [x \in Rows |-> NoRow]
  /\ time = 1 /\ writes = 0
  /\ timeline = [q \in Readers |-> [pc |-> "new"]]

Existing(table) == {x \in DOMAIN table : table[x] # NoRow}
Fresh(table) == {x \in DOMAIN table : table[x] = NoRow}

\* A write is made now; the clock may not have moved since the last one.
\* Whether the framework touches the order as well is its own affair.
Touch(now) == /\ time' = now /\ writes' = writes + 1
              /\ order' \in {order, [order EXCEPT !.updated = now]}
              /\ UNCHANGED timeline
-----------------------------------------------------------------------------
Fulfilled(f, now) == [fulfillments EXCEPT ![f] = [created |-> now, updated |-> now, tracked |-> FALSE]]
CreateFulfillment(now) ==
  /\ \E f \in Fresh(fulfillments) : fulfillments' = Fulfilled(f, now)
  /\ Touch(now) /\ UNCHANGED <<returns, refunds>>

\* The route asks for labels, so a shipment has tracking links.
Shipped(f, now) == [fulfillments EXCEPT ![f].updated = now, ![f].tracked = TRUE]
UpdateTracking(now) ==
  /\ \E f \in Existing(fulfillments) : fulfillments' = Shipped(f, now)
  /\ Touch(now) /\ UNCHANGED <<returns, refunds>>

\* Variant: only the payment the body names.
ResolvePayment_Named(named) == named
\* The payment the body names, or the first of those the order has by now;
\* without one there is no refund.
ResolvePayment(named) == IF named # 0 THEN named ELSE 1
Refunded(x, payment, now) == [refunds EXCEPT ![x] = [created |-> now, payment |-> payment]]
HandleRefund(now) ==
  /\ \E payments \in 0..2 : \E named \in 0..payments, x \in Fresh(refunds) :
       /\ named # 0 \/ payments > 0
       /\ refunds' = Refunded(x, ResolvePayment(named), now)
  /\ Touch(now) /\ UNCHANGED <<fulfillments, returns>>

\* The action begins a return; any other one updates one.
Returned(action, now) ==
  IF action = "begin"
  THEN {[returns EXCEPT ![x] = [created |-> now, updated |-> now]] : x \in Fresh(returns)}
  ELSE {[returns EXCEPT ![x].updated = now] : x \in Existing(returns)}
ManageReturn(now) ==
  /\ \E action \in {"begin", "request_items", "update"} : returns' \in Returned(action, now)
  /\ Touch(now) /\ UNCHANGED <<fulfillments, refunds>>

\* A customer's return is created and completed at once.
CreateCustomerReturn(now) ==
  /\ returns' \in Returned("begin", now)
  /\ Touch(now) /\ UNCHANGED <<fulfillments, refunds>>
-----------------------------------------------------------------------------
(* orderTimelineWorkflow.                                                  *)

Event(type, id, at) == [type |-> type, id |-> id, at |-> at]

Rowing(table, Of(_)) == FlattenSeq(SetToSeq({Of(x) : x \in Existing(table)}))

EventsOfOrder(o) ==
  <<Event("order.created", 0, o.created)>>
  \o (IF o.updated # o.created THEN <<Event("order.updated", 0, o.updated)>> ELSE <<>>)

EventsOfFulfillments(table) ==
  LET of(f) == <<Event("fulfillment.created", f, table[f].created)>>
               \o (IF table[f].tracked THEN <<Event("fulfillment.shipped", f, table[f].updated)>> ELSE <<>>)
  IN Rowing(table, of)

EventsOfRefunds(table) ==
  LET of(x) == <<Event("refund.created", x, table[x].created)>> IN Rowing(table, of)

\* Variant: a return that has changed is listed with its last change only.
EventsOfReturns_Last(table) ==
  LET of(x) == IF table[x].updated # table[x].created
               THEN <<Event("return.updated", x, table[x].updated)>>
               ELSE <<Event("return.created", x, table[x].created)>>
  IN Rowing(table, of)
EventsOfReturns(table) ==
  LET of(x) == <<Event("return.created", x, table[x].created)>>
               \o (IF table[x].updated # table[x].created
                   THEN <<Event("return.updated", x, table[x].updated)>> ELSE <<>>)
  IN Rowing(table, of)

\* The comparator never says equal, and says last for the later of two
\* events of one time: the sort keeps them as they were.
Before(s, m, n) == s[m].at > s[n].at \/ (s[m].at = s[n].at /\ m < n)
\* The place that comes after k - 1 others.
Place(s, k) == CHOOSE m \in 1..Len(s) : Cardinality({n \in 1..Len(s) : Before(s, n, m)}) = k - 1
NewestFirst(s) == [k \in 1..Len(s) |-> s[Place(s, k)]]

Timeline(read) ==
  NewestFirst(EventsOfOrder(read["order"]) \o EventsOfFulfillments(read["fulfillment"])
              \o EventsOfRefunds(read["refund"]) \o EventsOfReturns(read["return"]))

Snapshot == [order |-> order, fulfillment |-> fulfillments, return |-> returns, refund |-> refunds]

AskTimeline(q) ==
  /\ timeline[q].pc = "new"
  /\ timeline' = [timeline EXCEPT ![q] = [pc |-> "reading", read |-> <<>>, before |-> Snapshot]]
  /\ UNCHANGED <<order, fulfillments, returns, refunds, time, writes>>

\* The four reads come back in any order.
ReadTable(q, table) ==
  /\ timeline[q].pc = "reading" /\ table \notin DOMAIN timeline[q].read
  /\ timeline' = [timeline EXCEPT ![q].read =
       [x \in DOMAIN @ \cup {table} |-> IF x = table THEN Snapshot[table] ELSE @[x]]]
  /\ UNCHANGED <<order, fulfillments, returns, refunds, time, writes>>

AnswerTimeline(q) ==
  /\ timeline[q].pc = "reading" /\ DOMAIN timeline[q].read = Tables
  /\ timeline' = [timeline EXCEPT ![q] = [pc |-> "answered", events |-> Timeline(timeline[q].read),
                                          before |-> timeline[q].before]]
  /\ UNCHANGED <<order, fulfillments, returns, refunds, time, writes>>

OrdersNext ==
  \/ writes < MaxWrites /\ \E now \in {time, time + 1} :
       CreateFulfillment(now) \/ UpdateTracking(now) \/ HandleRefund(now) \/ ManageReturn(now)
         \/ CreateCustomerReturn(now)
  \/ \E q \in Readers :
       AskTimeline(q) \/ AnswerTimeline(q) \/ \E table \in Tables : ReadTable(q, table)
=============================================================================
