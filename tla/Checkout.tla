------------------------------ MODULE Checkout ------------------------------
(***************************************************************************)
(* The checkout of the storefront and what it reports to the analytics.    *)
(*                                                                         *)
(* The route records that a checkout has started, runs the workflow - cart,*)
(* shipping rate, taxes, payment, order - and records the sale.  No step   *)
(* has a compensation and the order is the workflow's answer: nothing      *)
(* stores it.  The payment and the shipping provider are external, and a   *)
(* deployment has to register them.  The idempotency key is taken to have  *)
(* no effect: a repeated request is a new one.                             *)
(***************************************************************************)
EXTENDS Analytics

CONSTANTS
  Carts,        \* lists of items
  Offers,       \* the amounts of the rates a provider may answer, in halves
  TaxPercent

ASSUME CartAssumption == Carts \subseteq Seq(Item) /\ TaxPercent \in Nat
ASSUME OfferAssumption == Offers \subseteq Seq(Nat)

VARIABLES
  request,   \* the checkouts, named by the order they would make
  charge     \* what the payment provider has of each

vars == <<analyticsVars, request, charge>>

New == [pc |-> "new"]
Status == {"authorized", "captured", "failed"}
Request == {New} \cup
  [pc : {"cart", "rates", "authorize", "capture", "sale", "answered", "failed"},
   tenant : Tenants, cart : Carts, total : Nat, payment : Status \cup {None}, cut : BOOLEAN]

NotCharged == [amount |-> 0, captured |-> FALSE, known |-> FALSE]

Init == /\ AnalyticsInit
        /\ request = [o \in Orders |-> New]
        /\ charge = [o \in Orders |-> NotCharged]

Step(o, q) == request' = [request EXCEPT ![o] = q]
End(o, pc) == request' = [request EXCEPT ![o].pc = pc]

\* The tenant was active when the request came in.
StartCheckout(o) ==
  /\ {"checkout", o} \subseteq workload /\ request[o] = New
  /\ \E t \in active \cap workload, cart \in Carts :
       /\ RecordEvent(t, "checkout_started", None, 0, <<>>)
       /\ Step(o, [pc |-> "cart", tenant |-> t, cart |-> cart, total |-> 0, payment |-> None,
                   cut |-> FALSE])
  /\ UNCHANGED <<jobs, world, charge>>
-----------------------------------------------------------------------------
(* The workflow.                                                           *)

Valid(cart) == Len(cart) > 0 /\ \A n \in 1..Len(cart) : cart[n].quantity > 0
Subtotal(cart) == SumFunction([n \in 1..Len(cart) |-> cart[n].quantity * cart[n].price])

ValidateCart(o) ==
  /\ request[o].pc = "cart"
  /\ End(o, IF Valid(request[o].cart) THEN "rates" ELSE "failed")
  /\ UNCHANGED <<analyticsVars, charge>>

\* Math.round of the tax, which is a whole number.
TaxTotal(taxable) == 2 * ((taxable * TaxPercent + 100) \div 200)
Total(cart, rate) == LET taxable == Subtotal(cart) + rate IN taxable + TaxTotal(taxable)

\* The body names an option, or none (0) and the first rate is taken.
SelectShippingRate(o) ==
  /\ request[o].pc = "rates"
  /\ \E rates \in Offers, option \in 0..2 :
       LET n == IF option = 0 THEN 1 ELSE option IN
       IF n \in 1..Len(rates)
       THEN Step(o, [request[o] EXCEPT !.pc = "authorize", !.total = Total(request[o].cart, rates[n])])
       ELSE End(o, "failed")
  /\ UNCHANGED <<analyticsVars, charge>>

Charged(o) == charge' = [charge EXCEPT ![o] = [amount |-> request[o].total, captured |-> FALSE, known |-> TRUE]]
\* The body says whether to capture.
Paid(o, capture) == [request[o] EXCEPT !.pc = IF capture THEN "capture" ELSE "sale", !.payment = "authorized"]

\* Variant: only a decline is looked for.
Authorized_NotDeclined(status) == status # "declined"
Authorized(status) == status = "authorized"

AuthorizePayment(o) ==
  /\ request[o].pc = "authorize"
  /\ \E status \in {"authorized", "requires_action", "declined"}, capture \in BOOLEAN :
       /\ IF status = "authorized" THEN Charged(o) ELSE UNCHANGED charge
       /\ IF Authorized(status) THEN Step(o, Paid(o, capture)) ELSE End(o, "failed")
  /\ UNCHANGED analyticsVars

\* A capture that fails is part of the answer.
Captured(o, status) == [request[o] EXCEPT !.pc = "sale", !.payment = status]

CapturePayment(o) ==
  /\ request[o].pc = "capture"
  /\ \E status \in {"captured", "failed"} :
       /\ Step(o, Captured(o, status))
       /\ charge' = [charge EXCEPT ![o].captured = (status = "captured")]
  /\ UNCHANGED analyticsVars
-----------------------------------------------------------------------------
(* After the workflow.                                                     *)

\* The order the workflow answers with.
OrderOf(o) == [id |-> o, total |-> request[o].total, payment |-> request[o].payment]

\* Variant: the price is looked for under the name it has in the event.
ItemsOf_Priceless(cart) == [n \in 1..Len(cart) |-> [cart[n] EXCEPT !.price = None]]
\* What the request has of each item, its id as the product.
ItemsOf(cart) == [n \in 1..Len(cart) |->
  [product |-> cart[n].product, quantity |-> cart[n].quantity, price |-> cart[n].price]]

RecordSale(o) ==
  /\ request[o].pc = "sale"
  /\ LET q == request[o]  order == OrderOf(o) IN
     RecordEvent(q.tenant, "checkout_completed", order.id, order.total, ItemsOf(q.cart))
  /\ End(o, "answered")
  /\ UNCHANGED <<jobs, world, charge>>

\* The event's amount is not a whole number: the insert fails.
RefuseSale(o) ==
  /\ request[o].pc = "sale" /\ request[o].total % 2 = 1
  /\ End(o, "failed")
  /\ UNCHANGED <<analyticsVars, charge>>

\* The process stops, or a call fails: also one the provider has done.
CutOff(o) ==
  /\ "failures" \in workload /\ failures < MaxFailures
  /\ request[o].pc \in {"cart", "rates", "authorize", "capture", "sale"}
  /\ Step(o, [request[o] EXCEPT !.pc = "failed", !.cut = TRUE])
  /\ UNCHANGED charge \/ (request[o].pc = "authorize" /\ Charged(o))
  /\ failures' = failures + 1
  /\ UNCHANGED <<tables, jobs, today, active, changes, workload>>

CheckoutNext == \E o \in Orders :
  \/ StartCheckout(o) \/ ValidateCart(o) \/ SelectShippingRate(o) \/ AuthorizePayment(o)
  \/ CapturePayment(o) \/ RecordSale(o) \/ RefuseSale(o) \/ CutOff(o)

Next == (AnalyticsNext /\ UNCHANGED <<request, charge>>) \/ CheckoutNext

\* The schedule starts a job again and again, and an aggregation goes on.
Spec == Init /\ [][Next]_vars /\ \A j \in Jobs : WF_vars(Aggregation(j) /\ UNCHANGED <<request, charge>>)
-----------------------------------------------------------------------------
\* The type invariant: events, transactions, requests and charges are what
\* the code builds.
TypeOK ==
  /\ event \in Seq(Event) /\ pending \subseteq stored /\ stored \subseteq Numbers
  /\ rollup \in [Buckets -> (SUBSET Numbers) \cup {None}] /\ top \in [Buckets -> SUBSET Lines(Numbers)]
  /\ today \in Days /\ active \subseteq Tenants
  /\ job \in [Jobs -> Job] /\ \A j \in Jobs : job[j].pc = "finish" => job[j].lines \subseteq Lines(Numbers)
  /\ counted \subseteq Numbers /\ raced \subseteq Numbers
  /\ request \in [Orders -> Request]
  /\ \A o \in Orders : charge[o].captured => charge[o].known

\* An event that is marked, or gone, has been counted by a rollup that was
\* committed - unless it came while an aggregation had already read its day.
MarkedWereCounted == Numbers \ pending \subseteq counted \cup raced

Ordered(S) == {i \in S : event[i].order # None}

\* As long as the retention has left a day alone, its rollup and its top
\* products agree: whatever the orders of the rollup sold of a product is in
\* that product's row, or the report is full and every row in it sold at
\* least as much.  What a transaction reads for the products is read after
\* it holds the rollup.
OrdersHaveProducts ==
  \A t \in Tenants, d \in Days, limit \in Limits : rollup[<<t, d>>] # None /\ ~Past(d, RawDays) =>
    \A report \in GetTopProducts(t, d, d, limit), sold \in ByProduct(Lines(Ordered(rollup[<<t, d>>]))) :
      \/ \E row \in report : sold \subseteq row
      \/ /\ Cardinality(report) = Least(Clamped(limit), TopLimit)
         /\ \A row \in report : Gmv(sold) <= Gmv(row)

\* The reports miss nothing that was processed, and agree with each other,
\* overlapping jobs or not.
ReportsAreTrue == MarkedWereCounted /\ OrdersHaveProducts

\* A total forgets an event only after the retention has deleted it - when
\* a tenant is back after a month and its day is rolled up from what was
\* still pending - or when the event came during an aggregation.
TotalsKept ==
  [][\A b \in Buckets : rollup[b] # None /\ rollup'[b] # None =>
       rollup[b] \ rollup'[b] \subseteq raced \cup (Numbers \ stored)]_vars

\* What the analytics report as sold has been authorized by the provider,
\* for that amount; and a failed checkout was authorized only if it was cut
\* off or came to an amount the analytics cannot store.
ChargesMatchSales ==
  /\ \A i \in Numbers : LET e == event[i] IN
       e.order # None => charge[e.order].known /\ charge[e.order].amount = e.amount
  /\ \A o \in Orders : request[o].pc = "failed" /\ charge[o].known
       => request[o].cut \/ request[o].total % 2 = 1

\* An item in fractions among the events that are as old stops every run
\* before it gets to younger ones, of whatever tenant - even one that is
\* marked already, because it came during an aggregation.
Blocked(i) == \E n \in stored : Split(n) /\ event[n].tenant \in active /\ event[n].day <= event[i].day

\* Every event of an active tenant is processed, or waits behind a bucket
\* that no run gets through.
EventsAreProcessed ==
  \A i \in 1..MaxEvents :
    (i \in pending) ~> (i \notin pending \/ event[i].tenant \notin active \/ Blocked(i))
=============================================================================
