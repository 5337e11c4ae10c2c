--------------------------- MODULE Checkout_proofs ---------------------------
(***************************************************************************)
(* Sales and charges, and what the rollups count, for any tenants, orders, *)
(* carts, rates, number of events and retention.  Three invariants: one of *)
(* each checkout, one of each bucket an aggregation has read, and one of   *)
(* the products of what it has read, which needs the other two.            *)
(***************************************************************************)
EXTENDS Checkout, FiniteSetTheorems, WellFoundedInduction, TLAPS

Amounts == {0} \cup {Total(cart, rate) : cart \in Carts, rate \in Nat}
Recorded == [tenant : Tenants, day : Nat, kind : Kinds, order : Orders \cup {None},
             amount : Amounts, items : Seq(Item)]

EventTypes == event \in Seq(Recorded) /\ today \in Nat /\ active \subseteq Tenants
-----------------------------------------------------------------------------
(* Checkouts                                                               *)

Underway == [pc : {"cart", "rates", "authorize", "capture", "sale", "answered", "failed"},
             tenant : Tenants, cart : Carts, total : Amounts, payment : Status \cup {None},
             cut : BOOLEAN]
Charge == [amount : Amounts, captured : BOOLEAN, known : BOOLEAN]
CheckoutTypes == /\ request \in [Orders -> Underway \cup {New}]
                 /\ charge \in [Orders -> Charge]

\* What the provider has of a checkout, wherever that is.
Accounted(q, c) ==
  /\ q.pc \in {"new", "cart", "rates", "authorize"} => ~c.known
  /\ q.pc \in {"capture", "sale", "answered"} => c.known /\ c.amount = q.total
  /\ q.pc = "failed" => ~c.known \/ q.cut \/ q.total % 2 = 1

AllAccounted == \A o \in Orders : Accounted(request[o], charge[o])

\* An event of a sale is that of a checkout that has been answered.
SalesAnswered == \A i \in Numbers : event[i].order # None =>
  LET o == event[i].order IN
  o \in Orders /\ request[o].pc = "answered" /\ event[i].amount = request[o].total

SalesInv == EventTypes /\ CheckoutTypes /\ AllAccounted /\ SalesAnswered
-----------------------------------------------------------------------------
(* Rollups                                                                 *)

OfBucket(S, b) == \A i \in S : i \in Numbers /\ Bucket(i) = b

\* An aggregation that has read a bucket knows its events, or they came since.
Read(q) == q.pc \in {"upsert", "products", "finish"} =>
  OfBucket(q.seen, q.bucket) /\ InBucket(q.bucket) \subseteq q.seen \cup raced

TableTypes == /\ pending \subseteq stored /\ stored \subseteq Numbers
              /\ rollup = [b \in Buckets |-> rollup[b]]
              /\ job = [j \in Jobs |-> job[j]]

RollupsInv == /\ TableTypes
              /\ MarkedWereCounted
              /\ \A j \in Jobs : Read(job[j])
              /\ \A b \in Buckets : rollup[b] # None => OfBucket(rollup[b], b)
-----------------------------------------------------------------------------
\* What an event that is recorded adds.
LEMMA Recording ==
  ASSUME EventTypes, NEW t \in Tenants, NEW kind \in Kinds, NEW order \in Orders \cup {None},
         NEW amount \in Amounts, NEW items \in Seq(Item),
         RecordEvent(t, kind, order, amount, items)
  PROVE  /\ event' \in Seq(Recorded) /\ Len(event') = Len(event) + 1
         /\ Numbers' = Numbers \cup {Len(event) + 1} /\ Len(event) + 1 \notin Numbers
         /\ \A i \in Numbers : event'[i] = event[i]
         /\ LET e == event'[Len(event) + 1] IN
            e.order = order /\ e.amount = amount /\ e.tenant = t /\ e.day = today
<1> DEFINE e == [tenant |-> t, day |-> today, kind |-> kind, order |-> order,
                 amount |-> amount, items |-> items]
<1>1. e \in Recorded /\ e.order = order /\ e.amount = amount /\ e.tenant = t /\ e.day = today
  BY DEF Recorded, EventTypes
<1>2. event' = Append(event, e) /\ event \in Seq(Recorded)
  BY DEF RecordEvent, EventTypes
<1> HIDE DEF e
<1>3. Len(event) \in Nat /\ event' \in Seq(Recorded) /\ Len(event') = Len(event) + 1
      /\ event'[Len(event) + 1] = e
      /\ \A i \in 1..Len(event) : event'[i] = event[i]
  BY <1>1, <1>2
<1>4. Numbers' = 1..(Len(event) + 1) /\ Numbers = 1..Len(event)
  BY <1>3 DEF Numbers
<1>5. Numbers' = Numbers \cup {Len(event) + 1} /\ Len(event) + 1 \notin Numbers
  BY <1>3, <1>4
<1> QED  BY <1>1, <1>3, <1>4, <1>5

\* The amounts a checkout or another event comes with are amounts.
LEMMA ZeroAmount == 0 \in Amounts /\ <<>> \in Seq(Item)
BY DEF Amounts

\* What the route makes of a cart are items.
LEMMA CartItems == ASSUME NEW cart \in Carts PROVE ItemsOf(cart) \in Seq(Item)
<1>1. cart \in Seq(Item)
  BY CartAssumption
<1>2. Len(cart) \in Nat /\ \A n \in 1..Len(cart) : cart[n] \in Item
  BY <1>1
<1>3. \A e \in Item : [product |-> e.product, quantity |-> e.quantity, price |-> e.price] \in Item
  BY DEF Item
<1> QED  BY <1>2, <1>3 DEF ItemsOf

\* The types of the events and of the checkouts, step by step.
LEMMA StartTypes ==
  ASSUME EventTypes, NEW o \in Orders, StartCheckout(o)
  PROVE  \E t \in Tenants, cart \in Carts :
           /\ RecordEvent(t, "checkout_started", None, 0, <<>>)
           /\ request' = [request EXCEPT ![o] = [pc |-> "cart", tenant |-> t, cart |-> cart,
                                                 total |-> 0, payment |-> None, cut |-> FALSE]]
           /\ request[o] = New /\ charge' = charge
           /\ job' = job /\ today' = today /\ active' = active
BY DEF StartCheckout, Step, EventTypes, jobs, world

LEMMA InitTypes == Init => EventTypes /\ CheckoutTypes
<1> SUFFICES ASSUME Init PROVE EventTypes /\ CheckoutTypes
  OBVIOUS
<1>1. EventTypes
  BY DEF Init, AnalyticsInit, EventTypes
<1>2. NotCharged \in Charge
  BY ZeroAmount DEF NotCharged, Charge
<1> HIDE DEF NotCharged
<1>3. CheckoutTypes
  BY <1>2 DEF Init, CheckoutTypes
<1> QED  BY <1>1, <1>3
-----------------------------------------------------------------------------
(* What a checkout and its charge come to.                                 *)

\* One checkout moves and no event is recorded.
LEMMA OneCheckout ==
  ASSUME SalesInv, NEW o \in Orders, NEW q \in Underway, NEW c \in Charge,
         Accounted(q, c), request[o].pc # "answered",
         event' = event, today' = today, active' = active,
         request' = [request EXCEPT ![o] = q], charge' = [charge EXCEPT ![o] = c]
  PROVE  SalesInv'
<1>1. /\ CheckoutTypes' /\ request'[o] = q /\ charge'[o] = c
      /\ \A x \in Orders \ {o} : request'[x] = request[x] /\ charge'[x] = charge[x]
  BY DEF SalesInv, CheckoutTypes, Charge
<1>2. AllAccounted'
  BY <1>1 DEF SalesInv, AllAccounted
<1>3. SalesAnswered'
  BY <1>1 DEF SalesInv, SalesAnswered, Numbers
<1> QED  BY <1>1, <1>2, <1>3 DEF SalesInv, EventTypes

LEMMA Typed ==
  ASSUME CheckoutTypes, NEW o \in Orders, request[o].pc # "new"
  PROVE  request[o] \in Underway /\ charge[o] \in Charge
BY DEF CheckoutTypes, Charge, New

LEMMA ValidateCartInv == ASSUME SalesInv, NEW o \in Orders, ValidateCart(o) PROVE SalesInv'
<1> DEFINE q == [request[o] EXCEPT !.pc = IF Valid(request[o].cart) THEN "rates" ELSE "failed"]
<1>1. request[o].pc = "cart" /\ request' = [request EXCEPT ![o] = q] /\ charge' = charge
      /\ event' = event /\ today' = today /\ active' = active
  BY DEF ValidateCart, End, analyticsVars, tables, world, SalesInv, CheckoutTypes
<1>2. request[o] \in Underway /\ charge[o] \in Charge
  BY <1>1, Typed DEF SalesInv
<1>3. q \in Underway /\ q.pc \in {"rates", "failed"}
  BY <1>2 DEF Underway
<1>4. Accounted(q, charge[o])
  BY <1>1, <1>3 DEF SalesInv, AllAccounted, Accounted
<1>5. charge' = [charge EXCEPT ![o] = charge[o]]
  BY <1>1 DEF SalesInv, CheckoutTypes
<1> QED  BY <1>1, <1>2, <1>3, <1>4, <1>5, OneCheckout

LEMMA SelectShippingRateInv == ASSUME SalesInv, NEW o \in Orders, SelectShippingRate(o) PROVE SalesInv'
<1>1. request[o].pc = "rates" /\ charge' = charge
      /\ event' = event /\ today' = today /\ active' = active
  BY DEF SelectShippingRate, analyticsVars, tables, world
<1>2. request[o] \in Underway /\ charge[o] \in Charge
  BY <1>1, Typed DEF SalesInv
<1>3. \E total \in Amounts :
        \/ request' = [request EXCEPT ![o] = [request[o] EXCEPT !.pc = "authorize", !.total = total]]
        \/ request' = [request EXCEPT ![o].pc = "failed"]
  <2>1. PICK rates \in Offers, option \in 0..2 :
          LET n == IF option = 0 THEN 1 ELSE option IN
          IF n \in 1..Len(rates)
          THEN Step(o, [request[o] EXCEPT !.pc = "authorize", !.total = Total(request[o].cart, rates[n])])
          ELSE End(o, "failed")
    BY DEF SelectShippingRate
  <2> DEFINE n == IF option = 0 THEN 1 ELSE option
  <2>2. CASE n \in 1..Len(rates)
    <3>1. rates[n] \in Nat
      BY <2>2, OfferAssumption
    <3>2. Total(request[o].cart, rates[n]) \in Amounts
      BY <1>2, <3>1 DEF Amounts, Underway
    <3> QED  BY <2>1, <2>2, <3>2 DEF Step
  <2>3. CASE n \notin 1..Len(rates)
    BY <2>1, <2>3, ZeroAmount DEF End
  <2> QED  BY <2>2, <2>3
<1>4. PICK total \in Amounts :
        \/ request' = [request EXCEPT ![o] = [request[o] EXCEPT !.pc = "authorize", !.total = total]]
        \/ request' = [request EXCEPT ![o].pc = "failed"]
  BY <1>3
<1>5. charge' = [charge EXCEPT ![o] = charge[o]]
  BY <1>1 DEF SalesInv, CheckoutTypes
<1>6. ~charge[o].known
  BY <1>1 DEF SalesInv, AllAccounted, Accounted
<1>7. ASSUME NEW q \in Underway, q.pc \in {"authorize", "failed"}, request' = [request EXCEPT ![o] = q]
      PROVE  SalesInv'
  <2>1. Accounted(q, charge[o])
    BY <1>6, <1>7 DEF Accounted
  <2> QED  BY <1>1, <1>2, <1>5, <1>7, <2>1, OneCheckout
<1>8. CASE request' = [request EXCEPT ![o] = [request[o] EXCEPT !.pc = "authorize", !.total = total]]
  <2> DEFINE q == [request[o] EXCEPT !.pc = "authorize", !.total = total]
  <2>1. q \in Underway /\ q.pc = "authorize"
    BY <1>2 DEF Underway
  <2> HIDE DEF q
  <2> QED  BY <1>7, <1>8, <2>1 DEF q
<1>9. CASE request' = [request EXCEPT ![o].pc = "failed"]
  <2> DEFINE q == [request[o] EXCEPT !.pc = "failed"]
  <2>1. q \in Underway /\ q.pc = "failed"
    BY <1>2 DEF Underway
  <2>2. request' = [request EXCEPT ![o] = q]
    BY <1>9 DEF SalesInv, CheckoutTypes
  <2> HIDE DEF q
  <2> QED  BY <1>7, <2>1, <2>2
<1> QED  BY <1>4, <1>8, <1>9

LEMMA AuthorizePaymentInv == ASSUME SalesInv, NEW o \in Orders, AuthorizePayment(o) PROVE SalesInv'
<1>1. request[o].pc = "authorize" /\ event' = event /\ today' = today /\ active' = active
  BY DEF AuthorizePayment, analyticsVars, tables, world
<1>2. request[o] \in Underway /\ charge[o] \in Charge
  BY <1>1, Typed DEF SalesInv
<1>3. ~charge[o].known
  BY <1>1 DEF SalesInv, AllAccounted, Accounted
<1>4. PICK status \in {"authorized", "requires_action", "declined"}, capture \in BOOLEAN :
        /\ IF status = "authorized" THEN Charged(o) ELSE UNCHANGED charge
        /\ IF Authorized(status) THEN Step(o, Paid(o, capture)) ELSE End(o, "failed")
  BY DEF AuthorizePayment
<1>5. CASE status = "authorized"
  <2> DEFINE q == Paid(o, capture)
             c == [amount |-> request[o].total, captured |-> FALSE, known |-> TRUE]
  <2>1. charge' = [charge EXCEPT ![o] = c] /\ request' = [request EXCEPT ![o] = q]
    BY <1>4, <1>5 DEF Charged, Step, Authorized
  <2>2. q \in Underway /\ q.pc \in {"capture", "sale"} /\ q.total = request[o].total
    BY <1>2 DEF Paid, Underway, Status
  <2>3. c \in Charge /\ c.known /\ c.amount = request[o].total
    BY <1>2 DEF Charge, Underway
  <2> HIDE DEF q, c
  <2>4. Accounted(q, c)
    BY <2>2, <2>3 DEF Accounted
  <2> QED  BY <1>1, <2>1, <2>2, <2>3, <2>4, OneCheckout
<1>6. CASE status # "authorized"
  <2> DEFINE q == [request[o] EXCEPT !.pc = "failed"]
  <2>1. charge' = charge /\ request' = [request EXCEPT ![o].pc = "failed"]
    BY <1>4, <1>6 DEF Authorized, End
  <2>2. charge' = [charge EXCEPT ![o] = charge[o]] /\ request' = [request EXCEPT ![o] = q]
    BY <2>1 DEF SalesInv, CheckoutTypes
  <2>3. q \in Underway /\ q.pc = "failed"
    BY <1>2 DEF Underway
  <2> HIDE DEF q
  <2>4. Accounted(q, charge[o])
    BY <1>3, <2>3 DEF Accounted
  <2> QED  BY <1>1, <1>2, <2>2, <2>3, <2>4, OneCheckout
<1> QED  BY <1>5, <1>6

LEMMA CapturePaymentInv == ASSUME SalesInv, NEW o \in Orders, CapturePayment(o) PROVE SalesInv'
<1>1. request[o].pc = "capture" /\ event' = event /\ today' = today /\ active' = active
  BY DEF CapturePayment, analyticsVars, tables, world
<1>2. request[o] \in Underway /\ charge[o] \in Charge
  BY <1>1, Typed DEF SalesInv
<1>3. charge[o].known /\ charge[o].amount = request[o].total
  BY <1>1 DEF SalesInv, AllAccounted, Accounted
<1>4. PICK status \in {"captured", "failed"} :
        /\ Step(o, Captured(o, status))
        /\ charge' = [charge EXCEPT ![o].captured = (status = "captured")]
  BY DEF CapturePayment
<1> DEFINE q == Captured(o, status)
           c == [charge[o] EXCEPT !.captured = (status = "captured")]
<1>5. request' = [request EXCEPT ![o] = q]
  BY <1>4 DEF Step
<1>6. charge' = [charge EXCEPT ![o] = c]
  BY <1>4 DEF SalesInv, CheckoutTypes
<1>7. q \in Underway /\ q.pc = "sale" /\ q.total = request[o].total
  BY <1>2 DEF Captured, Underway, Status
<1>8. (status = "captured") \in BOOLEAN
  OBVIOUS
<1>9. c \in Charge /\ c.known = charge[o].known /\ c.amount = charge[o].amount
  BY <1>2, <1>8 DEF Charge
<1> HIDE DEF q, c
<1>10. Accounted(q, c)
  BY <1>3, <1>7, <1>9 DEF Accounted
<1> QED  BY <1>1, <1>5, <1>6, <1>7, <1>9, <1>10, OneCheckout

LEMMA RefuseSaleInv == ASSUME SalesInv, NEW o \in Orders, RefuseSale(o) PROVE SalesInv'
<1> DEFINE q == [request[o] EXCEPT !.pc = "failed"]
<1>1. request[o].pc = "sale" /\ request[o].total % 2 = 1 /\ request' = [request EXCEPT ![o].pc = "failed"]
      /\ charge' = charge /\ event' = event /\ today' = today /\ active' = active
  BY DEF RefuseSale, End, analyticsVars, tables, world
<1>2. request[o] \in Underway /\ charge[o] \in Charge
  BY <1>1, Typed DEF SalesInv
<1>3. q \in Underway /\ q.pc = "failed" /\ q.total = request[o].total
  BY <1>2 DEF Underway
<1>4. charge' = [charge EXCEPT ![o] = charge[o]] /\ request' = [request EXCEPT ![o] = q]
  BY <1>1 DEF SalesInv, CheckoutTypes
<1> HIDE DEF q
<1>5. Accounted(q, charge[o])
  BY <1>1, <1>3 DEF Accounted
<1> QED  BY <1>1, <1>2, <1>3, <1>4, <1>5, OneCheckout

LEMMA CutOffInv == ASSUME SalesInv, NEW o \in Orders, CutOff(o) PROVE SalesInv'
<1> DEFINE q == [request[o] EXCEPT !.pc = "failed", !.cut = TRUE]
<1>1. request[o].pc \in {"cart", "rates", "authorize", "capture", "sale"}
      /\ request' = [request EXCEPT ![o] = q]
      /\ event' = event /\ today' = today /\ active' = active
  BY DEF CutOff, Step, tables
<1>2. request[o] \in Underway /\ charge[o] \in Charge
  BY <1>1, Typed DEF SalesInv
<1>3. q \in Underway /\ q.pc = "failed" /\ q.cut
  BY <1>2 DEF Underway
<1>4. \E c \in Charge : charge' = [charge EXCEPT ![o] = c]
  <2>1. CASE charge' = charge
    <3>1. charge' = [charge EXCEPT ![o] = charge[o]]
      BY <2>1 DEF SalesInv, CheckoutTypes
    <3> QED  BY <1>2, <3>1
  <2>2. CASE Charged(o)
    <3> DEFINE c == [amount |-> request[o].total, captured |-> FALSE, known |-> TRUE]
    <3>1. c \in Charge
      BY <1>2 DEF Charge, Underway
    <3>2. charge' = [charge EXCEPT ![o] = c]
      BY <2>2 DEF Charged
    <3> QED  BY <3>1, <3>2
  <2> QED  BY <2>1, <2>2 DEF CutOff
<1> HIDE DEF q
<1>5. PICK c \in Charge : charge' = [charge EXCEPT ![o] = c]
  BY <1>4
<1>6. Accounted(q, c)
  BY <1>3 DEF Accounted
<1> QED  BY <1>1, <1>3, <1>5, <1>6, OneCheckout

\* An event of no sale leaves what has been sold as it is.
LEMMA OtherEvent ==
  ASSUME SalesInv, NEW t \in Tenants, NEW kind \in Kinds, NEW items \in Seq(Item),
         RecordEvent(t, kind, None, 0, items)
  PROVE  event' \in Seq(Recorded)
         /\ \A i \in Numbers' : event'[i].order # None => i \in Numbers /\ event'[i] = event[i]
<1>1. 0 \in Amounts /\ EventTypes /\ None \in Orders \cup {None}
  BY ZeroAmount DEF SalesInv
<1>2. /\ event' \in Seq(Recorded)
      /\ Numbers' = Numbers \cup {Len(event) + 1}
      /\ \A i \in Numbers : event'[i] = event[i]
      /\ event'[Len(event) + 1].order = None
  BY <1>1, Recording
<1> QED  BY <1>2

LEMMA StartCheckoutInv == ASSUME SalesInv, NEW o \in Orders, StartCheckout(o) PROVE SalesInv'
<1>1. PICK t \in Tenants, cart \in Carts :
           /\ RecordEvent(t, "checkout_started", None, 0, <<>>)
           /\ request' = [request EXCEPT ![o] = [pc |-> "cart", tenant |-> t, cart |-> cart,
                                                 total |-> 0, payment |-> None, cut |-> FALSE]]
           /\ request[o] = New /\ charge' = charge
           /\ job' = job /\ today' = today /\ active' = active
  BY StartTypes DEF SalesInv
<1> DEFINE q == [pc |-> "cart", tenant |-> t, cart |-> cart, total |-> 0, payment |-> None, cut |-> FALSE]
<1>2. event' \in Seq(Recorded)
      /\ \A i \in Numbers' : event'[i].order # None => i \in Numbers /\ event'[i] = event[i]
  BY <1>1, ZeroAmount, OtherEvent DEF Kinds
<1>3. q \in Underway /\ q.pc = "cart"
  BY ZeroAmount DEF Underway
<1>4. request' = [request EXCEPT ![o] = q]
  BY <1>1
<1>5. request[o].pc = "new"
  BY <1>1 DEF New
<1> HIDE DEF q
<1>6. CheckoutTypes' /\ request'[o] = q /\ \A x \in Orders \ {o} : request'[x] = request[x]
  BY <1>1, <1>3, <1>4 DEF SalesInv, CheckoutTypes
<1>7. AllAccounted'
  <2>1. Accounted(q, charge[o])
    BY <1>3, <1>5 DEF SalesInv, AllAccounted, Accounted
  <2> QED  BY <1>1, <1>6, <2>1 DEF SalesInv, AllAccounted
<1>8. SalesAnswered'
  BY <1>2, <1>5, <1>6 DEF SalesInv, SalesAnswered
<1> QED  BY <1>1, <1>2, <1>6, <1>7, <1>8 DEF SalesInv, EventTypes

LEMMA RecordSaleInv == ASSUME SalesInv, NEW o \in Orders, RecordSale(o) PROVE SalesInv'
<1> DEFINE p == request[o]
           q == [request[o] EXCEPT !.pc = "answered"]
<1>1. p.pc = "sale" /\ request' = [request EXCEPT ![o].pc = "answered"] /\ charge' = charge
      /\ today' = today /\ active' = active
      /\ RecordEvent(p.tenant, "checkout_completed", o, p.total, ItemsOf(p.cart))
  BY DEF RecordSale, End, OrderOf, world, jobs
<1>2. p \in Underway /\ charge[o] \in Charge
  BY <1>1, Typed DEF SalesInv
<1>3. q \in Underway /\ q.pc = "answered" /\ q.total = p.total
  BY <1>2 DEF Underway
<1>4. p.tenant \in Tenants /\ p.total \in Amounts /\ ItemsOf(p.cart) \in Seq(Item)
  BY <1>2, CartItems DEF Underway
<1>5. request' = [request EXCEPT ![o] = q]
  BY <1>1 DEF SalesInv, CheckoutTypes
<1> HIDE DEF p, q
<1>6. "checkout_completed" \in Kinds /\ o \in Orders \cup {None} /\ EventTypes
  BY DEF Kinds, SalesInv
<1>7. /\ event' \in Seq(Recorded)
      /\ Numbers' = Numbers \cup {Len(event) + 1} /\ Len(event) + 1 \notin Numbers
      /\ \A i \in Numbers : event'[i] = event[i]
      /\ event'[Len(event) + 1].order = o /\ event'[Len(event) + 1].amount = p.total
  BY <1>1, <1>4, <1>6, Recording
<1>8. CheckoutTypes' /\ request'[o] = q /\ \A x \in Orders \ {o} : request'[x] = request[x]
  BY <1>1, <1>3, <1>5 DEF SalesInv, CheckoutTypes
<1>9. AllAccounted'
  <2>1. Accounted(q, charge[o])
    BY <1>1, <1>3 DEF SalesInv, AllAccounted, Accounted, p
  <2> QED  BY <1>1, <1>8, <2>1 DEF SalesInv, AllAccounted
<1>10. SalesAnswered'
  <2> SUFFICES ASSUME NEW i \in Numbers', event'[i].order # None
               PROVE  LET x == event'[i].order IN
                      x \in Orders /\ request'[x].pc = "answered" /\ event'[i].amount = request'[x].total
    BY DEF SalesAnswered
  <2>1. CASE i = Len(event) + 1
    BY <1>3, <1>7, <1>8, <2>1
  <2>2. CASE i \in Numbers
    <3> DEFINE x == event[i].order
    <3>1. event'[i] = event[i]
      BY <1>7, <2>2
    <3>2. x \in Orders /\ request[x].pc = "answered" /\ event[i].amount = request[x].total
      BY <2>2, <3>1 DEF SalesInv, SalesAnswered
    <3>3. x # o
      BY <1>1, <3>2 DEF p
    <3> QED  BY <1>8, <3>1, <3>2, <3>3
  <2> QED  BY <1>7, <2>1, <2>2
<1> QED  BY <1>1, <1>7, <1>8, <1>9, <1>10 DEF SalesInv, EventTypes

\* Nothing is recorded or checked out: at most the day or a status changes.
LEMMA Elsewhere ==
  ASSUME SalesInv, event' = event, request' = request, charge' = charge,
         today' \in Nat, active' \subseteq Tenants
  PROVE  SalesInv'
BY DEF SalesInv, EventTypes, CheckoutTypes, AllAccounted, SalesAnswered, Numbers

LEMMA AnalyticsSales ==
  ASSUME SalesInv, AnalyticsNext, UNCHANGED <<request, charge>>
  PROVE  SalesInv'
<1>1. ASSUME NEW t \in Tenants, StorefrontEvent(t) \/ SetupEvent(t) PROVE SalesInv'
  <2>1. today' = today /\ active' = active
    BY <1>1 DEF StorefrontEvent, SetupEvent, world
  <2>2. \E kind \in Kinds : RecordEvent(t, kind, None, 0, <<>>)
    BY <1>1, FrontAssumption DEF StorefrontEvent, SetupEvent, Kinds
  <2>3. event' \in Seq(Recorded)
        /\ \A i \in Numbers' : event'[i].order # None => i \in Numbers /\ event'[i] = event[i]
    BY <2>2, ZeroAmount, OtherEvent
  <2>4. EventTypes'
    BY <2>1, <2>3 DEF SalesInv, EventTypes
  <2>5. SalesAnswered'
    BY <2>3 DEF SalesInv, SalesAnswered
  <2> QED  BY <2>4, <2>5 DEF SalesInv, CheckoutTypes, AllAccounted
<1>2. ASSUME NEW t \in Tenants, ChangeStatus(t) PROVE SalesInv'
  <2>1. event' = event /\ today' = today /\ active' \subseteq Tenants
    BY <1>2 DEF ChangeStatus, tables, SalesInv, EventTypes
  <2> QED  BY <2>1, Elsewhere DEF SalesInv, EventTypes
<1>3. CASE NextDay
  <2>1. event' = event /\ today' = today + 1 /\ active' = active
    BY <1>3 DEF NextDay, tables
  <2> QED  BY <2>1, Elsewhere DEF SalesInv, EventTypes
<1>4. CASE \/ \E j \in Jobs : Aggregation(j) \/ AbortJob(j)
           \/ EnforceRetentionPolicies \/ DeleteEvents \/ DeleteRollups \/ DeleteTopProducts
  <2>1. event' = event /\ today' = today /\ active' = active
    BY <1>4 DEF Aggregation, AggregatePendingEvents, SelectRollup, UpsertRollup, SelectProducts,
                FinishBucket, AbortJob, EnforceRetentionPolicies, DeleteEvents, DeleteRollups,
                DeleteTopProducts, tables, world
  <2> QED  BY <2>1, Elsewhere DEF SalesInv, EventTypes
<1> QED  BY <1>1, <1>2, <1>3, <1>4 DEF AnalyticsNext

LEMMA SalesStep == ASSUME SalesInv, [Next]_vars PROVE SalesInv'
<1>1. CASE AnalyticsNext /\ UNCHANGED <<request, charge>>
  BY <1>1, AnalyticsSales
<1>2. CASE CheckoutNext
  BY <1>2, ValidateCartInv, SelectShippingRateInv, AuthorizePaymentInv, CapturePaymentInv,
     RefuseSaleInv, CutOffInv, StartCheckoutInv, RecordSaleInv DEF CheckoutNext
<1>3. CASE UNCHANGED vars
  <2>1. event' = event /\ request' = request /\ charge' = charge /\ today' = today /\ active' = active
    BY <1>3 DEF vars, analyticsVars, tables, world
  <2> QED  BY <2>1, Elsewhere DEF SalesInv, EventTypes
<1> QED  BY <1>1, <1>2, <1>3 DEF Next

LEMMA SalesInit == Init => SalesInv
<1> SUFFICES ASSUME Init PROVE SalesInv
  OBVIOUS
<1>1. EventTypes /\ CheckoutTypes
  BY InitTypes
<1>2. \A o \in Orders : request[o] = New /\ charge[o] = NotCharged
  BY DEF Init
<1>3. New.pc = "new" /\ ~NotCharged.known
  BY DEF New, NotCharged
<1> HIDE DEF New, NotCharged
<1>4. AllAccounted
  BY <1>2, <1>3 DEF AllAccounted, Accounted
<1>5. SalesAnswered
  <2>1. Len(event) = 0
    BY DEF Init, AnalyticsInit
  <2> QED  BY <2>1 DEF SalesAnswered, Numbers
<1> QED  BY <1>1, <1>4, <1>5 DEF SalesInv

\* What the analytics report as sold was authorized, for that amount; and a
\* checkout that failed was authorized only when it was cut off or came to
\* an amount no event can store.
THEOREM SalesAreCharged == Spec => []ChargesMatchSales
<1>1. SalesInv => ChargesMatchSales
  BY DEF SalesInv, AllAccounted, SalesAnswered, Accounted, ChargesMatchSales
<1> QED  BY <1>1, SalesInit, SalesStep, PTL DEF Spec
-----------------------------------------------------------------------------
(* What the rollups count.                                                 *)

\* An event comes: it is pending, and raced where its day has been read.
LEMMA RecordRollups ==
  ASSUME SalesInv, RollupsInv, NEW t \in Tenants, NEW kind \in Kinds,
         NEW order \in Orders \cup {None}, NEW amount \in Amounts,
         NEW items \in Seq(Item),
         RecordEvent(t, kind, order, amount, items), job' = job
  PROVE  RollupsInv'
<1> DEFINE n == Len(event) + 1
<1>1. EventTypes
  BY DEF SalesInv
<1>2. /\ Numbers' = Numbers \cup {n} /\ n \notin Numbers
      /\ \A i \in Numbers : event'[i] = event[i]
      /\ event'[n].tenant = t /\ event'[n].day = today
  BY <1>1, Recording
<1>3. /\ stored' = stored \cup {n} /\ pending' = pending \cup {n}
      /\ rollup' = rollup /\ counted' = counted
      /\ raced' = IF \E j \in Jobs : Reading(j, <<t, today>>) THEN raced \cup {n} ELSE raced
  BY DEF RecordEvent
<1> HIDE DEF n
<1>4. \A i \in Numbers : (Bucket(i))' = Bucket(i)
  BY <1>2 DEF Bucket
<1>5. ASSUME NEW i, i = n PROVE (Bucket(i))' = <<t, today>>
  BY <1>2, <1>5 DEF Bucket
<1>6. TableTypes'
  BY <1>2, <1>3 DEF RollupsInv, TableTypes
<1>7. MarkedWereCounted'
  BY <1>2, <1>3 DEF RollupsInv, MarkedWereCounted
<1>8. ASSUME NEW j \in Jobs PROVE (Read(job[j]))'
  <2> DEFINE q == job[j]
  <2> SUFFICES ASSUME q.pc \in {"upsert", "products", "finish"}
               PROVE  OfBucket(q.seen, q.bucket)' /\ InBucket(q.bucket)' \subseteq q.seen \cup raced'
    BY DEF Read
  <2>1. OfBucket(q.seen, q.bucket) /\ InBucket(q.bucket) \subseteq q.seen \cup raced
    BY DEF RollupsInv, Read
  <2>2. OfBucket(q.seen, q.bucket)'
    BY <1>2, <1>4, <2>1 DEF OfBucket
  <2>3. ASSUME NEW i \in stored', (Bucket(i))' = q.bucket PROVE i \in q.seen \cup raced'
    <3>1. CASE i = n
      BY <1>3, <1>5, <2>3, <3>1 DEF Reading
    <3>2. CASE i \in stored
      <4>1. Bucket(i) = q.bucket
        BY <1>4, <2>3, <3>2 DEF RollupsInv, TableTypes
      <4> QED  BY <1>3, <2>1, <3>2, <4>1 DEF InBucket
    <3> QED  BY <1>3, <3>1, <3>2
  <2> QED  BY <2>2, <2>3 DEF InBucket
<1>9. ASSUME NEW b \in Buckets, rollup'[b] # None PROVE OfBucket(rollup[b], b)'
  BY <1>2, <1>3, <1>4, <1>9 DEF RollupsInv, OfBucket
<1> QED  BY <1>3, <1>6, <1>7, <1>8, <1>9 DEF RollupsInv

\* Neither events nor marks change: what aggregations have read stays true.
LEMMA SameEvents ==
  ASSUME RollupsInv, event' = event, stored' = stored, pending' = pending,
         counted' = counted, raced' = raced, rollup' = rollup,
         job' = [j \in Jobs |-> job'[j]],
         \A j \in Jobs : job'[j] = job[j] \/ Read(job'[j])
  PROVE  RollupsInv'
<1>1. \A x \in 1..Len(event) : (Bucket(x))' = Bucket(x)
  BY DEF Bucket
<1>2. \A j \in Jobs : Read(job'[j])
  BY DEF RollupsInv
<1>3. \A j \in Jobs : (Read(job[j]))'
  BY <1>2 DEF Read, OfBucket, InBucket, Bucket, Numbers
<1>4. \A b \in Buckets : rollup'[b] # None => OfBucket(rollup[b], b)'
  BY DEF RollupsInv, OfBucket, Bucket, Numbers
<1> QED  BY <1>3, <1>4 DEF RollupsInv, TableTypes, MarkedWereCounted, Numbers

\* A transaction that begins, goes on with its bucket or ends.
LEMMA AggregationInv ==
  ASSUME RollupsInv, NEW j \in Jobs,
         \/ AggregatePendingEvents(j) \/ SelectRollup(j) \/ UpsertRollup(j)
         \/ SelectProducts(j) \/ AbortJob(j)
  PROVE  RollupsInv'
<1>1. /\ event' = event /\ stored' = stored /\ pending' = pending /\ counted' = counted
      /\ raced' = raced /\ rollup' = rollup
  BY DEF AggregatePendingEvents, SelectRollup, UpsertRollup, SelectProducts, AbortJob, tables
<1>2. \E q : job' = [job EXCEPT ![j] = q] /\ Read(q)
  <2>0. Read(Idle)
    BY DEF Idle, Read
  <2>1. CASE AggregatePendingEvents(j)
    <3>1. PICK todo \in Oldest(PendingBuckets) : PutJob(j, [pc |-> "select", todo |-> todo])
      BY <2>1 DEF AggregatePendingEvents
    <3> DEFINE q == [pc |-> "select", todo |-> todo]
    <3>2. q.pc = "select"
      OBVIOUS
    <3>3. job' = [job EXCEPT ![j] = q]
      BY <3>1 DEF PutJob
    <3> HIDE DEF q
    <3>4. Read(q)
      BY <3>2 DEF Read
    <3> QED  BY <3>3, <3>4
  <2>2. CASE SelectRollup(j)
    <3>1. PICK b \in job[j].todo :
            PutJob(j, [pc |-> "upsert", todo |-> job[j].todo \ {b}, bucket |-> b,
                       seen |-> Rolled(b), lines |-> {}])
      BY <2>2 DEF SelectRollup
    <3> DEFINE q == [pc |-> "upsert", todo |-> job[j].todo \ {b}, bucket |-> b,
                     seen |-> Rolled(b), lines |-> {}]
    <3>2. Read(q)
      BY DEF Read, OfBucket, Rolled, InBucket, RollupsInv, TableTypes
    <3> QED  BY <3>1, <3>2 DEF PutJob
  <2>3. CASE UpsertRollup(j)
    <3> DEFINE q == [job[j] EXCEPT !.pc = "products"]
    <3>1. job[j].pc = "upsert" /\ job' = [job EXCEPT ![j].pc = "products"]
      BY <2>3 DEF UpsertRollup
    <3>2. job' = [job EXCEPT ![j] = q]
      BY <3>1
    <3>3. q.seen = job[j].seen /\ q.bucket = job[j].bucket
      OBVIOUS
    <3>4. Read(q)
      BY <3>1, <3>3 DEF RollupsInv, Read
    <3> QED  BY <3>2, <3>4
  <2>4. CASE SelectProducts(j)
    <3>1. PICK lines : \/ job' = [job EXCEPT ![j].pc = "finish", ![j].lines = lines]
                       \/ job' = [job EXCEPT ![j] = Idle]
      BY <2>4 DEF SelectProducts, PutJob
    <3>2. job[j].pc = "products"
      BY <2>4 DEF SelectProducts
    <3> DEFINE q == [job[j] EXCEPT !.pc = "finish", !.lines = lines]
    <3>3. CASE job' = [job EXCEPT ![j].pc = "finish", ![j].lines = lines]
      <4>1. job' = [job EXCEPT ![j] = q]
        BY <3>3 DEF RollupsInv, TableTypes
      <4>2. q.seen = job[j].seen /\ q.bucket = job[j].bucket
        OBVIOUS
      <4>3. Read(q)
        BY <3>2, <4>2 DEF RollupsInv, Read
      <4> QED  BY <4>1, <4>3
    <3>4. CASE job' = [job EXCEPT ![j] = Idle]
      BY <2>0, <3>4
    <3> QED  BY <3>1, <3>3, <3>4
  <2>5. CASE AbortJob(j)
    BY <2>0, <2>5 DEF AbortJob, PutJob
  <2> QED  BY <2>1, <2>2, <2>3, <2>4, <2>5
<1>3. PICK q : job' = [job EXCEPT ![j] = q] /\ Read(q)
  BY <1>2
<1>4. job' = [k \in Jobs |-> job'[k]] /\ job'[j] = q /\ \A k \in Jobs \ {j} : job'[k] = job[k]
  BY <1>3 DEF RollupsInv, TableTypes
<1>5. \A k \in Jobs : job'[k] = job[k] \/ Read(job'[k])
  BY <1>3, <1>4
<1> QED  BY <1>1, <1>4, <1>5, SameEvents

\* What is marked when a transaction commits it has read, or it raced.
LEMMA FinishBucketInv ==
  ASSUME RollupsInv, NEW j \in Jobs, FinishBucket(j)
  PROVE  /\ RollupsInv'
         /\ \A b \in Buckets : rollup[b] # None /\ rollup'[b] # None =>
              rollup[b] \ rollup'[b] \subseteq raced \cup (Numbers \ stored)
<1> DEFINE b == job[j].bucket
           seen == job[j].seen
           q == Continued(job[j].todo)
<1>1. /\ job[j].pc = "finish" /\ rollup' = [rollup EXCEPT ![b] = seen]
      /\ pending' = pending \ Marked(b) /\ counted' = counted \cup seen
      /\ job' = [job EXCEPT ![j] = q]
      /\ event' = event /\ stored' = stored /\ raced' = raced
  BY DEF FinishBucket, PutJob
<1>2. OfBucket(seen, b) /\ InBucket(b) \subseteq seen \cup raced
  BY <1>1 DEF RollupsInv, Read
<1>3. q.pc \in {"idle", "select"}
  BY DEF Continued, Idle
<1> HIDE DEF q
<1>4. TableTypes'
  <2>1. pending' \subseteq stored' /\ stored' \subseteq Numbers'
    BY <1>1 DEF RollupsInv, TableTypes, Numbers
  <2>2. rollup' = [x \in Buckets |-> rollup'[x]] /\ job' = [k \in Jobs |-> job'[k]]
    BY <1>1 DEF RollupsInv, TableTypes
  <2> QED  BY <2>1, <2>2 DEF TableTypes
<1>5. MarkedWereCounted'
  <2>1. Marked(b) \subseteq seen \cup raced
    BY <1>2 DEF Marked
  <2> QED  BY <1>1, <2>1 DEF RollupsInv, MarkedWereCounted, Numbers
<1>6. ASSUME NEW k \in Jobs PROVE (Read(job[k]))'
  <2>1. CASE k = j
    <3>1. job'[k] = q
      BY <1>1, <2>1 DEF RollupsInv, TableTypes
    <3> QED  BY <1>3, <3>1 DEF Read
  <2>2. CASE k # j
    <3>1. job'[k] = job[k] /\ Read(job[k])
      BY <1>1, <2>2 DEF RollupsInv, TableTypes
    <3> QED  BY <1>1, <3>1 DEF Read, OfBucket, InBucket, Bucket, Numbers
  <2> QED  BY <2>1, <2>2
<1>7. \A x \in Buckets : rollup'[x] = IF x = b THEN seen ELSE rollup[x]
  BY <1>1 DEF RollupsInv, TableTypes
<1>8. \A x \in Buckets : rollup'[x] # None => OfBucket(rollup'[x], x)
  BY <1>2, <1>7 DEF RollupsInv
<1>9. \A x \in Buckets : rollup'[x] # None => (OfBucket(rollup[x], x))'
  BY <1>1, <1>8 DEF OfBucket, Bucket, Numbers
<1>10. \A x \in Buckets : rollup[x] # None /\ rollup'[x] # None =>
         rollup[x] \ rollup'[x] \subseteq raced \cup (Numbers \ stored)
  <2> SUFFICES ASSUME NEW x \in Buckets, rollup[x] # None, NEW i \in rollup[x] \ rollup'[x], i \in stored
               PROVE  i \in raced
    BY <1>7 DEF RollupsInv, OfBucket
  <2>1. x = b /\ i \notin seen
    BY <1>7
  <2>2. i \in InBucket(b)
    BY <2>1 DEF RollupsInv, OfBucket, InBucket
  <2> QED  BY <1>2, <2>1, <2>2
<1> QED  BY <1>4, <1>5, <1>6, <1>9, <1>10 DEF RollupsInv

\* What is past its retention has been marked.
LEMMA DeleteEventsInv == ASSUME RollupsInv, DeleteEvents PROVE RollupsInv'
<1>1. /\ stored' = stored \ Expired /\ pending' = pending /\ event' = event /\ rollup' = rollup
      /\ counted' = counted /\ raced' = raced /\ job' = job
  BY DEF DeleteEvents, Expired
<1>2. TableTypes'
  <2>1. pending' \subseteq stored' /\ stored' \subseteq Numbers'
    BY <1>1 DEF RollupsInv, TableTypes, Expired, Numbers
  <2> QED  BY <1>1, <2>1 DEF RollupsInv, TableTypes
<1>3. MarkedWereCounted'
  BY <1>1 DEF RollupsInv, MarkedWereCounted, Numbers
<1>4. ASSUME NEW k \in Jobs PROVE (Read(job[k]))'
  BY <1>1 DEF RollupsInv, Read, OfBucket, InBucket, Bucket, Numbers
<1>5. \A b \in Buckets : rollup'[b] # None => (OfBucket(rollup[b], b))'
  BY <1>1 DEF RollupsInv, OfBucket, Bucket, Numbers
<1> QED  BY <1>2, <1>3, <1>4, <1>5 DEF RollupsInv

LEMMA DeleteRollupsInv == ASSUME RollupsInv, DeleteRollups PROVE RollupsInv'
<1>1. /\ event' = event /\ stored' = stored /\ pending' = pending
      /\ counted' = counted /\ raced' = raced /\ job' = job
  BY DEF DeleteRollups
<1>2. PICK old : rollup' = [b \in Buckets |-> IF b \in old THEN None ELSE rollup[b]]
  BY DEF DeleteRollups
<1>3. TableTypes'
  BY <1>1, <1>2 DEF RollupsInv, TableTypes, Numbers
<1>4. MarkedWereCounted'
  BY <1>1 DEF RollupsInv, MarkedWereCounted, Numbers
<1>5. ASSUME NEW k \in Jobs PROVE (Read(job[k]))'
  BY <1>1 DEF RollupsInv, Read, OfBucket, InBucket, Bucket, Numbers
<1>6. \A b \in Buckets : rollup'[b] # None => rollup'[b] = rollup[b]
  BY <1>2
<1>7. \A b \in Buckets : rollup'[b] # None => (OfBucket(rollup[b], b))'
  BY <1>1, <1>6 DEF RollupsInv, OfBucket, Bucket, Numbers
<1> QED  BY <1>3, <1>4, <1>5, <1>7 DEF RollupsInv

LEMMA RollupsStep == ASSUME SalesInv, RollupsInv, [Next]_vars PROVE RollupsInv'
<1>1. ASSUME NEW t \in Tenants, StorefrontEvent(t) \/ SetupEvent(t) PROVE RollupsInv'
  <2>1. job' = job
    BY <1>1 DEF StorefrontEvent, SetupEvent, jobs
  <2>2. \E kind \in Kinds : RecordEvent(t, kind, None, 0, <<>>)
    BY <1>1, FrontAssumption DEF StorefrontEvent, SetupEvent, Kinds
  <2> QED  BY <2>1, <2>2, RecordRollups, ZeroAmount
<1>2. ASSUME NEW o \in Orders, StartCheckout(o) PROVE RollupsInv'
  <2>1. EventTypes
    BY DEF SalesInv
  <2>2. PICK t \in Tenants : RecordEvent(t, "checkout_started", None, 0, <<>>) /\ job' = job
    BY <1>2, <2>1, StartTypes
  <2> QED  BY <2>2, RecordRollups, ZeroAmount DEF Kinds
<1>3. ASSUME NEW o \in Orders, RecordSale(o) PROVE RollupsInv'
  <2> DEFINE p == request[o]
  <2>1. p.pc = "sale" /\ job' = job
        /\ RecordEvent(p.tenant, "checkout_completed", o, p.total, ItemsOf(p.cart))
    BY <1>3 DEF RecordSale, OrderOf, jobs
  <2>2. p \in Underway
    BY <2>1, Typed DEF SalesInv
  <2>3. p.tenant \in Tenants /\ p.total \in Amounts /\ ItemsOf(p.cart) \in Seq(Item)
        /\ "checkout_completed" \in Kinds /\ o \in Orders \cup {None}
    BY <2>2, CartItems DEF Underway, Kinds
  <2> QED  BY <2>1, <2>3, RecordRollups
<1>4. ASSUME NEW o \in Orders,
             \/ ValidateCart(o) \/ SelectShippingRate(o) \/ AuthorizePayment(o)
             \/ CapturePayment(o) \/ RefuseSale(o) \/ CutOff(o)
      PROVE  UNCHANGED <<tables, job>>
  BY <1>4 DEF ValidateCart, SelectShippingRate, AuthorizePayment, CapturePayment, RefuseSale, CutOff,
              analyticsVars, jobs
<1>5. ASSUME UNCHANGED <<event, stored, pending, rollup, counted, raced, job>> PROVE RollupsInv'
  <2>1. job' = [j \in Jobs |-> job'[j]]
    BY <1>5 DEF RollupsInv, TableTypes
  <2> QED  BY <1>5, <2>1, SameEvents
<1>6. CASE \/ \E t \in Tenants : ChangeStatus(t)
           \/ EnforceRetentionPolicies \/ DeleteTopProducts \/ NextDay
  <2>1. UNCHANGED <<event, stored, pending, rollup, counted, raced, job>>
    BY <1>6 DEF ChangeStatus, EnforceRetentionPolicies, DeleteTopProducts, NextDay, tables, jobs
  <2> QED  BY <1>5, <2>1
<1>7. ASSUME NEW j \in Jobs, Aggregation(j) \/ AbortJob(j) PROVE RollupsInv'
  BY <1>7, AggregationInv, FinishBucketInv DEF Aggregation
<1>8. CASE AnalyticsNext
  BY <1>1, <1>6, <1>7, <1>8, DeleteEventsInv, DeleteRollupsInv DEF AnalyticsNext
<1>9. CASE CheckoutNext
  <2>1. ASSUME UNCHANGED <<tables, job>> PROVE RollupsInv'
    BY <1>5, <2>1 DEF tables
  <2> QED  BY <1>2, <1>3, <1>4, <1>9, <2>1 DEF CheckoutNext
<1>10. CASE UNCHANGED vars
  BY <1>5, <1>10 DEF vars, analyticsVars, tables, jobs
<1> QED  BY <1>8, <1>9, <1>10 DEF Next

LEMMA RollupsInit == Init => RollupsInv
<1> SUFFICES ASSUME Init PROVE RollupsInv
  OBVIOUS
<1>1. /\ event = <<>> /\ stored = {} /\ pending = {} /\ rollup = [b \in Buckets |-> None]
      /\ job = [j \in Jobs |-> Idle]
  BY DEF Init, AnalyticsInit
<1>2. Numbers = {}
  BY <1>1 DEF Numbers
<1>3. TableTypes /\ MarkedWereCounted
  BY <1>1, <1>2 DEF TableTypes, MarkedWereCounted
<1>4. Idle.pc = "idle"
  BY DEF Idle
<1> HIDE DEF Idle
<1>5. \A j \in Jobs : Read(job[j])
  BY <1>1, <1>4 DEF Read
<1> QED  BY <1>1, <1>3, <1>5 DEF RollupsInv

\* An event that is marked or deleted has been counted in a rollup that was
\* committed, unless it came while an aggregation had read its day: with
\* any number of events and days, and both jobs at once.
THEOREM MarkedCounted == Spec => []MarkedWereCounted
<1>1. RollupsInv => MarkedWereCounted
  BY DEF RollupsInv
<1>2. Init => SalesInv /\ RollupsInv
  BY SalesInit, RollupsInit
<1>3. SalesInv /\ RollupsInv /\ [Next]_vars => (SalesInv /\ RollupsInv)'
  BY SalesStep, RollupsStep
<1> QED  BY <1>1, <1>2, <1>3, PTL DEF Spec

\* A total forgets an event only if that is deleted, or raced.
THEOREM TotalsStay == Spec => TotalsKept
<1> DEFINE A == \A b \in Buckets : rollup[b] # None /\ rollup'[b] # None =>
                  rollup[b] \ rollup'[b] \subseteq raced \cup (Numbers \ stored)
<1>1. RollupsInv /\ [Next]_vars => [A]_vars
  <2> SUFFICES ASSUME RollupsInv, Next PROVE A
    OBVIOUS
  <2>1. ASSUME NEW j \in Jobs, FinishBucket(j) PROVE A
    BY <2>1, FinishBucketInv
  <2>2. CASE DeleteRollups
    <3>1. \A b \in Buckets : rollup'[b] # None => rollup'[b] = rollup[b]
      BY <2>2 DEF DeleteRollups
    <3> QED  BY <3>1
  <2>3. CASE rollup' = rollup
    BY <2>3
  <2>4. \/ \E j \in Jobs : FinishBucket(j)
        \/ DeleteRollups
        \/ rollup' = rollup
    <3>1. CASE CheckoutNext
      BY <3>1 DEF CheckoutNext, StartCheckout, RecordSale, RecordEvent, ValidateCart, SelectShippingRate,
                  AuthorizePayment, CapturePayment, RefuseSale, CutOff, analyticsVars, tables
    <3>2. CASE AnalyticsNext
      BY <3>2 DEF AnalyticsNext, StorefrontEvent, SetupEvent, RecordEvent, ChangeStatus, NextDay,
                  Aggregation, AggregatePendingEvents, SelectRollup, UpsertRollup, SelectProducts, AbortJob,
                  EnforceRetentionPolicies, DeleteEvents, DeleteTopProducts, tables
    <3> QED  BY <3>1, <3>2 DEF Next
  <2> HIDE DEF A
  <2> QED  BY <2>1, <2>2, <2>3, <2>4
<1>2. Init => SalesInv /\ RollupsInv
  BY SalesInit, RollupsInit
<1>3. SalesInv /\ RollupsInv /\ [Next]_vars => (SalesInv /\ RollupsInv)'
  BY SalesStep, RollupsStep
<1> QED  BY <1>1, <1>2, <1>3, PTL DEF Spec, TotalsKept
-----------------------------------------------------------------------------
(* Sums over finite sets, one element at a time.                           *)

\* A set of numbers has a least one.
LEMMA LeastNumber == ASSUME NEW T \in SUBSET Nat, T # {} PROVE \E x \in T : \A y \in T : x <= y
<1>1. PICK x \in T : \A y \in T : ~(<<y, x>> \in OpToRel(<, Nat))
  BY NatLessThanWellFounded, WFMin
<1>2. \A y \in T : ~(y < x)
  BY <1>1 DEF OpToRel
<1> QED  BY <1>2

Any(s) == CHOOSE x \in s : TRUE

\* The sums of the values of sets, each from a smaller one.
Sums(v, X, f) == \A s \in X : f[s] = IF s = {} THEN 0 ELSE v[Any(s)] + f[s \ {Any(s)}]

LEMMA Smaller ==
  ASSUME NEW s, s # {}, IsFiniteSet(s)
  PROVE  /\ Any(s) \in s /\ IsFiniteSet(s \ {Any(s)}) /\ Cardinality(s) \in Nat
         /\ Cardinality(s \ {Any(s)}) = Cardinality(s) - 1
<1>1. Any(s) \in s
  BY DEF Any
<1> QED  BY <1>1, FS_RemoveElement, FS_CardinalityType

LEMMA SumsExist ==
  ASSUME NEW v, NEW N, IsFiniteSet(N), \A n \in N : v[n] \in Nat
  PROVE  \E f \in [SUBSET N -> Nat] : Sums(v, SUBSET N, f)
<1> DEFINE Small(k) == {s \in SUBSET N : Cardinality(s) <= k}
           Bad == {k \in Nat : ~\E f \in [Small(k) -> Nat] : Sums(v, Small(k), f)}
<1>1. \A s \in SUBSET N : IsFiniteSet(s) /\ Cardinality(s) \in Nat /\ Cardinality(s) <= Cardinality(N)
  BY FS_Subset, FS_CardinalityType
<1>2. Bad = {}
  <2> SUFFICES ASSUME Bad # {} PROVE FALSE
    OBVIOUS
  <2>1. PICK k \in Bad : \A m \in Bad : k <= m
    BY LeastNumber
  <2>2. k \in Nat /\ ~\E f \in [Small(k) -> Nat] : Sums(v, Small(k), f)
    OBVIOUS
  <2>3. \E g \in [{s \in SUBSET N : Cardinality(s) < k} -> Nat] : Sums(v, {s \in SUBSET N : Cardinality(s) < k}, g)
    <3>1. CASE k = 0
      <4>1. {s \in SUBSET N : Cardinality(s) < k} = {}
        BY <1>1, <3>1
      <4> DEFINE g == [s \in {} |-> 0]
      <4>2. g \in [{} -> Nat] /\ Sums(v, {}, g)
        BY DEF Sums
      <4> QED  BY <4>1, <4>2
    <3>2. CASE k # 0
      <4>1. k - 1 \in Nat /\ ~(k <= k - 1)
        BY <2>2, <3>2
      <4>2. k - 1 \notin Bad
        BY <2>1, <4>1
      <4>3. PICK g \in [Small(k - 1) -> Nat] : Sums(v, Small(k - 1), g)
        BY <4>1, <4>2
      <4>4. Small(k - 1) = {s \in SUBSET N : Cardinality(s) < k}
        BY <1>1, <2>2
      <4> HIDE DEF Small
      <4> QED  BY <4>3, <4>4
    <3> QED  BY <3>1, <3>2
  <2> DEFINE Less == {s \in SUBSET N : Cardinality(s) < k}
  <2>4. PICK g \in [Less -> Nat] : Sums(v, Less, g)
    BY <2>3
  <2>5. ASSUME NEW s \in Small(k), s # {}
        PROVE  s \ {Any(s)} \in Less /\ v[Any(s)] \in Nat
    <3>1. Any(s) \in s /\ Cardinality(s \ {Any(s)}) = Cardinality(s) - 1 /\ Cardinality(s) \in Nat
      BY <1>1, <2>5, Smaller
    <3> QED  BY <2>2, <3>1
  <2> DEFINE f == [s \in Small(k) |-> IF s = {} THEN 0 ELSE v[Any(s)] + g[s \ {Any(s)}]]
  <2>6. f \in [Small(k) -> Nat]
    <3>1. ASSUME NEW s \in Small(k), s # {} PROVE v[Any(s)] + g[s \ {Any(s)}] \in Nat
      <4>1. g[s \ {Any(s)}] \in Nat
        BY <2>4, <2>5, <3>1
      <4> QED  BY <2>5, <3>1, <4>1
    <3> HIDE DEF Small
    <3> QED  BY <3>1
  <2>7. \A s \in Less : f[s] = g[s]
    <3>1. \A s \in Less : s \in Small(k)
      BY <1>1, <2>2
    <3> HIDE DEF Small, Less
    <3> QED  BY <2>4, <3>1 DEF Sums
  <2>8. Sums(v, Small(k), f)
    <3> SUFFICES ASSUME NEW s \in Small(k) PROVE f[s] = IF s = {} THEN 0 ELSE v[Any(s)] + f[s \ {Any(s)}]
      BY DEF Sums
    <3>1. s # {} => f[s \ {Any(s)}] = g[s \ {Any(s)}]
      BY <2>5, <2>7
    <3> HIDE DEF Small, Less
    <3> QED  BY <3>1
  <2> HIDE DEF f
  <2> QED  BY <2>2, <2>6, <2>8
<1>3. Small(Cardinality(N)) = SUBSET N /\ Cardinality(N) \in Nat
  BY <1>1, FS_CardinalityType
<1>4. \E f \in [Small(Cardinality(N)) -> Nat] : Sums(v, Small(Cardinality(N)), f)
  BY <1>2, <1>3
<1> HIDE DEF Small
<1> QED  BY <1>3, <1>4

\* Two tables of sums agree where both say something: a smallest set where
\* they did not would have a smaller one.
Same(N, f, g) == \A s \in SUBSET N : f[s] = g[s]

LEMMA SumsAgree ==
  ASSUME NEW v, NEW w, NEW N, IsFiniteSet(N), NEW M, N \subseteq M, \A n \in N : v[n] = w[n],
         NEW f, Sums(v, SUBSET N, f), NEW g, Sums(w, SUBSET M, g)
  PROVE  Same(N, f, g)
<1> DEFINE Bad == {k \in Nat : \E s \in SUBSET N : Cardinality(s) = k /\ f[s] # g[s]}
<1>1. Bad = {}
  <2> SUFFICES ASSUME Bad # {} PROVE FALSE
    OBVIOUS
  <2>1. PICK k \in Bad : \A m \in Bad : k <= m
    BY LeastNumber
  <2>2. PICK s \in SUBSET N : Cardinality(s) = k /\ f[s] # g[s]
    OBVIOUS
  <2>3. s \in SUBSET M
    OBVIOUS
  <2>4. s # {}
    BY <2>2, <2>3 DEF Sums
  <2>5. IsFiniteSet(s)
    BY FS_Subset
  <2>6. Any(s) \in s /\ Cardinality(s \ {Any(s)}) = k - 1 /\ IsFiniteSet(s \ {Any(s)})
    BY <2>2, <2>4, <2>5, Smaller
  <2>7. Cardinality(s \ {Any(s)}) \in Nat /\ k \in Nat
    BY <2>6, FS_CardinalityType
  <2>8. k - 1 \notin Bad
    BY <2>1, <2>6, <2>7
  <2>9. f[s \ {Any(s)}] = g[s \ {Any(s)}]
    BY <2>6, <2>7, <2>8
  <2>10. f[s] = v[Any(s)] + f[s \ {Any(s)}] /\ g[s] = w[Any(s)] + g[s \ {Any(s)}]
    BY <2>3, <2>4 DEF Sums
  <2> QED  BY <2>2, <2>6, <2>9, <2>10
<1>2. \A s \in SUBSET N : Cardinality(s) \in Nat
  BY FS_Subset, FS_CardinalityType
<1> QED  BY <1>1, <1>2 DEF Same

\* The sum of a function is the one of its domain in the table of its sums.
LEMMA SumIs ==
  ASSUME NEW N, IsFiniteSet(N), NEW v \in [N -> Nat]
  PROVE  \E f \in [SUBSET N -> Nat] : Sums(v, SUBSET N, f) /\ SumFunction(v) = f[N]
<1> DEFINE F(f) == [s \in SUBSET N |-> IF s = {} THEN 0 ELSE v[Any(s)] + f[s \ {Any(s)}]]
           Iter == CHOOSE f : f = F(f)
<1>0. DOMAIN v = N
  OBVIOUS
<1>1. SumFunction(v) = Iter[N]
  BY <1>0 DEF SumFunction, SumFunctionOnSet, FoldFunctionOnSet, MapThenFoldSet, Any
<1>2. \A n \in N : v[n] \in Nat
  OBVIOUS
<1>3. PICK g \in [SUBSET N -> Nat] : Sums(v, SUBSET N, g)
  BY <1>2, SumsExist
<1>4. g = F(g)
  BY <1>3 DEF Sums
<1> HIDE DEF F
<1>5. Iter = F(Iter)
  BY <1>4
<1> HIDE DEF Iter
<1>6. Sums(v, SUBSET N, Iter)
  BY <1>5 DEF F, Sums
<1>7. Same(N, g, Iter)
  <2>1. N \subseteq N /\ \A n \in N : v[n] = v[n]
    OBVIOUS
  <2>2. Sums(v, SUBSET N, g)
    BY <1>3
  <2> QED  BY <1>6, <2>1, <2>2, SumsAgree
<1>8. SumFunction(v) = g[N]
  BY <1>1, <1>7 DEF Same
<1> QED  BY <1>3, <1>8

\* In a table of sums any element may be taken out first.
Takes(N, v, f) == \A s \in SUBSET N : \A x \in s : f[s] = v[x] + f[s \ {x}]

LEMMA TakeOut ==
  ASSUME NEW N, IsFiniteSet(N), NEW v \in [N -> Nat], NEW f \in [SUBSET N -> Nat], Sums(v, SUBSET N, f)
  PROVE  Takes(N, v, f)
<1> DEFINE Bad == {k \in Nat : \E s \in SUBSET N : Cardinality(s) = k /\ \E x \in s : f[s] # v[x] + f[s \ {x}]}
<1>1. Bad = {}
  <2> SUFFICES ASSUME Bad # {} PROVE FALSE
    OBVIOUS
  <2>1. PICK k \in Bad : \A m \in Bad : k <= m
    BY LeastNumber
  <2>2. PICK s \in SUBSET N : Cardinality(s) = k /\ \E x \in s : f[s] # v[x] + f[s \ {x}]
    OBVIOUS
  <2>3. PICK x \in s : f[s] # v[x] + f[s \ {x}]
    BY <2>2
  <2> DEFINE a == Any(s)
  <2>4. IsFiniteSet(s) /\ s # {}
    BY FS_Subset
  <2>5. a \in s /\ f[s] = v[a] + f[s \ {a}]
    BY <2>4, Smaller DEF Sums
  <2> HIDE DEF a
  <2>6. a # x
    BY <2>3, <2>5
  <2>7. \A y \in s : Cardinality(s \ {y}) = k - 1 /\ Cardinality(s \ {y}) \in Nat
    BY <2>2, <2>4, FS_RemoveElement, FS_CardinalityType
  <2>8. k \in Nat /\ k - 1 \in Nat /\ k - 1 \notin Bad
    <3>1. k \in Nat /\ k - 1 \in Nat
      BY <2>5, <2>7
    <3> HIDE DEF Bad
    <3>2. ~(k <= k - 1)
      BY <3>1
    <3> QED  BY <2>1, <3>1, <3>2
  <2>9. \A y \in s, z \in s : y # z => f[s \ {y}] = v[z] + f[(s \ {y}) \ {z}]
    <3> SUFFICES ASSUME NEW y \in s, NEW z \in s, y # z PROVE f[s \ {y}] = v[z] + f[(s \ {y}) \ {z}]
      OBVIOUS
    <3>1. s \ {y} \in SUBSET N /\ z \in s \ {y} /\ Cardinality(s \ {y}) = k - 1
      BY <2>7
    <3> QED  BY <2>8, <3>1
  <2>10. f[s \ {a}] = v[x] + f[(s \ {a}) \ {x}] /\ f[s \ {x}] = v[a] + f[(s \ {x}) \ {a}]
    BY <2>5, <2>6, <2>9
  <2>11. (s \ {a}) \ {x} = (s \ {x}) \ {a}
    OBVIOUS
  <2> DEFINE r == f[(s \ {x}) \ {a}]
  <2>12. r \in Nat /\ v[a] \in Nat /\ v[x] \in Nat
    BY <2>5
  <2>13. f[s \ {a}] = v[x] + r /\ f[s \ {x}] = v[a] + r
    BY <2>10, <2>11
  <2> HIDE DEF r
  <2> QED  BY <2>3, <2>5, <2>12, <2>13
<1>2. \A s \in SUBSET N : Cardinality(s) \in Nat
  BY FS_Subset, FS_CardinalityType
<1> QED  BY <1>1, <1>2 DEF Takes

\* In a table of sums no subset has more than the whole.
LEMMA SumsGrow ==
  ASSUME NEW N, IsFiniteSet(N), NEW v \in [N -> Nat], NEW f \in [SUBSET N -> Nat], Sums(v, SUBSET N, f)
  PROVE  \A s \in SUBSET N : f[s] <= f[N]
<1>1. Takes(N, v, f)
  BY TakeOut
<1>2. \A s \in SUBSET N : IsFiniteSet(N \ s) /\ Cardinality(N \ s) \in Nat
  BY FS_Difference, FS_CardinalityType
<1> DEFINE Bad == {k \in Nat : \E s \in SUBSET N : Cardinality(N \ s) = k /\ ~(f[s] <= f[N])}
<1>3. Bad = {}
  <2> SUFFICES ASSUME Bad # {} PROVE FALSE
    OBVIOUS
  <2>1. PICK k \in Bad : \A m \in Bad : k <= m
    BY LeastNumber
  <2>2. PICK s \in SUBSET N : Cardinality(N \ s) = k /\ ~(f[s] <= f[N])
    OBVIOUS
  <2>3. \A m \in Nat : (\E t \in SUBSET N : Cardinality(N \ t) = m /\ ~(f[t] <= f[N])) => k <= m
    BY <2>1
  <2> HIDE DEF Bad
  <2>4. f[N] \in Nat /\ f[s] \in Nat
    OBVIOUS
  <2>5. s # N
    BY <2>2, <2>4
  <2>6. PICK x \in N \ s : TRUE
    BY <2>5
  <2> DEFINE t == s \cup {x}
  <2>7. t \in SUBSET N /\ x \in t /\ t \ {x} = s /\ N \ t = (N \ s) \ {x}
    BY <2>6
  <2> HIDE DEF t
  <2>8. f[t] = v[x] + f[s]
    BY <1>1, <2>7 DEF Takes
  <2>9. f[t] \in Nat /\ v[x] \in Nat
    BY <2>6, <2>7
  <2>10. ~(f[t] <= f[N])
    BY <2>2, <2>4, <2>8, <2>9
  <2>11. Cardinality(N \ t) = Cardinality(N \ s) - 1
    <3> DEFINE u == N \ s
    <3>1. IsFiniteSet(u) /\ x \in u /\ N \ t = u \ {x}
      BY <1>2, <2>6, <2>7
    <3> HIDE DEF u
    <3>2. Cardinality(u \ {x}) = Cardinality(u) - 1
      BY <3>1, FS_RemoveElement
    <3> QED  BY <3>1, <3>2 DEF u
  <2>12. k <= k - 1 /\ k \in Nat
    BY <1>2, <2>2, <2>3, <2>7, <2>10, <2>11
  <2> QED  BY <2>12
<1> QED  BY <1>2, <1>3

\* The sum of natural numbers is one, and that of fewer of them is no greater.
LEMMA SumLess ==
  ASSUME NEW N, IsFiniteSet(N), NEW v \in [N -> Nat], NEW S \in SUBSET N
  PROVE  /\ SumFunction(v) \in Nat /\ SumFunction([x \in S |-> v[x]]) \in Nat
         /\ SumFunction([x \in S |-> v[x]]) <= SumFunction(v)
<1> DEFINE w == [x \in S |-> v[x]]
<1>1. PICK f \in [SUBSET N -> Nat] : Sums(v, SUBSET N, f) /\ SumFunction(v) = f[N]
  BY SumIs
<1>2. IsFiniteSet(S) /\ w \in [S -> Nat] /\ S \subseteq N /\ \A x \in S : w[x] = v[x]
  BY FS_Subset
<1> HIDE DEF w
<1>3. PICK g \in [SUBSET S -> Nat] : Sums(w, SUBSET S, g) /\ SumFunction(w) = g[S]
  BY <1>2, SumIs
<1>4. Same(S, g, f)
  <2>1. Sums(v, SUBSET N, f)
    BY <1>1
  <2>2. Sums(w, SUBSET S, g)
    BY <1>3
  <2> QED  BY <1>2, <2>1, <2>2, SumsAgree
<1>5. f[S] <= f[N] /\ f[S] \in Nat /\ f[N] \in Nat
  BY <1>1, SumsGrow
<1>6. g[S] = f[S]
  BY <1>4 DEF Same
<1> QED  BY <1>1, <1>3, <1>5, <1>6 DEF w
-----------------------------------------------------------------------------
(* Lines and their products.                                               *)

\* A line is one of an event, and of numbers.
LEMMA LineIs ==
  ASSUME EventTypes, NEW x \in Lines(Numbers)
  PROVE  /\ x[1] \in Numbers /\ x[2] \in 1..Len(event[x[1]].items) /\ x = <<x[1], x[2]>>
         /\ Line(x) \in Item /\ Line(x).quantity * Line(x).price \in Nat
<1>1. PICK i \in Numbers : x \in {i} \X (1..Len(event[i].items))
  BY DEF Lines
<1>2. x[1] = i /\ x[2] \in 1..Len(event[i].items) /\ x = <<x[1], x[2]>>
  BY <1>1
<1>3. event[i].items \in Seq(Item)
  <2>1. event[i] \in Recorded
    BY <1>1 DEF EventTypes, Numbers
  <2> QED  BY <2>1 DEF Recorded
<1>4. Line(x) \in Item
  BY <1>2, <1>3 DEF Line
<1>5. Line(x).quantity \in Nat /\ Line(x).price \in Nat
  BY <1>4 DEF Item
<1> QED  BY <1>1, <1>2, <1>4, <1>5

LEMMA FewerLines == ASSUME NEW S, NEW T, S \subseteq T PROVE Lines(S) \subseteq Lines(T)
BY DEF Lines

LEMMA LinesFinite == ASSUME EventTypes PROVE IsFiniteSet(Lines(Numbers))
<1> DEFINE f == [i \in Numbers |-> {i} \X (1..Len(event[i].items))]
           T == {{i} \X (1..Len(event[i].items)) : i \in Numbers}
<1>1. IsFiniteSet(Numbers)
  <2>1. 1 \in Int /\ Len(event) \in Int
    BY DEF EventTypes
  <2> QED  BY <2>1, FS_Interval DEF Numbers
<1>2. f \in Surjection(Numbers, T)
  BY DEF Surjection
<1>3. IsFiniteSet(T)
  BY <1>1, <1>2, FS_Surjection
<1>4. ASSUME NEW i \in Numbers PROVE IsFiniteSet({i} \X (1..Len(event[i].items)))
  <2>1. event[i].items \in Seq(Item)
    <3>1. event[i] \in Recorded
      BY DEF EventTypes, Numbers
    <3> QED  BY <3>1 DEF Recorded
  <2>2. 1 \in Int /\ Len(event[i].items) \in Int
    BY <2>1
  <2>3. IsFiniteSet(1..Len(event[i].items))
    BY <2>2, FS_Interval
  <2>4. IsFiniteSet({i})
    BY FS_Singleton
  <2> QED  BY <2>3, <2>4, FS_Product
<1>5. \A t \in T : IsFiniteSet(t)
  BY <1>4
<1>6. Lines(Numbers) = UNION T
  BY DEF Lines
<1> HIDE DEF T
<1> QED  BY <1>3, <1>5, <1>6, FS_UNION

\* What fewer lines come to is no more.
LEMMA GmvLess ==
  ASSUME EventTypes, NEW L \in SUBSET Lines(Numbers), NEW S \in SUBSET L
  PROVE  Gmv(S) \in Nat /\ Gmv(L) \in Nat /\ Gmv(S) <= Gmv(L)
<1> DEFINE v == [x \in L |-> Line(x).quantity * Line(x).price]
<1>1. v \in [L -> Nat]
  BY LineIs
<1>2. IsFiniteSet(L)
  BY LinesFinite, FS_Subset
<1>3. Gmv(L) = SumFunction(v)
  BY DEF Gmv
<1>4. Gmv(S) = SumFunction([x \in S |-> v[x]])
  <2>1. [x \in S |-> v[x]] = [x \in S |-> Line(x).quantity * Line(x).price]
    OBVIOUS
  <2> QED  BY <2>1 DEF Gmv
<1> HIDE DEF v
<1> QED  BY <1>1, <1>2, <1>3, <1>4, SumLess

\* The lines of some of the products have these as their products.
LEMMA Classes == ASSUME NEW L, NEW R \in SUBSET ByProduct(L) PROVE ByProduct(UNION R) = R
<1> DEFINE Together(K, p) == {x \in K : Line(x).product = p}
           M == UNION R
<1>1. \A r \in R : \E y \in L : y \in r /\ r = Together(L, Line(y).product)
  BY DEF ByProduct
<1>2. ASSUME NEW r \in R, NEW p, r = Together(L, p) PROVE r = Together(M, p)
  <2>1. \A x \in r : x \in M /\ Line(x).product = p
    BY <1>2
  <2>2. \A x \in M : x \in L
    BY <1>1
  <2> QED  BY <1>2, <2>1, <2>2
<1>3. ASSUME NEW r \in R PROVE r \in ByProduct(M)
  <2>1. PICK y \in L : y \in r /\ r = Together(L, Line(y).product)
    BY <1>1
  <2>2. y \in M /\ r = Together(M, Line(y).product)
    BY <1>2, <2>1
  <2> QED  BY <2>2 DEF ByProduct
<1>4. ASSUME NEW c \in ByProduct(M) PROVE c \in R
  <2>1. PICK x \in M : c = Together(M, Line(x).product)
    BY DEF ByProduct
  <2>2. PICK r \in R : x \in r
    BY <2>1
  <2>3. PICK y \in L : r = Together(L, Line(y).product)
    BY <1>1
  <2>4. r = Together(M, Line(y).product) /\ Line(x).product = Line(y).product
    BY <1>2, <2>2, <2>3
  <2> QED  BY <2>1, <2>4
<1> QED  BY <1>3, <1>4

\* Some of a finite set that are fewer are as many as the limit.
LEMMA FullRanking ==
  ASSUME NEW rows, IsFiniteSet(rows), NEW limit \in Nat, NEW R \in Highest(rows, limit)
  PROVE  /\ R \subseteq rows /\ IsFiniteSet(R) /\ Cardinality(R) \in Nat /\ Cardinality(R) <= limit
         /\ Cardinality(rows) \in Nat /\ Cardinality(R) = Least(limit, Cardinality(rows))
         /\ \A v \in rows \ R : limit = Cardinality(R) /\ \A u \in R : Gmv(v) <= Gmv(u)
<1>1. /\ R \in SUBSET rows /\ Cardinality(R) = Least(limit, Cardinality(rows))
      /\ \A u \in R, v \in rows \ R : Gmv(v) <= Gmv(u)
  BY DEF Highest
<1>2. IsFiniteSet(R) /\ (Cardinality(rows) = Cardinality(R) => rows = R)
  BY <1>1, FS_Subset
<1>3. Cardinality(R) \in Nat /\ Cardinality(rows) \in Nat
  BY <1>2, FS_CardinalityType
<1>4. Cardinality(R) <= limit /\ (Cardinality(R) # Cardinality(rows) => limit = Cardinality(R))
  BY <1>1, <1>3 DEF Least
<1> QED  BY <1>1, <1>2, <1>3, <1>4

\* The top products M were chosen from lines among which are all those of S.
Listed(S, M) == \E L \in SUBSET Lines(Numbers), R \in SUBSET SUBSET Lines(Numbers) :
  Lines(S) \subseteq L /\ R \in Highest(ByProduct(L), TopLimit) /\ M = UNION R

\* A report of the products M says of each product of S how much was sold,
\* or is full of products that sold as much.
LEMMA ReportCovers ==
  ASSUME EventTypes, NEW S, NEW M, Listed(S, M), NEW limit \in Nat,
         NEW report \in Highest(ByProduct(M), limit), NEW sold \in ByProduct(Lines(S))
  PROVE  \/ \E row \in report : sold \subseteq row
         \/ /\ Cardinality(report) = Least(limit, TopLimit)
            /\ \A row \in report : Gmv(sold) <= Gmv(row)
<1>1. PICK L \in SUBSET Lines(Numbers), R \in SUBSET SUBSET Lines(Numbers) :
        Lines(S) \subseteq L /\ R \in Highest(ByProduct(L), TopLimit) /\ M = UNION R
  BY DEF Listed
<1>2. IsFiniteSet(ByProduct(L))
  <2>1. IsFiniteSet(L)
    BY LinesFinite, FS_Subset
  <2>2. IsFiniteSet(SUBSET L)
    BY <2>1, FS_SUBSET
  <2>3. ByProduct(L) \in SUBSET SUBSET L
    BY DEF ByProduct
  <2> QED  BY <2>2, <2>3, FS_Subset
<1>3. TopLimit \in Nat
  BY LimitAssumption
<1>4. /\ R \subseteq ByProduct(L) /\ IsFiniteSet(R) /\ Cardinality(R) \in Nat /\ Cardinality(R) <= TopLimit
      /\ \A v \in ByProduct(L) \ R : TopLimit = Cardinality(R) /\ \A u \in R : Gmv(v) <= Gmv(u)
  BY <1>1, <1>2, <1>3, FullRanking
<1>5. ByProduct(M) = R
  BY <1>1, <1>4, Classes
<1>6. /\ report \subseteq R /\ Cardinality(report) \in Nat /\ Cardinality(report) <= limit
      /\ Cardinality(report) = Least(limit, Cardinality(R))
      /\ \A v \in R \ report : limit = Cardinality(report) /\ \A u \in report : Gmv(v) <= Gmv(u)
  BY <1>4, <1>5, FullRanking
<1>7. \E row \in ByProduct(L) : sold \subseteq row
  <2>1. PICK y \in Lines(S) : sold = {x \in Lines(S) : Line(x).product = Line(y).product}
    BY DEF ByProduct
  <2> DEFINE row == {x \in L : Line(x).product = Line(y).product}
  <2>2. row \in ByProduct(L)
    BY <1>1 DEF ByProduct
  <2>3. sold \subseteq row
    BY <1>1, <2>1
  <2> QED  BY <2>2, <2>3
<1>8. PICK row \in ByProduct(L) : sold \subseteq row
  BY <1>7
<1>9. row \in SUBSET L
  BY DEF ByProduct
<1>10. Gmv(sold) \in Nat /\ Gmv(row) \in Nat /\ Gmv(sold) <= Gmv(row)
  BY <1>8, <1>9, GmvLess
<1>11. ASSUME NEW u \in report, Gmv(row) <= Gmv(u) PROVE Gmv(sold) <= Gmv(u)
  <2>1. u \in SUBSET L
    BY <1>4, <1>6 DEF ByProduct
  <2>2. Gmv(u) \in Nat
    BY <2>1, GmvLess
  <2> QED  BY <1>10, <1>11, <2>2
<1>12. CASE row \in report
  BY <1>8, <1>12
<1>13. CASE row \in R \ report
  <2>1. limit = Cardinality(report) /\ \A u \in report : Gmv(row) <= Gmv(u)
    BY <1>6, <1>13
  <2>2. Cardinality(report) = Least(limit, TopLimit)
    BY <1>3, <1>4, <1>6, <2>1 DEF Least
  <2> QED  BY <1>11, <2>1, <2>2
<1>14. CASE row \notin R
  <2>1. TopLimit = Cardinality(R) /\ \A u \in report : Gmv(row) <= Gmv(u)
    BY <1>4, <1>6, <1>14
  <2> QED  BY <1>6, <1>11, <2>1
<1> QED  BY <1>12, <1>13, <1>14
-----------------------------------------------------------------------------
(* The products of the events that are rolled up.                          *)

\* What has been listed stays so when an event comes.
LEMMA ListedStays ==
  ASSUME EventTypes, Numbers \subseteq Numbers', \A i \in Numbers : event'[i] = event[i],
         NEW S \in SUBSET Numbers, NEW M, Listed(Ordered(S), M)
  PROVE  Listed(Ordered(S), M)'
<1>1. PICK L \in SUBSET Lines(Numbers), R \in SUBSET SUBSET Lines(Numbers) :
        Lines(Ordered(S)) \subseteq L /\ R \in Highest(ByProduct(L), TopLimit) /\ M = UNION R
  BY DEF Listed
<1>2. \A i \in Numbers : 1..Len(event'[i].items) = 1..Len(event[i].items)
  OBVIOUS
<1>3. Ordered(S)' = Ordered(S) /\ Ordered(S) \in SUBSET Numbers
  BY DEF Ordered
<1>4. Lines(Ordered(S))' = Lines(Ordered(S))
  BY <1>2, <1>3 DEF Lines
<1>5. \A x \in L : Line(x)' = Line(x)
  BY LineIs DEF Line
<1>6. ByProduct(L)' = ByProduct(L)
  BY <1>5 DEF ByProduct
<1>7. \A u \in SUBSET L : Gmv(u)' = Gmv(u)
  <2> SUFFICES ASSUME NEW u \in SUBSET L PROVE Gmv(u)' = Gmv(u)
    OBVIOUS
  <2>1. [x \in u |-> Line(x)'.quantity * Line(x)'.price] = [x \in u |-> Line(x).quantity * Line(x).price]
    BY <1>5
  <2> QED  BY <2>1 DEF Gmv
<1>8. \A u \in ByProduct(L) : u \in SUBSET L
  BY DEF ByProduct
<1>9. (R \in Highest(ByProduct(L), TopLimit))'
  BY <1>1, <1>6, <1>7, <1>8 DEF Highest
<1>10. Lines(Numbers) \subseteq Lines(Numbers)'
  BY <1>2 DEF Lines
<1> QED  BY <1>1, <1>4, <1>9, <1>10 DEF Listed

\* The more so when none comes.
LEMMA ListedSame ==
  ASSUME event' = event, NEW S, NEW M, Listed(Ordered(S), M)
  PROVE  Listed(Ordered(S), M)'
<1>1. Numbers' = Numbers /\ Ordered(S)' = Ordered(S)
  BY DEF Numbers, Ordered
<1>2. \A x : Line(x)' = Line(x)
  BY DEF Line
<1>3. Lines(Numbers)' = Lines(Numbers) /\ Lines(Ordered(S))' = Lines(Ordered(S))
  BY <1>1 DEF Lines
<1>4. \A L : ByProduct(L)' = ByProduct(L)
  BY <1>2 DEF ByProduct
<1>5. \A u : Gmv(u)' = Gmv(u)
  BY <1>2 DEF Gmv
<1>6. \A L, R : R \in Highest(ByProduct(L), TopLimit) => R \in Highest(ByProduct(L), TopLimit)'
  BY <1>4, <1>5 DEF Highest
<1> QED  BY <1>3, <1>6 DEF Listed

\* An aggregation has the top products among the lines of the sales it has
\* read, and others that have come - as long as the retention cannot have
\* deleted any of them in between.
Sells(q) == q.pc \in {"upsert", "products", "finish"} =>
  /\ q.lines \subseteq Lines(Numbers)
  /\ ~Past(q.bucket[2], RawDays) => /\ q.seen \subseteq stored
                                    /\ q.pc = "finish" => Listed(Ordered(q.seen), q.lines)

Dated == /\ Len(event) <= MaxEvents /\ today \in Days
         /\ \A i \in Numbers : event[i].day \in Days /\ (event[i].order # None => event[i].kind = "checkout_completed")

ProductsInv ==
  /\ Dated
  /\ counted \subseteq Numbers /\ raced \subseteq Numbers
  /\ job \in [Jobs -> Job] /\ top \in [Buckets -> SUBSET Lines(Numbers)]
  /\ \A j \in Jobs : Sells(job[j])
  /\ \A b \in Buckets : rollup[b] # None /\ ~Past(b[2], RawDays) => Listed(Ordered(rollup[b]), top[b])

CapturesKnown == \A o \in Orders : charge[o].captured => charge[o].known
LEMMA BucketParts == ASSUME NEW b \in Buckets PROVE b[1] \in Tenants /\ b[2] \in Days /\ b[2] \in Nat
BY BoundsAssumption DEF Buckets, Days

LEMMA NumbersBounded == ASSUME EventTypes, Dated PROVE Numbers \subseteq 1..MaxEvents /\ Len(event) \in Nat
BY BoundsAssumption DEF EventTypes, Dated, Numbers

LEMMA LinesBounded == ASSUME EventTypes, Dated PROVE Lines(Numbers) \subseteq (1..MaxEvents) \X Nat
<1> SUFFICES ASSUME NEW x \in Lines(Numbers) PROVE x \in (1..MaxEvents) \X Nat
  OBVIOUS
<1>1. x[1] \in Numbers /\ x[2] \in 1..Len(event[x[1]].items) /\ x = <<x[1], x[2]>>
  BY LineIs
<1>2. event[x[1]] \in Recorded
  BY <1>1 DEF EventTypes, Numbers
<1>3. Len(event[x[1]].items) \in Nat
  BY <1>2 DEF Recorded
<1> QED  BY <1>1, <1>3, NumbersBounded

LEMMA JobShape ==
  ASSUME NEW q \in Job
  PROVE  /\ q.pc \in {"idle", "select", "upsert", "products", "finish"}
         /\ q.pc # "idle" => q.todo \subseteq Buckets
         /\ q.pc \in {"upsert", "products", "finish"} =>
              q.bucket \in Buckets /\ q.seen \subseteq 1..MaxEvents /\ q.lines \subseteq (1..MaxEvents) \X Nat
BY DEF Job, Idle

\* An event that comes adds nothing to what an aggregation has read.
LEMMA RecordProducts ==
  ASSUME SalesInv, RollupsInv, ProductsInv, NEW t \in Tenants, NEW kind \in Kinds,
         NEW order \in Orders \cup {None}, NEW amount \in Amounts,
         NEW items \in Seq(Item),
         order # None => kind = "checkout_completed",
         RecordEvent(t, kind, order, amount, items), job' = job, today' = today
  PROVE  ProductsInv'
<1> DEFINE n == Len(event) + 1
<1>1. EventTypes
  BY DEF SalesInv
<1>2. /\ Numbers' = Numbers \cup {n} /\ n \notin Numbers /\ Len(event') = n /\ Len(event) \in Nat
      /\ \A i \in Numbers : event'[i] = event[i]
      /\ event'[n].order = order /\ event'[n].day = today
  <2>1. Len(event) \in Nat
    BY <1>1 DEF EventTypes
  <2> QED  BY <1>1, <2>1, Recording
<1>3. event'[n].kind = kind /\ Len(event) < MaxEvents
  BY <1>1 DEF RecordEvent, EventTypes
<1>4. /\ stored' = stored \cup {n} /\ rollup' = rollup /\ counted' = counted /\ top' = top
      /\ raced' \subseteq raced \cup {n}
  BY DEF RecordEvent
<1> HIDE DEF n
<1>5. Dated'
  <2> DEFINE D(e) == e.day \in Days /\ (e.order # None => e.kind = "checkout_completed")
  <2>1. \A i \in Numbers : D(event[i])
    BY DEF ProductsInv, Dated
  <2>2. D(event'[n])
    BY <1>2, <1>3 DEF ProductsInv, Dated
  <2>3. Len(event') <= MaxEvents
    BY <1>2, <1>3, BoundsAssumption DEF n
  <2> HIDE DEF D
  <2>4. \A i \in Numbers' : D(event'[i])
    BY <1>2, <2>1, <2>2
  <2> QED  BY <2>3, <2>4 DEF ProductsInv, Dated, Days, D
<1>6. Numbers \subseteq Numbers' /\ Lines(Numbers) \subseteq Lines(Numbers)'
  <2>1. \A i \in Numbers : 1..Len(event'[i].items) = 1..Len(event[i].items)
    BY <1>2
  <2> QED  BY <1>2, <2>1 DEF Lines
<1>7. ASSUME NEW j \in Jobs PROVE (Sells(job[j]))'
  <2> DEFINE q == job[j]
  <2>1. q' = q /\ Sells(q)
    BY DEF ProductsInv
  <2> SUFFICES ASSUME q.pc \in {"upsert", "products", "finish"}
               PROVE  /\ q.lines \subseteq Lines(Numbers)'
                      /\ ~(q.bucket[2] + RawDays < today) =>
                           /\ q.seen \subseteq stored'
                           /\ q.pc = "finish" => Listed(Ordered(q.seen), q.lines)'
    BY <2>1 DEF Sells, Past
  <2>2. q.seen \in SUBSET Numbers
    BY DEF RollupsInv, Read, OfBucket
  <2>3. /\ q.lines \subseteq Lines(Numbers)
        /\ ~(q.bucket[2] + RawDays < today) =>
             /\ q.seen \subseteq stored
             /\ q.pc = "finish" => Listed(Ordered(q.seen), q.lines)
    BY DEF ProductsInv, Sells, Past
  <2>4. ASSUME Listed(Ordered(q.seen), q.lines) PROVE Listed(Ordered(q.seen), q.lines)'
    BY <1>1, <1>2, <1>6, <2>1, <2>2, <2>4, ListedStays
  <2> HIDE DEF q
  <2> QED  BY <1>4, <1>6, <2>3, <2>4
<1>8. ASSUME NEW b \in Buckets, rollup[b] # None, ~Past(b[2], RawDays)
      PROVE  Listed(Ordered(rollup[b]), top[b])'
  <2>1. rollup[b] \in SUBSET Numbers /\ Listed(Ordered(rollup[b]), top[b])
    BY <1>8 DEF RollupsInv, OfBucket, ProductsInv
  <2> QED  BY <1>1, <1>2, <1>4, <1>6, <2>1, ListedStays
<1>9. (top \in [Buckets -> SUBSET Lines(Numbers)])'
  BY <1>4, <1>6 DEF ProductsInv, Buckets, Days
<1>10. counted' \subseteq Numbers' /\ raced' \subseteq Numbers' /\ job' \in [Jobs -> Job]
  BY <1>2, <1>4 DEF ProductsInv
<1>11. ASSUME NEW b \in Buckets, rollup'[b] # None, ~(Past(b[2], RawDays))'
       PROVE  Listed(Ordered(rollup[b]), top[b])'
  BY <1>4, <1>8, <1>11 DEF Past
<1> QED  BY <1>5, <1>7, <1>9, <1>10, <1>11 DEF ProductsInv, Job, Buckets, Days

\* No event comes: transactions go on, rows are deleted, the day ends.
LEMMA NoEvent ==
  ASSUME SalesInv, RollupsInv, ProductsInv,
         event' = event, today' \in Days, today <= today',
         \A i \in stored \ stored' : Past(event[i].day, RawDays),
         counted' \subseteq Numbers, raced' = raced,
         job' \in [Jobs -> Job], top' \in [Buckets -> SUBSET Lines(Numbers)],
         \A j \in Jobs : job'[j] = job[j] \/ (Sells(job'[j]) /\ stored' = stored /\ today' = today),
         \A b \in Buckets : \/ rollup'[b] = None \/ Past(b[2], RawDays)
                            \/ rollup'[b] = rollup[b] /\ top'[b] = top[b]
                            \/ Listed(Ordered(rollup'[b]), top'[b])
  PROVE  ProductsInv'
<1>1. today \in Nat /\ today' \in Nat /\ RawDays \in Nat
  BY BoundsAssumption, RetentionAssumption DEF SalesInv, EventTypes, Days
<1>2. Numbers' = Numbers /\ Dated' /\ Lines(Numbers)' = Lines(Numbers)
  BY DEF ProductsInv, Dated, Numbers, Days, Lines
<1>0. \A S, M : Listed(Ordered(S), M) => Listed(Ordered(S), M)'
  BY ListedSame
<1>3. \A d \in Nat : Past(d, RawDays) => (Past(d, RawDays))'
  BY <1>1 DEF Past
<1>4. ASSUME NEW j \in Jobs PROVE (Sells(job[j]))'
  <2> DEFINE q == job'[j]
  <2>1. q \in Job
    OBVIOUS
  <2> SUFFICES ASSUME q.pc \in {"upsert", "products", "finish"}
               PROVE  /\ q.lines \subseteq Lines(Numbers)
                      /\ ~(q.bucket[2] + RawDays < today') =>
                           /\ q.seen \subseteq stored'
                           /\ q.pc = "finish" => Listed(Ordered(q.seen), q.lines)
    BY <1>0, <1>2 DEF Sells, Past
  <2>2. Sells(q)
    BY DEF ProductsInv
  <2>3. ~(q.bucket[2] + RawDays < today') => ~Past(q.bucket[2], RawDays)
    <3>1. q.bucket[2] \in Nat
      BY <2>1, JobShape, BucketParts
    <3> QED  BY <1>1, <3>1 DEF Past
  <2>4. CASE q = job[j]
    <3>1. OfBucket(q.seen, q.bucket)
      BY <2>4 DEF RollupsInv, Read
    <3>2. ASSUME NEW i \in q.seen PROVE event[i].day = q.bucket[2]
      BY <3>1 DEF OfBucket, Bucket
    <3> HIDE DEF q
    <3>3. ~Past(q.bucket[2], RawDays) => q.seen \subseteq stored'
      BY <2>2, <3>2 DEF Sells
    <3> QED  BY <2>2, <2>3, <3>3 DEF Sells
  <2>5. CASE q # job[j]
    <3>1. stored' = stored
      BY <2>5
    <3> HIDE DEF q
    <3> QED  BY <2>2, <2>3, <3>1 DEF Sells
  <2> QED  BY <2>4, <2>5
<1>5. ASSUME NEW b \in Buckets, rollup'[b] # None, ~(Past(b[2], RawDays))'
      PROVE  Listed(Ordered(rollup[b]), top[b])'
  <2>1. ~Past(b[2], RawDays)
    BY <1>3, <1>5, BucketParts
  <2>2. Listed(Ordered(rollup'[b]), top'[b])
    BY <1>5, <2>1 DEF ProductsInv
  <2> QED  BY <1>0, <2>2
<1> QED  BY <1>2, <1>4, <1>5 DEF ProductsInv, Job, Buckets, Days
-----------------------------------------------------------------------------
LEMMA PendingKnown == ASSUME SalesInv, RollupsInv, ProductsInv PROVE PendingBuckets \subseteq Buckets
<1> SUFFICES ASSUME NEW i \in pending, event[i].tenant \in active PROVE Bucket(i) \in Buckets
  BY DEF PendingBuckets
<1>1. i \in Numbers
  BY DEF RollupsInv, TableTypes
<1> QED  BY <1>1 DEF SalesInv, EventTypes, ProductsInv, Dated, Bucket, Buckets

\* One transaction moves; nothing it writes is seen yet.
LEMMA OneJob ==
  ASSUME SalesInv, RollupsInv, ProductsInv, NEW j \in Jobs, NEW q \in Job, Sells(q),
         UNCHANGED <<tables, today>>, job' = [job EXCEPT ![j] = q]
  PROVE  ProductsInv'
<1>1. job' \in [Jobs -> Job] /\ \A k \in Jobs : job'[k] = job[k] \/ Sells(job'[k])
  BY DEF ProductsInv
<1>2. today \in Nat
  BY DEF SalesInv, EventTypes
<1> QED  BY <1>1, <1>2, NoEvent DEF ProductsInv, Dated, tables

LEMMA AggregationProducts ==
  ASSUME SalesInv, RollupsInv, ProductsInv, NEW j \in Jobs,
         \/ AggregatePendingEvents(j) \/ SelectRollup(j) \/ UpsertRollup(j)
         \/ SelectProducts(j) \/ AbortJob(j)
  PROVE  ProductsInv'
<1>0. UNCHANGED <<tables, today>>
  BY DEF AggregatePendingEvents, SelectRollup, UpsertRollup, SelectProducts, AbortJob, world
<1>1. Idle \in Job /\ Sells(Idle) /\ job[j] \in Job /\ Sells(job[j])
  BY DEF Idle, Job, Sells, ProductsInv
<1>2. Numbers \subseteq 1..MaxEvents /\ stored \subseteq Numbers
  BY NumbersBounded DEF SalesInv, ProductsInv, RollupsInv, TableTypes
<1>3. CASE AggregatePendingEvents(j)
  <2>1. PICK todo \in Oldest(PendingBuckets) : PutJob(j, [pc |-> "select", todo |-> todo])
    BY <1>3 DEF AggregatePendingEvents
  <2> DEFINE q == [pc |-> "select", todo |-> todo]
  <2>2. todo \subseteq Buckets
    BY PendingKnown DEF Oldest
  <2>3. q \in Job /\ q.pc = "select" /\ PutJob(j, q)
    BY <2>1, <2>2 DEF Job
  <2> HIDE DEF q
  <2> QED  BY <1>0, <2>3, OneJob DEF PutJob, Sells
<1>4. CASE SelectRollup(j)
  <2>1. PICK b \in job[j].todo :
          PutJob(j, [pc |-> "upsert", todo |-> job[j].todo \ {b}, bucket |-> b,
                     seen |-> Rolled(b), lines |-> {}])
    BY <1>4 DEF SelectRollup
  <2> DEFINE q == [pc |-> "upsert", todo |-> job[j].todo \ {b}, bucket |-> b,
                   seen |-> Rolled(b), lines |-> {}]
  <2>2. job[j].pc = "select"
    BY <1>4 DEF SelectRollup
  <2>3. b \in Buckets /\ job[j].todo \subseteq Buckets
    BY <1>1, <2>2, JobShape
  <2>4. Rolled(b) \subseteq stored
    BY DEF Rolled, InBucket
  <2>5. q \in Job /\ q.pc = "upsert" /\ q.seen = Rolled(b) /\ q.lines = {} /\ PutJob(j, q)
    BY <1>2, <2>1, <2>3, <2>4 DEF Job
  <2> HIDE DEF q
  <2> QED  BY <1>0, <2>4, <2>5, OneJob DEF PutJob, Sells
<1>5. CASE UpsertRollup(j)
  <2> DEFINE q == [job[j] EXCEPT !.pc = "products"]
  <2>1. job[j].pc = "upsert" /\ job' = [job EXCEPT ![j] = q]
    BY <1>5 DEF UpsertRollup, ProductsInv
  <2>2. q \in Job /\ q.pc = "products" /\ q.seen = job[j].seen /\ q.bucket = job[j].bucket /\ q.lines = job[j].lines
    BY <1>1, <2>1 DEF Job, Idle
  <2> HIDE DEF q
  <2> QED  BY <1>0, <1>1, <2>1, <2>2, OneJob DEF Sells
<1>6. CASE SelectProducts(j)
  <2> DEFINE b == job[j].bucket
             L == Lines(Selling(b))
  <2>1. job[j].pc = "products"
    BY <1>6 DEF SelectProducts
  <2>2. CASE job' = [job EXCEPT ![j] = Idle]
    BY <1>0, <1>1, <2>2, OneJob
  <2>3. ASSUME NEW rows \in Highest(ByProduct(L), TopLimit),
               job' = [job EXCEPT ![j].pc = "finish", ![j].lines = UNION rows]
        PROVE  ProductsInv'
    <3> DEFINE q == [job[j] EXCEPT !.pc = "finish", !.lines = UNION rows]
    <3>1. job' = [job EXCEPT ![j] = q]
      BY <2>3 DEF ProductsInv
    <3>2. Selling(b) \subseteq stored /\ Selling(b) \subseteq Numbers
      BY <1>2 DEF Selling, InBucket
    <3>3. L \subseteq Lines(Numbers)
      BY <3>2, FewerLines
    <3>4. rows \in SUBSET SUBSET L
      BY DEF Highest, ByProduct
    <3>5. UNION rows \subseteq Lines(Numbers)
      BY <3>3, <3>4
    <3> HIDE DEF L
    <3>6. q \in Job /\ q.pc = "finish" /\ q.seen = job[j].seen /\ q.bucket = b /\ q.lines = UNION rows
      <4>1. job[j] \in [pc : {"upsert", "products", "finish"}, todo : SUBSET Buckets, bucket : Buckets,
                         seen : SUBSET (1..MaxEvents), lines : SUBSET ((1..MaxEvents) \X Nat)]
        BY <1>1, <2>1 DEF Job, Idle
      <4>2. UNION rows \in SUBSET ((1..MaxEvents) \X Nat)
        BY <3>5, LinesBounded DEF SalesInv, ProductsInv
      <4>3. q \in Job
        BY <4>1, <4>2 DEF Job
      <4> QED  BY <4>1, <4>3
    <3> HIDE DEF q
    <3>7. q.seen \subseteq stored => Listed(Ordered(q.seen), q.lines)
      <4> SUFFICES ASSUME q.seen \subseteq stored PROVE Listed(Ordered(q.seen), q.lines)
        OBVIOUS
      <4>1. OfBucket(job[j].seen, b)
        BY <2>1 DEF RollupsInv, Read
      <4>2. Ordered(q.seen) \subseteq Selling(b)
        BY <3>6, <4>1 DEF Ordered, OfBucket, Selling, InBucket, ProductsInv, Dated
      <4>3. Lines(Ordered(q.seen)) \subseteq L
        BY <4>2, FewerLines DEF L
      <4>4. rows \in SUBSET SUBSET Lines(Numbers)
        BY <3>3, <3>4
      <4> QED  BY <2>3, <3>3, <3>6, <4>3, <4>4 DEF Listed
    <3>8. Sells(q)
      BY <1>1, <2>1, <3>5, <3>6, <3>7 DEF Sells
    <3> QED  BY <1>0, <3>1, <3>6, <3>8, OneJob
  <2> QED  BY <1>6, <2>2, <2>3 DEF SelectProducts, PutJob
<1>7. CASE AbortJob(j)
  BY <1>0, <1>1, <1>7, OneJob DEF AbortJob, PutJob
<1> QED  BY <1>3, <1>4, <1>5, <1>6, <1>7

LEMMA FinishProducts ==
  ASSUME SalesInv, RollupsInv, ProductsInv, NEW j \in Jobs, FinishBucket(j)
  PROVE  ProductsInv'
<1> DEFINE b == job[j].bucket
           seen == job[j].seen
           lines == job[j].lines
           q == Continued(job[j].todo)
<1>1. /\ job[j].pc = "finish" /\ rollup' = [rollup EXCEPT ![b] = seen]
      /\ top' = [top EXCEPT ![b] = lines] /\ counted' = counted \cup seen
      /\ job' = [job EXCEPT ![j] = q]
      /\ event' = event /\ stored' = stored /\ raced' = raced /\ today' = today
  BY DEF FinishBucket, PutJob, world
<1>2. job[j] \in Job /\ Sells(job[j])
  BY DEF ProductsInv
<1>3. seen \subseteq Numbers /\ lines \subseteq Lines(Numbers) /\ b \in Buckets /\ job[j].todo \subseteq Buckets
  BY <1>1, <1>2, JobShape DEF RollupsInv, Read, OfBucket, Sells
<1>4. Past(b[2], RawDays) \/ Listed(Ordered(seen), lines)
  BY <1>1, <1>2 DEF Sells
<1>5. q \in Job /\ q.pc \in {"idle", "select"}
  BY <1>3 DEF Continued, Idle, Job
<1> HIDE DEF q
<1>6. Sells(q)
  BY <1>5 DEF Sells
<1> HIDE DEF b, seen, lines
<1>7. job' \in [Jobs -> Job] /\ \A k \in Jobs : job'[k] = job[k] \/ Sells(job'[k])
  BY <1>1, <1>5, <1>6 DEF ProductsInv
<1>8. top' \in [Buckets -> SUBSET Lines(Numbers)]
  BY <1>1, <1>3 DEF ProductsInv
<1>9. \A x \in Buckets : \/ rollup'[x] = None \/ Past(x[2], RawDays)
                         \/ rollup'[x] = rollup[x] /\ top'[x] = top[x]
                         \/ Listed(Ordered(rollup'[x]), top'[x])
  <2>1. \A x \in Buckets : x # b => rollup'[x] = rollup[x] /\ top'[x] = top[x]
    BY <1>1 DEF RollupsInv, TableTypes, ProductsInv
  <2>2. rollup'[b] = seen /\ top'[b] = lines
    BY <1>1, <1>3 DEF RollupsInv, TableTypes, ProductsInv
  <2> QED  BY <1>4, <2>1, <2>2
<1>10. today \in Nat /\ today \in Days
  BY DEF SalesInv, EventTypes, ProductsInv, Dated
<1> QED  BY <1>1, <1>3, <1>7, <1>8, <1>9, <1>10, NoEvent DEF ProductsInv

LEMMA DeletesProducts ==
  ASSUME SalesInv, RollupsInv, ProductsInv, DeleteEvents \/ DeleteRollups \/ DeleteTopProducts
  PROVE  ProductsInv'
<1>1. /\ event' = event /\ counted' = counted /\ raced' = raced /\ job' = job /\ today' = today
  BY DEF DeleteEvents, DeleteRollups, DeleteTopProducts, world
<1>2. today \in Nat /\ today \in Days
  BY DEF SalesInv, EventTypes, ProductsInv, Dated
<1>3. \A b \in Buckets : Past(b[2], RollupDays) => Past(b[2], RawDays)
  BY <1>2, BucketParts, RetentionAssumption DEF Past
<1>4. CASE DeleteEvents
  <2>1. stored' = stored \ Expired /\ rollup' = rollup /\ top' = top
    BY <1>4 DEF DeleteEvents
  <2>2. \A i \in stored \ stored' : Past(event[i].day, RawDays)
    BY <2>1 DEF Expired
  <2> QED  BY <1>1, <1>2, <2>1, <2>2, NoEvent DEF ProductsInv
<1>5. CASE DeleteRollups
  <2>1. stored' = stored /\ top' = top /\ \A b \in Buckets : rollup'[b] = None \/ rollup'[b] = rollup[b]
    BY <1>5 DEF DeleteRollups
  <2> QED  BY <1>1, <1>2, <2>1, NoEvent DEF ProductsInv
<1>6. CASE DeleteTopProducts
  <2>1. /\ stored' = stored /\ rollup' = rollup
        /\ top' = [b \in Buckets |-> IF Past(b[2], RollupDays) THEN {} ELSE top[b]]
    BY <1>6 DEF DeleteTopProducts
  <2>2. top' \in [Buckets -> SUBSET Lines(Numbers)]
    BY <2>1 DEF ProductsInv
  <2>3. \A b \in Buckets : Past(b[2], RawDays) \/ (rollup'[b] = rollup[b] /\ top'[b] = top[b])
    BY <1>3, <2>1
  <2> QED  BY <1>1, <1>2, <2>1, <2>2, <2>3, NoEvent DEF ProductsInv
<1> QED  BY <1>4, <1>5, <1>6

LEMMA ProductsStep == ASSUME SalesInv, RollupsInv, ProductsInv, [Next]_vars PROVE ProductsInv'
<1>0. today \in Nat /\ today \in Days
  BY DEF SalesInv, EventTypes, ProductsInv, Dated
<1>1. ASSUME NEW t \in Tenants, StorefrontEvent(t) \/ SetupEvent(t) PROVE ProductsInv'
  <2>1. job' = job /\ today' = today
    BY <1>1 DEF StorefrontEvent, SetupEvent, jobs, world
  <2>2. \E kind \in Kinds : RecordEvent(t, kind, None, 0, <<>>)
    BY <1>1, FrontAssumption DEF StorefrontEvent, SetupEvent, Kinds
  <2> QED  BY <2>1, <2>2, RecordProducts, ZeroAmount
<1>2. ASSUME NEW o \in Orders, StartCheckout(o) PROVE ProductsInv'
  <2>1. EventTypes
    BY DEF SalesInv
  <2>2. PICK t \in Tenants : RecordEvent(t, "checkout_started", None, 0, <<>>) /\ job' = job /\ today' = today
    BY <1>2, <2>1, StartTypes
  <2> QED  BY <2>2, RecordProducts, ZeroAmount DEF Kinds
<1>3. ASSUME NEW o \in Orders, RecordSale(o) PROVE ProductsInv'
  <2> DEFINE p == request[o]
  <2>1. p.pc = "sale" /\ job' = job /\ today' = today
        /\ RecordEvent(p.tenant, "checkout_completed", o, p.total, ItemsOf(p.cart))
    BY <1>3 DEF RecordSale, OrderOf, jobs, world
  <2>2. p \in Underway
    BY <2>1, Typed DEF SalesInv
  <2>3. p.tenant \in Tenants /\ p.total \in Amounts /\ ItemsOf(p.cart) \in Seq(Item)
        /\ "checkout_completed" \in Kinds /\ o \in Orders \cup {None}
    BY <2>2, CartItems DEF Underway, Kinds
  <2> QED  BY <2>1, <2>3, RecordProducts
<1>4. ASSUME NEW o \in Orders,
             \/ ValidateCart(o) \/ SelectShippingRate(o) \/ AuthorizePayment(o)
             \/ CapturePayment(o) \/ RefuseSale(o) \/ CutOff(o)
      PROVE  UNCHANGED <<tables, job, today>>
  BY <1>4 DEF ValidateCart, SelectShippingRate, AuthorizePayment, CapturePayment, RefuseSale, CutOff,
              analyticsVars, jobs, world
<1>5. ASSUME UNCHANGED <<tables, job>>, today' \in Days, today <= today' PROVE ProductsInv'
  BY <1>5, NoEvent DEF ProductsInv, tables
<1>6. CASE \/ \E t \in Tenants : ChangeStatus(t)
           \/ EnforceRetentionPolicies
  <2>1. UNCHANGED <<tables, job, today>>
    BY <1>6 DEF ChangeStatus, EnforceRetentionPolicies, jobs, world
  <2> QED  BY <1>0, <1>5, <2>1
<1>7. CASE NextDay
  <2>1. UNCHANGED <<tables, job>> /\ today' = today + 1 /\ today < MaxDays
    BY <1>7 DEF NextDay, jobs
  <2> QED  BY <1>0, <1>5, <2>1, BoundsAssumption DEF Days
<1>8. ASSUME NEW j \in Jobs, Aggregation(j) \/ AbortJob(j) PROVE ProductsInv'
  BY <1>8, AggregationProducts, FinishProducts DEF Aggregation
<1>9. CASE AnalyticsNext
  BY <1>1, <1>6, <1>7, <1>8, <1>9, DeletesProducts DEF AnalyticsNext
<1>10. ASSUME UNCHANGED <<tables, job, today>> PROVE ProductsInv'
  BY <1>0, <1>5, <1>10
<1>11. CASE CheckoutNext
  BY <1>2, <1>3, <1>4, <1>10, <1>11 DEF CheckoutNext
<1>12. CASE UNCHANGED vars
  BY <1>10, <1>12 DEF vars, analyticsVars, jobs, world
<1> QED  BY <1>9, <1>11, <1>12 DEF Next

LEMMA ProductsInit == Init => ProductsInv
<1> SUFFICES ASSUME Init PROVE ProductsInv
  OBVIOUS
<1>1. /\ event = <<>> /\ counted = {} /\ raced = {} /\ rollup = [b \in Buckets |-> None]
      /\ top = [b \in Buckets |-> {}] /\ job = [j \in Jobs |-> Idle] /\ today = 1
  BY DEF Init, AnalyticsInit
<1>2. Len(event) = 0 /\ Numbers = {}
  BY <1>1 DEF Numbers
<1>3. Dated
  BY <1>1, <1>2, BoundsAssumption DEF Dated, Days
<1>4. Idle \in Job /\ Idle.pc = "idle"
  BY DEF Idle, Job
<1> HIDE DEF Idle
<1>5. \A j \in Jobs : Sells(job[j])
  BY <1>1, <1>4 DEF Sells
<1> QED  BY <1>1, <1>3, <1>4, <1>5 DEF ProductsInv
-----------------------------------------------------------------------------
LEMMA CapturesStep == ASSUME SalesInv, CapturesKnown, [Next]_vars PROVE CapturesKnown'
<1>1. ASSUME charge' = charge PROVE CapturesKnown'
  BY <1>1 DEF CapturesKnown
<1>2. charge = [x \in Orders |-> charge[x]]
  BY DEF SalesInv, CheckoutTypes
<1>3. ASSUME NEW o \in Orders, Charged(o) PROVE CapturesKnown'
  BY <1>2, <1>3 DEF Charged, CapturesKnown
<1>4. ASSUME NEW o \in Orders, AuthorizePayment(o) \/ CutOff(o) PROVE CapturesKnown'
  BY <1>1, <1>3, <1>4 DEF AuthorizePayment, CutOff
<1>5. ASSUME NEW o \in Orders, CapturePayment(o) PROVE CapturesKnown'
  <2>1. charge[o].known
    BY <1>5 DEF CapturePayment, SalesInv, AllAccounted, Accounted
  <2>2. PICK v \in BOOLEAN : charge' = [charge EXCEPT ![o].captured = v]
    BY <1>5 DEF CapturePayment
  <2>3. charge'[o].known = charge[o].known /\ \A x \in Orders \ {o} : charge'[x] = charge[x]
    BY <1>2, <2>2 DEF SalesInv, CheckoutTypes, Charge
  <2> QED  BY <2>1, <2>3 DEF CapturesKnown
<1>6. CASE CheckoutNext
  BY <1>1, <1>4, <1>5, <1>6 DEF CheckoutNext, StartCheckout, ValidateCart, SelectShippingRate, RecordSale, RefuseSale
<1> QED  BY <1>1, <1>6 DEF Next, vars

LEMMA CapturesInit == Init => CapturesKnown
BY DEF Init, NotCharged, CapturesKnown
-----------------------------------------------------------------------------
Inv == SalesInv /\ RollupsInv /\ ProductsInv /\ CapturesKnown

LEMMA InitInv == Init => Inv
BY SalesInit, RollupsInit, ProductsInit, CapturesInit DEF Inv

LEMMA NextInv == Inv /\ [Next]_vars => Inv'
BY SalesStep, RollupsStep, ProductsStep, CapturesStep DEF Inv

\* What the reports say of one day.
LEMMA ReportsAgree == ASSUME Inv PROVE OrdersHaveProducts
<1> SUFFICES ASSUME NEW t \in Tenants, NEW d \in Days, NEW limit \in Limits,
                    rollup[<<t, d>>] # None, ~Past(d, RawDays),
                    NEW report \in GetTopProducts(t, d, d, limit),
                    NEW sold \in ByProduct(Lines(Ordered(rollup[<<t, d>>])))
             PROVE  \/ \E row \in report : sold \subseteq row
                    \/ /\ Cardinality(report) = Least(Clamped(limit), TopLimit)
                       /\ \A row \in report : Gmv(sold) <= Gmv(row)
  BY DEF OrdersHaveProducts
<1> DEFINE b == <<t, d>>
<1>1. b \in Buckets /\ b[2] = d /\ d \in Nat
  BY BoundsAssumption DEF Buckets, Days
<1>2. d..d = {d}
  BY <1>1
<1>3. report \in Highest(ByProduct(top[b]), Clamped(limit))
  <2>1. UNION {top[<<t, n>>] : n \in d..d} = top[b]
    BY <1>2
  <2> QED  BY <2>1 DEF GetTopProducts
<1>4. Listed(Ordered(rollup[b]), top[b]) /\ EventTypes
  BY <1>1 DEF Inv, SalesInv, ProductsInv
<1>5. Clamped(limit) \in Nat
  BY LimitAssumption DEF Clamped, Least
<1> QED  BY <1>3, <1>4, <1>5, ReportCovers

\* The reports miss nothing that was processed and agree with each other:
\* with any number of events and days, and both jobs at once.
THEOREM ReportsTrue == Spec => []ReportsAreTrue
<1>1. Inv => ReportsAreTrue
  BY ReportsAgree DEF Inv, RollupsInv, ReportsAreTrue
<1> QED  BY <1>1, InitInv, NextInv, PTL DEF Spec
-----------------------------------------------------------------------------
(* Totals are numbers.                                                     *)

LEMMA Elements == ASSUME NEW E, NEW s \in Seq(E) PROVE Len(s) \in Nat /\ \A n \in 1..Len(s) : s[n] \in E
OBVIOUS

\* A subtotal is a number.
LEMMA SubtotalIs == ASSUME NEW cart \in Seq(Item) PROVE Subtotal(cart) \in Nat
<1>1. Len(cart) \in Nat /\ \A n \in 1..Len(cart) : cart[n] \in Item
  BY Elements
<1> DEFINE N == 1..Len(cart)
           v == [n \in N |-> cart[n].quantity * cart[n].price]
<1>2. IsFiniteSet(N)
  <2>1. 1 \in Int /\ Len(cart) \in Int
    BY <1>1
  <2> QED  BY <2>1, FS_Interval
<1>3. v \in [N -> Nat]
  <2>1. \A q \in Nat, p \in Nat : q * p \in Nat
    OBVIOUS
  <2> QED  BY <1>1, <2>1 DEF Item
<1>4. Subtotal(cart) = SumFunction(v)
  BY DEF Subtotal
<1> HIDE DEF N, v
<1>5. N \in SUBSET N
  OBVIOUS
<1> QED  BY <1>2, <1>3, <1>4, <1>5, SumLess

LEMMA TotalIs == ASSUME NEW cart \in Carts, NEW rate \in Nat PROVE Total(cart, rate) \in Nat
<1>1. Subtotal(cart) \in Nat /\ TaxPercent \in Nat
  BY CartAssumption, SubtotalIs
<1> DEFINE taxable == Subtotal(cart) + rate
<1>2. taxable \in Nat
  BY <1>1
<1> HIDE DEF taxable
<1>3. taxable * TaxPercent + 100 \in Nat
  BY <1>1, <1>2
<1>4. (taxable * TaxPercent + 100) \div 200 \in Nat
  BY <1>3
<1>5. TaxTotal(taxable) \in Nat
  BY <1>4 DEF TaxTotal
<1> QED  BY <1>2, <1>5 DEF Total, taxable

LEMMA AmountsAre == Amounts \subseteq Nat
BY TotalIs DEF Amounts

\* Events, transactions, requests and charges are always what the code builds.
THEOREM TypeCorrect == Spec => []TypeOK
<1>1. ASSUME Inv PROVE TypeOK
  <2>1. event \in Seq(Event)
    <3>1. event \in Seq(Recorded) /\ \A i \in 1..Len(event) : event[i].day \in Days
      BY <1>1 DEF Inv, SalesInv, EventTypes, ProductsInv, Dated, Numbers
    <3>2. \A i \in 1..Len(event) : event[i] \in Recorded
      BY <3>1
    <3>3. \A e \in Recorded : e.day \in Days => e \in Event
      BY AmountsAre DEF Recorded, Event
    <3>4. \A i \in 1..Len(event) : event[i] \in Event
      BY <3>1, <3>2, <3>3
    <3>5. event = [i \in 1..Len(event) |-> event[i]] /\ Len(event) \in Nat
      BY <3>1
    <3> QED  BY <3>4, <3>5
  <2>2. /\ pending \subseteq stored /\ stored \subseteq Numbers
        /\ rollup \in [Buckets -> (SUBSET Numbers) \cup {None}]
    <3>1. \A b \in Buckets : rollup[b] \in (SUBSET Numbers) \cup {None}
      BY <1>1 DEF Inv, RollupsInv, OfBucket
    <3>2. rollup = [b \in Buckets |-> rollup[b]]
      BY <1>1 DEF Inv, RollupsInv, TableTypes
    <3> QED  BY <1>1, <3>1, <3>2 DEF Inv, RollupsInv, TableTypes
  <2>3. request \in [Orders -> Request]
    <3>1. Underway \cup {New} \subseteq Request
      BY AmountsAre DEF Underway, Request
    <3> QED  BY <1>1, <3>1 DEF Inv, SalesInv, CheckoutTypes
  <2>4. /\ top \in [Buckets -> SUBSET Lines(Numbers)] /\ today \in Days /\ active \subseteq Tenants
        /\ job \in [Jobs -> Job] /\ counted \subseteq Numbers /\ raced \subseteq Numbers
        /\ \A o \in Orders : charge[o].captured => charge[o].known
    BY <1>1 DEF Inv, SalesInv, EventTypes, ProductsInv, Dated, CapturesKnown
  <2>5. \A j \in Jobs : job[j].pc = "finish" => job[j].lines \subseteq Lines(Numbers)
    BY <1>1 DEF Inv, ProductsInv, Sells
  <2> QED  BY <2>1, <2>2, <2>3, <2>4, <2>5 DEF TypeOK
<1> QED  BY <1>1, InitInv, NextInv, PTL DEF Spec
=============================================================================
