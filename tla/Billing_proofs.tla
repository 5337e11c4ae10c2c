---------------------------- MODULE Billing_proofs ----------------------------
(***************************************************************************)
(* Usage and the end of the grace, for any requests, limits, periods and   *)
(* days.  A call carries what it has read over the statements of others:   *)
(* the invariant says of each call what it may still rely on, and that     *)
(* no two calls are about to write transitions of different kinds.         *)
(* Then the apps: the installations let through, and the keys rotated.     *)
(***************************************************************************)
EXTENDS Billing, FiniteSetTheorems, TLAPS

Types == /\ account \in Account \cup {NoAccount}
         /\ usage \in [Periods -> Nat \cup {NoRow}]
         /\ charged \in [Periods -> Nat]
         /\ now \in 0..MaxTime
         /\ call \in [Jobs -> Call]

\* The account has left its trial on this day, or is about to.
Fresh == \/ account.status \in {"trialing", "active"}
         \/ account.status \in {"past_due", "grace_period"} /\ account.graceEnds = now + GraceDays

\* What a call has read is of an account that is still there, and the sum
\* it is going to write is that of its events at least.
Reads(c) ==
  /\ c.pc \in {"read", "transit", "reread", "count", "usage", "charge", "write"} => account \in Account
  /\ c.pc \in {"transit", "usage", "charge"} => c.seen \in Account
  /\ c.pc = "charge" => /\ Quantity(c.used) + c.quantity <= MeterLimit
                        /\ Quantity(c.used) <= charged[c.seen.period]

\* A transition about to be written is still due, or harmless.
Transits(c) == c.pc = "transit" =>
  IF c.seen.status = "trialing" THEN TrialOver(c.seen) /\ Fresh
  ELSE GraceOver(c.seen) /\ account.status # "trialing"

\* A request that came after the grace is on its way to be refused.
Due(c) == c.due =>
  /\ account \in Account
  /\ c.pc \notin {"create", "count", "usage", "charge"}
  /\ c.pc \in {"ensure", "read"} => Lapsed
  /\ c.pc = "transit" => c.seen.status # "trialing"
  /\ c.pc = "reread" => account.status = "suspended"

\* Transitions of one kind only.
Alike(c, d) == c.pc = "transit" /\ d.pc = "transit"
                 => (c.seen.status = "trialing") = (d.seen.status = "trialing")

Fits(c) == Reads(c) /\ Transits(c) /\ Due(c)

IInv == /\ Types
        /\ UsageBounded
        /\ \A j \in Jobs : Fits(call[j])
        /\ \A i, j \in Jobs : Alike(call[i], call[j])
-----------------------------------------------------------------------------
LEMMA Numbers ==
  ASSUME Types
  PROVE  /\ now \in Nat /\ now <= MaxTime /\ MaxTime \in Nat /\ TrialDays \in Nat
         /\ GraceDays \in Nat /\ GraceDays > 0 /\ MeterLimit \in Nat
         /\ NoDate \notin Nat /\ NoRow \notin Nat
<1>1. MaxTime \in Nat /\ TrialDays \in Nat /\ MeterLimit \in Nat
  BY BillingAssumption
<1>2. GraceDays \in Nat \ {0}
  BY BillingAssumption
<1>3. NoDate \notin Nat /\ NoRow \notin Nat
  BY NothingAssumption
<1> QED  BY <1>1, <1>2, <1>3 DEF Types

\* The period of a day that comes.
LEMMA PeriodOfNow == ASSUME Types PROVE Period(now) \in Periods
<1>1. now \in Nat /\ MaxTime \in Nat /\ now <= MaxTime /\ MonthDays \in Nat /\ MonthDays > 0
  <2>1. MonthDays \in Nat \ {0}
    BY BillingAssumption
  <2> QED  BY <2>1, Numbers
<1>2. now \div MonthDays \in Nat /\ MaxTime \div MonthDays \in Nat
      /\ now \div MonthDays <= MaxTime \div MonthDays
  BY <1>1
<1> QED  BY <1>2 DEF Periods, Period

LEMMA AccountFields ==
  ASSUME NEW a \in Account
  PROVE  /\ a.status \in Statuses /\ a.trialEnds \in Nat /\ a.period \in Periods
         /\ a.graceEnds \in Nat \cup {NoDate}
BY BillingAssumption DEF Account, Days

LEMMA CallFields ==
  ASSUME NEW c \in Call
  PROVE  /\ c.quantity \in Nat /\ c.used \in Nat \cup {NoRow}
         /\ c.due \in BOOLEAN /\ c.after \in BOOLEAN /\ Quantity(c.used) \in Nat
BY BillingAssumption DEF Call, Quantity

LEMMA IdleFits == IdleCall \in Call /\ IdleCall.pc = "idle" /\ ~IdleCall.due
BY BillingAssumption DEF IdleCall, Call, BillingOps

LEMMA InitInv == Init => IInv
<1> SUFFICES ASSUME Init PROVE IInv
  OBVIOUS
<1>1. account = NoAccount /\ usage = [p \in Periods |-> NoRow] /\ charged = [p \in Periods |-> 0]
      /\ now = 0 /\ call = [j \in Jobs |-> IdleCall]
  BY DEF Init
<1>2. MaxTime \in Nat /\ MeterLimit \in Nat
  BY BillingAssumption
<1>3. IdleCall \in Call /\ IdleCall.pc = "idle" /\ ~IdleCall.due
  BY IdleFits
<1> HIDE DEF IdleCall
<1>4. Types
  BY <1>1, <1>2, <1>3 DEF Types
<1>5. UsageBounded
  BY <1>1, <1>2 DEF UsageBounded, Quantity
<1>6. \A j \in Jobs : Fits(call[j])
  BY <1>1, <1>3 DEF Fits, Reads, Transits, Due
<1>7. \A i, j \in Jobs : Alike(call[i], call[j])
  BY <1>1, <1>3 DEF Alike
<1> QED  BY <1>4, <1>5, <1>6, <1>7 DEF IInv
-----------------------------------------------------------------------------
(* Steps that leave the tables alone.                                      *)

\* One call goes on.
LEMMA OneCall ==
  ASSUME IInv, NEW j \in Jobs, NEW c \in Call, Fits(c), Alike(c, c),
         \A i \in Jobs : Alike(c, call[i]),
         call' = [call EXCEPT ![j] = c],
         account' = account, usage' = usage, charged' = charged, now' = now
  PROVE  IInv'
<1>1. call' \in [Jobs -> Call] /\ call'[j] = c /\ \A i \in Jobs \ {j} : call'[i] = call[i]
  BY DEF IInv, Types
<1>2. Types'
  BY <1>1 DEF IInv, Types
<1>3. UsageBounded'
  BY DEF IInv, UsageBounded, Quantity
<1>4. \A i \in Jobs : Fits(call'[i])
  BY <1>1 DEF IInv
<1>5. \A i \in Jobs : (Fits(call[i]))'
  BY <1>4 DEF Fits, Reads, Transits, Due, Lapsed, Fresh, TrialOver, GraceOver, Quantity
<1>6. \A i, k \in Jobs : Alike(call'[i], call'[k])
  BY <1>1 DEF IInv, Alike
<1> QED  BY <1>2, <1>3, <1>5, <1>6 DEF IInv, Alike

\* A call returns.
LEMMA ReturnInv ==
  ASSUME IInv, NEW j \in Jobs, Return(j), account' = account, usage' = usage, charged' = charged, now' = now
  PROVE  IInv'
<1>1. Fits(IdleCall) /\ \A c : Alike(IdleCall, c)
  BY IdleFits DEF Fits, Reads, Transits, Due, Alike
<1>2. IdleCall \in Call
  BY IdleFits
<1> HIDE DEF IdleCall
<1> QED  BY <1>1, <1>2, OneCall DEF Return, Put

\* Other requests, and a request that comes.
LEMMA StartInv ==
  ASSUME IInv, NEW j \in Jobs, NEW op \in BillingOps, NEW quantity \in Quantities,
         Start(j, op, quantity), account' = account, usage' = usage, charged' = charged, now' = now
  PROVE  IInv'
<1> DEFINE c == [IdleCall EXCEPT !.pc = "ensure", !.op = op, !.quantity = quantity, !.due = Lapsed]
<1>1. Lapsed \in BOOLEAN
  BY DEF Lapsed
<1>2. c \in Call /\ c.pc = "ensure" /\ c.due = Lapsed
  BY <1>1, BillingAssumption DEF Call, IdleCall, BillingOps
<1>3. call' = [call EXCEPT ![j] = c]
  BY DEF Start, Put
<1> HIDE DEF c
<1>4. Lapsed => account \in Account
  BY DEF Lapsed, IInv, Types
<1>5. Fits(c) /\ \A d : Alike(c, d)
  BY <1>2, <1>4 DEF Fits, Reads, Transits, Due, Alike
<1> QED  BY <1>2, <1>3, <1>5, OneCall

\* A call that only moves on, keeping what it is.
LEMMA GotoInv ==
  ASSUME IInv, NEW j \in Jobs, call[j].pc # "idle",
         NEW pc \in {"create", "read", "reread", "count", "write"}, Goto(j, pc),
         pc = "create" => ~call[j].due, pc = "count" => ~call[j].due,
         pc # "create" => account \in Account,
         call[j].due /\ pc = "read" => Lapsed,
         call[j].due /\ pc = "reread" => account.status = "suspended",
         account' = account, usage' = usage, charged' = charged, now' = now
  PROVE  IInv'
<1> DEFINE c == [call[j] EXCEPT !.pc = pc, !.seen = NoAccount]
<1>1. call[j] \in Call
  BY DEF IInv, Types
<1>2. c \in Call /\ c.pc = pc /\ c.due = call[j].due
  BY <1>1 DEF Call
<1>3. call' = [call EXCEPT ![j] = c]
  BY DEF Goto, Put
<1> HIDE DEF c
<1>4. call[j].due => account \in Account
  BY DEF IInv, Fits, Due
<1>5. Fits(c) /\ \A d : Alike(c, d)
  BY <1>2, <1>4 DEF Fits, Reads, Transits, Due, Alike
<1> QED  BY <1>2, <1>3, <1>5, OneCall

LEMMA FindAccountInv == ASSUME IInv, NEW j \in Jobs, FindAccount(j) PROVE IInv'
<1>1. call[j].pc = "ensure" /\ Goto(j, IF account = NoAccount THEN "create" ELSE "read")
      /\ account' = account /\ usage' = usage /\ charged' = charged /\ now' = now
  BY DEF FindAccount, unbilled
<1>2. call[j].due => account \in Account /\ Lapsed
  BY <1>1 DEF IInv, Fits, Due
<1>3. CASE account = NoAccount
  BY <1>1, <1>2, <1>3, GotoInv DEF Lapsed
<1>4. CASE account # NoAccount
  <2>1. account \in Account
    BY <1>4 DEF IInv, Types
  <2> QED  BY <1>1, <1>2, <1>4, <2>1, GotoInv
<1> QED  BY <1>3, <1>4

LEMMA ReadAccountInv == ASSUME IInv, NEW j \in Jobs, ReadAccount(j) PROVE IInv'
<1>1. call[j].pc = "read" /\ account' = account /\ usage' = usage /\ charged' = charged /\ now' = now
  BY DEF ReadAccount, unbilled
<1>2. account \in Account /\ (call[j].due => Lapsed)
  BY <1>1 DEF IInv, Fits, Reads, Due
<1>3. account.status \in Statuses /\ account.graceEnds \in Nat \cup {NoDate}
  BY <1>2, AccountFields
<1>4. CASE Transition(account) = account.status
  <2>1. Goto(j, "reread")
    BY <1>4 DEF ReadAccount
  <2>2. call[j].due => account.status = "suspended"
    BY <1>2, <1>4 DEF Lapsed, Transition, GraceOver, TrialOver
  <2> QED  BY <1>1, <1>2, <2>1, <2>2, GotoInv
<1>5. CASE Transition(account) # account.status
  <2> DEFINE c == [call[j] EXCEPT !.pc = "transit", !.seen = account]
  <2>1. call[j] \in Call
    BY DEF IInv, Types
  <2>2. c \in Call /\ c.pc = "transit" /\ c.seen = account /\ c.due = call[j].due
    BY <1>2, <2>1 DEF Call
  <2>3. call' = [call EXCEPT ![j] = c]
    BY <1>5 DEF ReadAccount, Put
  <2> HIDE DEF c
  <2>4. TrialOver(account) \/ GraceOver(account)
    BY <1>5 DEF Transition
  <2>5. account.status = "trialing" => TrialOver(account) /\ Fresh /\ ~Lapsed
    BY <1>2, <2>4 DEF GraceOver, Fresh, Lapsed
  <2>6. account.status # "trialing" => GraceOver(account)
    BY <2>4 DEF TrialOver
  <2>7. Fits(c)
    BY <1>2, <2>2, <2>5, <2>6 DEF Fits, Reads, Transits, Due
  <2>8. ASSUME NEW i \in Jobs, call[i].pc = "transit"
        PROVE  (account.status = "trialing") = (call[i].seen.status = "trialing")
    <3>1. Transits(call[i])
      BY DEF IInv, Fits
    <3>2. CASE call[i].seen.status = "trialing"
      <4>1. Fresh
        BY <2>8, <3>1, <3>2 DEF Transits
      <4>2. now \in Nat /\ GraceDays \in Nat /\ GraceDays > 0 /\ NoDate \notin Nat
        BY Numbers DEF IInv
      <4>3. ~GraceOver(account)
        BY <4>1, <4>2 DEF Fresh, GraceOver
      <4> QED  BY <2>6, <3>2, <4>3
    <3>3. CASE call[i].seen.status # "trialing"
      BY <2>8, <3>1, <3>3 DEF Transits
    <3> QED  BY <3>2, <3>3
  <2>9. \A i \in Jobs : Alike(c, call[i])
    BY <2>2, <2>8 DEF Alike
  <2>10. Alike(c, c)
    BY DEF Alike
  <2> QED  BY <1>1, <2>2, <2>3, <2>7, <2>9, <2>10, OneCall
<1> QED  BY <1>4, <1>5

LEMMA RereadAccountInv == ASSUME IInv, NEW j \in Jobs, RereadAccount(j) PROVE IInv'
<1>1. call[j].pc = "reread" /\ account' = account /\ usage' = usage /\ charged' = charged /\ now' = now
  BY DEF RereadAccount, unbilled
<1>2. account \in Account /\ (call[j].due => account.status = "suspended")
  BY <1>1 DEF IInv, Fits, Reads, Due
<1>3. CASE Return(j)
  BY <1>1, <1>3, ReturnInv
<1>4. CASE Goto(j, "count") /\ account.status # "suspended"
  BY <1>1, <1>2, <1>4, GotoInv
<1>5. CASE Goto(j, "write")
  BY <1>1, <1>2, <1>5, GotoInv
<1>6. CASE Put(j, [call[j] EXCEPT !.pc = "usage", !.seen = account]) /\ account.status # "suspended"
  <2> DEFINE c == [call[j] EXCEPT !.pc = "usage", !.seen = account]
  <2>1. call[j] \in Call
    BY DEF IInv, Types
  <2>2. c \in Call /\ c.pc = "usage" /\ c.seen = account /\ c.due = call[j].due
    BY <1>2, <2>1 DEF Call
  <2>3. call' = [call EXCEPT ![j] = c]
    BY <1>6 DEF Put
  <2> HIDE DEF c
  <2>4. Fits(c) /\ \A d : Alike(c, d)
    BY <1>2, <1>6, <2>2 DEF Fits, Reads, Transits, Due, Alike
  <2> QED  BY <1>1, <2>2, <2>3, <2>4, OneCall
<1> QED  BY <1>3, <1>4, <1>5, <1>6 DEF RereadAccount, Checked, Shown, Refuses, Throw

LEMMA ReadUsageInv == ASSUME IInv, NEW j \in Jobs, ReadUsage(j) PROVE IInv'
<1> DEFINE seen == call[j].seen
           row == usage[seen.period]
<1>1. call[j].pc = "usage" /\ account' = account /\ usage' = usage /\ charged' = charged /\ now' = now
  BY DEF ReadUsage, unbilled
<1>2. account \in Account /\ seen \in Account /\ ~call[j].due
  BY <1>1 DEF IInv, Fits, Reads, Due
<1>3. CASE Return(j)
  BY <1>1, <1>3, ReturnInv
<1>4. CASE /\ Quantity(row) + call[j].quantity <= MeterLimit
           /\ Put(j, [call[j] EXCEPT !.pc = "charge", !.used = row])
  <2> DEFINE c == [call[j] EXCEPT !.pc = "charge", !.used = row]
  <2>1. call[j] \in Call /\ seen.period \in Periods
    BY <1>2, AccountFields DEF IInv, Types
  <2>2. row \in Nat \cup {NoRow} /\ Quantity(row) <= charged[seen.period]
    BY <2>1 DEF IInv, Types, UsageBounded
  <2>3. c \in Call /\ c.pc = "charge" /\ c.seen = seen /\ c.due = call[j].due
        /\ c.used = row /\ c.quantity = call[j].quantity
    BY <2>1, <2>2 DEF Call
  <2>4. call' = [call EXCEPT ![j] = c]
    BY <1>4 DEF Put
  <2> HIDE DEF c, seen, row
  <2>5. Fits(c) /\ \A d : Alike(c, d)
    BY <1>2, <1>4, <2>2, <2>3 DEF Fits, Reads, Transits, Due, Alike
  <2> QED  BY <1>1, <2>3, <2>4, <2>5, OneCall
<1> QED  BY <1>3, <1>4 DEF ReadUsage, WithinLimit, Throw

LEMMA CountInstallationsInv == ASSUME IInv, NEW j \in Jobs, CountInstallations(j) PROVE IInv'
BY ReturnInv DEF CountInstallations, Throw, unbilled
-----------------------------------------------------------------------------
(* Steps that write.                                                       *)

LEMMA CreateAccountInv == ASSUME IInv, NEW j \in Jobs, CreateAccount(j) PROVE IInv'
<1>1. call[j].pc = "create" /\ usage' = usage /\ charged' = charged /\ now' = now
  BY DEF CreateAccount
<1>2. ~call[j].due
  BY <1>1 DEF IInv, Fits, Due
<1>3. CASE account # NoAccount
  <2>1. Return(j) /\ account' = account
    BY <1>3 DEF CreateAccount, Throw
  <2> QED  BY <1>1, <2>1, ReturnInv
<1>4. CASE account = NoAccount
  <2> DEFINE a == [status |-> "trialing", trialEnds |-> now + TrialDays,
                   graceEnds |-> NoDate, period |-> Period(now)]
             c == [call[j] EXCEPT !.pc = "read", !.seen = NoAccount]
  <2>1. account' = a /\ call' = [call EXCEPT ![j] = c]
    BY <1>4 DEF CreateAccount, Goto, Put
  <2>2. a \in Account
    <3>1. now + TrialDays \in Days
      BY Numbers DEF IInv, Days
    <3>2. Period(now) \in Periods
      BY PeriodOfNow DEF IInv
    <3> QED  BY <3>1, <3>2 DEF Account, Statuses
  <2>3. call[j] \in Call
    BY DEF IInv, Types
  <2>4. c \in Call /\ c.pc = "read" /\ ~c.due
    BY <1>2, <2>3 DEF Call
  <2> HIDE DEF a, c
  <2>5. call' \in [Jobs -> Call] /\ call'[j] = c /\ \A i \in Jobs \ {j} : call'[i] = call[i]
    BY <2>1, <2>4 DEF IInv, Types
  <2>6. account \notin Account
    BY <1>4, NothingAssumption
  <2>7. ASSUME NEW i \in Jobs, i # j
        PROVE  /\ call[i].pc \notin {"read", "transit", "reread", "count", "usage", "charge", "write"}
               /\ ~call[i].due
    BY <2>6 DEF IInv, Fits, Reads, Due
  <2>8. \A i \in Jobs :
          call'[i].pc \notin {"transit", "reread", "count", "usage", "charge"} /\ ~call'[i].due
    BY <2>4, <2>5, <2>7
  <2>9. Types' /\ UsageBounded'
    BY <1>1, <2>1, <2>2, <2>5 DEF IInv, Types, UsageBounded, Quantity
  <2>10. \A i \in Jobs : (Fits(call[i]))'
    BY <2>1, <2>2, <2>8 DEF Fits, Reads, Transits, Due
  <2>11. \A i, k \in Jobs : (Alike(call[i], call[k]))'
    BY <2>8 DEF Alike
  <2> QED  BY <2>9, <2>10, <2>11 DEF IInv
<1> QED  BY <1>3, <1>4

\* What a row that is written leaves of the calls, except the one that
\* writes it.
LEMMA Written ==
  ASSUME IInv, NEW j \in Jobs, NEW a \in Account, account' = a, account \in Account,
         usage' = usage, charged' = charged, now' = now,
         call' \in [Jobs -> Call],
         \A i \in Jobs : /\ call'[i].pc = call[i].pc \/ call'[i].pc \in {"read", "reread"}
                         /\ call'[i].seen = call[i].seen \/ call'[i].pc \in {"read", "reread"}
                         /\ call'[i].used = call[i].used /\ call'[i].quantity = call[i].quantity
                         /\ (Transits(call[i]))' /\ (Due(call[i]))'
  PROVE  IInv'
<1>1. Types' /\ UsageBounded'
  BY DEF IInv, Types, UsageBounded, Quantity
<1>2. \A i \in Jobs : Reads(call[i])
  BY DEF IInv, Fits
<1>3. \A i \in Jobs : (Reads(call[i]))'
  BY <1>2 DEF Reads, Quantity
<1>4. \A i, k \in Jobs : Alike(call'[i], call'[k])
  BY DEF IInv, Alike
<1> QED  BY <1>1, <1>3, <1>4 DEF IInv, Fits, Alike

LEMMA ApplyInv == ASSUME IInv, NEW j \in Jobs, ApplyLifecycleTransitions(j) PROVE IInv'
<1> DEFINE seen == call[j].seen
           c == [call[j] EXCEPT !.pc = "reread", !.seen = NoAccount]
<1>1. call[j].pc = "transit" /\ usage' = usage /\ charged' = charged /\ now' = now
      /\ call' = [call EXCEPT ![j] = c]
  BY DEF ApplyLifecycleTransitions, Goto, Put
<1>2. account \in Account /\ seen \in Account /\ Transits(call[j]) /\ Due(call[j])
  BY <1>1 DEF IInv, Fits, Reads
<1>3. call[j] \in Call
  BY DEF IInv, Types
<1>4. c \in Call /\ c.pc = "reread" /\ c.due = call[j].due /\ c.used = call[j].used
      /\ c.quantity = call[j].quantity
  BY <1>3 DEF Call
<1> HIDE DEF c
<1>5. call' \in [Jobs -> Call] /\ call'[j] = c /\ \A i \in Jobs \ {j} : call'[i] = call[i]
  BY <1>1, <1>4 DEF IInv, Types
<1>6. now \in Nat /\ now <= MaxTime /\ MaxTime \in Nat /\ TrialDays \in Nat
      /\ GraceDays \in Nat /\ GraceDays > 0 /\ NoDate \notin Nat
  BY Numbers DEF IInv
<1>7. \A i \in Jobs : Transits(call[i]) /\ Due(call[i]) /\ Alike(call[i], call[j])
  BY DEF IInv, Fits
<1>8. CASE seen.status = "trialing"
  <2> DEFINE a == [account EXCEPT !.status = "past_due", !.graceEnds = now + GraceDays]
  <2>1. Transition(seen) = "past_due" /\ Fresh
    BY <1>1, <1>2, <1>8 DEF Transits, Transition
  <2>2. account' = a
    BY <2>1 DEF ApplyLifecycleTransitions
  <2>3. now + GraceDays \in Days
    BY <1>6 DEF Days
  <2>4. a \in Account /\ a.status = "past_due" /\ a.graceEnds = now + GraceDays
    BY <1>2, <2>3 DEF Account, Statuses
  <2> HIDE DEF a
  <2>5. ~Lapsed /\ account.status # "suspended"
    BY <1>6, <2>1 DEF Lapsed, Fresh, GraceOver
  <2>6. Fresh'
    BY <1>1, <2>2, <2>4 DEF Fresh
  <2>7. ASSUME NEW i \in Jobs, i # j PROVE (Transits(call[i]))' /\ (Due(call[i]))'
    <3>1. call'[i] = call[i] /\ (call[i].pc = "transit" => call[i].seen.status = "trialing")
      BY <1>1, <1>5, <1>7, <1>8, <2>7 DEF Alike
    <3>2. (Transits(call[i]))'
      BY <1>1, <1>7, <2>6, <3>1 DEF Transits, TrialOver
    <3>3. call[i].due => call[i].pc \notin {"ensure", "read", "transit", "reread"}
      BY <1>7, <2>5, <3>1 DEF Due
    <3>4. (Due(call[i]))'
      BY <1>7, <2>2, <2>4, <3>1, <3>3 DEF Due
    <3> QED  BY <3>2, <3>4
  <2>8. ~c.due
    BY <1>1, <1>2, <1>4, <1>8 DEF Due
  <2>9. (Transits(call[j]))' /\ (Due(call[j]))'
    BY <1>4, <1>5, <2>8 DEF Transits, Due
  <2> QED  BY <1>1, <1>2, <1>4, <1>5, <2>2, <2>4, <2>7, <2>9, Written
<1>9. CASE seen.status # "trialing"
  <2> DEFINE a == [account EXCEPT !.status = "suspended"]
  <2>1. Transition(seen) = "suspended"
    BY <1>1, <1>2, <1>9 DEF Transits, Transition, TrialOver
  <2>2. account' = a
    BY <2>1 DEF ApplyLifecycleTransitions
  <2>3. a \in Account /\ a.status = "suspended"
    BY <1>2 DEF Account, Statuses
  <2> HIDE DEF a
  <2>4. account' # NoAccount /\ Lapsed'
    BY <2>2, <2>3, NothingAssumption DEF Lapsed
  <2>5. ASSUME NEW i \in Jobs, i # j PROVE (Transits(call[i]))' /\ (Due(call[i]))'
    <3>1. call'[i] = call[i] /\ (call[i].pc = "transit" => call[i].seen.status # "trialing")
      BY <1>1, <1>5, <1>7, <1>9, <2>5 DEF Alike
    <3>2. (Transits(call[i]))'
      BY <1>1, <1>7, <2>2, <2>3, <3>1 DEF Transits, GraceOver
    <3>3. (Due(call[i]))'
      BY <1>7, <2>2, <2>3, <2>4, <3>1 DEF Due
    <3> QED  BY <3>2, <3>3
  <2>6. (Transits(call[j]))' /\ (Due(call[j]))'
    BY <1>4, <1>5, <2>2, <2>3 DEF Transits, Due
  <2> QED  BY <1>1, <1>2, <1>4, <1>5, <2>2, <2>3, <2>5, <2>6, Written
<1> QED  BY <1>8, <1>9

\* The news of a payment: nothing is due any more.
LEMMA PaymentInv ==
  ASSUME IInv, NEW j \in Jobs, call[j].pc = "write", PaymentNews(j),
         NEW a \in Account, account' = a, a.status = "active" \/ a.status = "grace_period",
         a.status = "grace_period" => a.graceEnds = now + GraceDays,
         usage' = usage, charged' = charged, now' = now
  PROVE  IInv'
<1> DEFINE c(i) == IF i = j THEN [call[i] EXCEPT !.pc = "read", !.after = TRUE, !.due = FALSE]
                   ELSE [call[i] EXCEPT !.due = FALSE]
<1>1. call' = [i \in Jobs |-> c(i)]
  BY DEF PaymentNews
<1>2. ASSUME NEW i \in Jobs
      PROVE  /\ c(i) \in Call /\ ~c(i).due /\ c(i).seen = call[i].seen
             /\ c(i).used = call[i].used /\ c(i).quantity = call[i].quantity
             /\ c(i).pc = IF i = j THEN "read" ELSE call[i].pc
  <2>1. call[i] \in Call
    BY DEF IInv, Types
  <2> QED  BY <2>1 DEF Call
<1> HIDE DEF c
<1>3. call' \in [Jobs -> Call] /\ \A i \in Jobs : call'[i] = c(i)
  BY <1>1, <1>2
<1>4. Fresh' /\ a.status # "trialing"
  BY DEF Fresh
<1>5. ASSUME NEW i \in Jobs PROVE (Transits(call[i]))' /\ (Due(call[i]))'
  <2>1. Transits(call[i])
    BY DEF IInv, Fits
  <2>2. (Transits(call[i]))'
    BY <1>2, <1>3, <1>4, <2>1 DEF Transits, TrialOver, GraceOver
  <2>3. (Due(call[i]))'
    BY <1>2, <1>3 DEF Due
  <2> QED  BY <2>2, <2>3
<1>6. account \in Account
  BY DEF IInv, Fits, Reads
<1> QED  BY <1>2, <1>3, <1>5, <1>6, Written

LEMMA ProcessRenewalInv == ASSUME IInv, NEW j \in Jobs, ProcessRenewal(j) PROVE IInv'
<1> DEFINE a == [account EXCEPT !.status = "active", !.period = Period(now), !.graceEnds = NoDate]
<1>1. call[j].pc = "write" /\ PaymentNews(j) /\ account' = a
      /\ usage' = usage /\ charged' = charged /\ now' = now
  BY DEF ProcessRenewal
<1>2. account \in Account /\ Period(now) \in Periods
  BY <1>1, PeriodOfNow DEF IInv, Fits, Reads
<1>3. a \in Account /\ a.status = "active"
  BY <1>2 DEF Account, Statuses
<1> HIDE DEF a
<1> QED  BY <1>1, <1>3, PaymentInv

LEMMA MarkPaymentFailedInv == ASSUME IInv, NEW j \in Jobs, MarkPaymentFailed(j) PROVE IInv'
<1> DEFINE a == [account EXCEPT !.status = "grace_period", !.graceEnds = now + GraceDays]
<1>1. call[j].pc = "write" /\ PaymentNews(j) /\ account' = a
      /\ usage' = usage /\ charged' = charged /\ now' = now
  BY DEF MarkPaymentFailed
<1>2. account \in Account /\ now + GraceDays \in Days
  <2>1. account \in Account
    BY <1>1 DEF IInv, Fits, Reads
  <2> QED  BY <2>1, Numbers DEF IInv, Days
<1>3. a \in Account /\ a.status = "grace_period" /\ a.graceEnds = now + GraceDays
  BY <1>2 DEF Account, Statuses
<1> HIDE DEF a
<1> QED  BY <1>1, <1>3, PaymentInv

\* Two events may write the same sum: what is charged is never less.
LEMMA RecordMeteredEventInv == ASSUME IInv, NEW j \in Jobs, RecordMeteredEvent(j) PROVE IInv'
<1> DEFINE c == call[j]
           p == c.seen.period
<1>1. c.pc = "charge" /\ Return(j) /\ account' = account /\ now' = now
  BY DEF RecordMeteredEvent
<1>2. c \in Call /\ c.seen \in Account /\ account \in Account
      /\ Quantity(c.used) + c.quantity <= MeterLimit /\ Quantity(c.used) <= charged[p]
  BY <1>1 DEF IInv, Types, Fits, Reads
<1>3. p \in Periods /\ c.quantity \in Nat /\ Quantity(c.used) \in Nat /\ charged[p] \in Nat
  <2>1. p \in Periods
    BY <1>2, AccountFields
  <2> QED  BY <1>2, <2>1, CallFields DEF IInv, Types
<1>4. CASE c.used = NoRow /\ usage[p] # NoRow
  BY <1>1, <1>4, ReturnInv DEF RecordMeteredEvent
<1>5. CASE ~(c.used = NoRow /\ usage[p] # NoRow)
  <2> DEFINE sum == Quantity(c.used) + c.quantity
  <2>1. usage' = [usage EXCEPT ![p] = sum] /\ charged' = [charged EXCEPT ![p] = @ + c.quantity]
        /\ call' = [call EXCEPT ![j] = IdleCall]
    BY <1>1, <1>5 DEF RecordMeteredEvent, Return, Put
  <2>2. sum \in Nat /\ sum <= MeterLimit /\ sum <= charged[p] + c.quantity
    BY <1>2, <1>3, Numbers DEF IInv
  <2>3. IdleCall \in Call /\ IdleCall.pc = "idle" /\ ~IdleCall.due
    BY IdleFits
  <2> HIDE DEF IdleCall, c, p, sum
  <2>4. /\ usage' \in [Periods -> Nat \cup {NoRow}] /\ charged' \in [Periods -> Nat]
        /\ usage'[p] = sum /\ charged'[p] = charged[p] + c.quantity
        /\ \A x \in Periods \ {p} : usage'[x] = usage[x] /\ charged'[x] = charged[x]
    BY <1>3, <2>1, <2>2 DEF IInv, Types
  <2>5. call' \in [Jobs -> Call] /\ call'[j] = IdleCall /\ \A i \in Jobs \ {j} : call'[i] = call[i]
    BY <2>1, <2>3 DEF IInv, Types
  <2>6. Types'
    BY <1>1, <2>4, <2>5 DEF IInv, Types
  <2>7. UsageBounded'
    <3>1. sum # NoRow
      BY <2>2, NothingAssumption
    <3> QED  BY <2>2, <2>4, <3>1 DEF IInv, UsageBounded, Quantity
  <2>8. \A x \in Periods : charged[x] <= charged'[x] /\ charged[x] \in Nat /\ charged'[x] \in Nat
    BY <1>3, <2>4 DEF IInv, Types
  <2>9. ASSUME NEW i \in Jobs PROVE (Fits(call[i]))'
    <3>1. CASE i = j
      BY <2>3, <2>5, <3>1 DEF Fits, Reads, Transits, Due
    <3>2. CASE i # j
      <4>1. call'[i] = call[i] /\ Fits(call[i]) /\ call[i] \in Call
        BY <2>5, <3>2 DEF IInv, Types
      <4>2. (Transits(call[i]))' /\ (Due(call[i]))'
        BY <1>1, <4>1 DEF Fits, Transits, Due, Lapsed, Fresh, TrialOver, GraceOver
      <4>3. CASE call[i].pc # "charge"
        BY <1>1, <4>1, <4>2, <4>3 DEF Fits, Reads
      <4>4. CASE call[i].pc = "charge"
        <5>1. call[i].seen.period \in Periods /\ Quantity(call[i].used) \in Nat
              /\ Quantity(call[i].used) <= charged[call[i].seen.period]
          BY <4>1, <4>4, AccountFields, CallFields DEF Fits, Reads
        <5>2. Quantity(call[i].used) <= charged'[call[i].seen.period]
          BY <2>8, <5>1
        <5>3. (Reads(call[i]))'
          BY <1>1, <4>1, <4>4, <5>2 DEF Fits, Reads, Quantity
        <5> QED  BY <4>2, <5>3 DEF Fits
      <4> QED  BY <4>3, <4>4
    <3> QED  BY <3>1, <3>2
  <2>10. \A i, k \in Jobs : (Alike(call[i], call[k]))'
    BY <2>3, <2>5 DEF IInv, Alike
  <2> QED  BY <2>6, <2>7, <2>9, <2>10 DEF IInv
<1> QED  BY <1>4, <1>5

\* A day goes by when no call is in progress.
LEMMA TickInv == ASSUME IInv, Tick PROVE IInv'
<1>1. \A j \in Jobs : call[j].pc = "idle"
  BY DEF Tick
<1>2. now' = now + 1 /\ now < MaxTime /\ account' = account /\ usage' = usage
      /\ charged' = charged /\ call' = call
  BY DEF Tick
<1>3. Types'
  BY <1>2, Numbers DEF IInv, Types
<1>4. UsageBounded'
  BY <1>2 DEF IInv, UsageBounded, Quantity
<1>5. ASSUME NEW j \in Jobs PROVE (Fits(call[j]))'
  BY <1>1, <1>2 DEF IInv, Fits, Reads, Transits, Due
<1> QED  BY <1>2, <1>3, <1>4, <1>5 DEF IInv, Alike

\* Requests about apps, and rest.
LEMMA Elsewhere ==
  ASSUME IInv, UNCHANGED <<account, usage, charged, now, call>>
  PROVE  IInv'
BY DEF IInv, Types, UsageBounded, Fits, Reads, Transits, Due, Alike, Lapsed, Fresh, TrialOver,
       GraceOver, Quantity

LEMMA NextInv == ASSUME IInv, [Next]_vars PROVE IInv'
<1>1. CASE Tick
  BY <1>1, TickInv
<1>2. CASE Quiet \/ UNCHANGED vars
  <2>1. UNCHANGED <<account, usage, charged, now, call>>
    BY <1>2 DEF Quiet, vars
  <2> QED  BY <2>1, Elsewhere
<1>3. ASSUME NEW j \in Jobs, AppRequest(j) PROVE IInv'
  <2>1. UNCHANGED <<account, usage, charged, now, call>>
    BY <1>3 DEF AppRequest, unbilled
  <2> QED  BY <2>1, Elsewhere
<1>4. ASSUME NEW j \in Jobs, Bill(j) PROVE IInv'
  BY <1>4, StartInv DEF Bill, unbilled
<1>5. ASSUME NEW j \in Jobs, AssertEntitlement(j) PROVE IInv'
  <2>1. 1 \in Quantities /\ "assert" \in BillingOps
    BY BillingAssumption DEF BillingOps
  <2> QED  BY <1>5, <2>1, StartInv DEF AssertEntitlement, unbilled
<1>6. ASSUME NEW j \in Jobs, BillingStep(j) PROVE IInv'
  BY <1>6, FindAccountInv, CreateAccountInv, ReadAccountInv, ApplyInv, RereadAccountInv,
     CountInstallationsInv, ReadUsageInv, RecordMeteredEventInv, ProcessRenewalInv,
     MarkPaymentFailedInv DEF BillingStep
<1> QED  BY <1>1, <1>2, <1>3, <1>4, <1>5, <1>6 DEF Next

LEMMA Invariant == Spec => []IInv
BY InitInv, NextInv, PTL DEF Spec

\* However many events overlap, and in whatever period, the usage never
\* exceeds the limit or what its events add up to.
THEOREM UsageStaysBounded == Spec => []UsageBounded
<1>1. IInv => UsageBounded
  BY DEF IInv
<1> QED  BY <1>1, Invariant, PTL

\* A request that came after the grace is served only after payment news:
\* no stale transition of another request can take the suspension back.
THEOREM GraceEnds == Spec => []NoServiceAfterGrace
<1>1. IInv => NoServiceAfterGrace
  BY DEF IInv, Fits, Due, NoServiceAfterGrace
<1> QED  BY <1>1, Invariant, PTL
-----------------------------------------------------------------------------
(* The apps: what their requests are, whatever the keys are drawn from.    *)

JobOver(K) == [pc : {"idle", "entitlement", "findApp", "snapshot", "commit", "attempt", "log", "deadLetter"},
               op : {"install", "uninstall", "rotate", "publish"}, app : AppNames \cup {NoApp},
               revoked : SUBSET K, snapshot : SUBSET K, targets : SUBSET K,
               attempt : 0..MAX_WEBHOOK_DELIVERY_ATTEMPTS, ok : BOOLEAN]

Named(q) == /\ q.pc # "idle" => q.app \in AppNames
            /\ q.op = "install" => q.pc \in {"entitlement", "findApp", "commit"}

\* A call that asks for the entitlement is that of a request that waits.
Linked(q, c) == /\ c.pc # "idle" /\ c.op = "assert" => q.pc = "entitlement"
                /\ c.pc = "count" => c.op = "assert"

Shape(K) == /\ installation \in [AppNames -> {"none", "installed", "uninstalled"}]
            /\ credential \in [AppNames -> SUBSET K]
            /\ job \in [Jobs -> JobOver(K)]
            /\ \A j \in Jobs : Named(job[j]) /\ Linked(job[j], call[j])

\* The keys a rotation has to revoke are in its snapshot, or gone.
Rotating(q) == q.pc = "commit" /\ q.op = "rotate" => q.revoked \cap credential[q.app] \subseteq q.snapshot

\* An installation that has been let through.
Passed(q) == q.op = "install" /\ q.pc \in {"findApp", "commit"}

\* The keys a request knows.
Knows(q) == q.revoked \cup q.snapshot \cup q.targets

\* The request of j goes on, and the tables stay.
Moves(K, j, q) ==
  /\ job' = [job EXCEPT ![j] = q] /\ UNCHANGED <<installation, credential>>
  /\ q \in JobOver(K) /\ Named(q) /\ Rotating(q)
  /\ Knows(q) = {} \/ (q.app \in AppNames /\ Knows(q) \subseteq Knows(job[j]) \cup credential[q.app])
  /\ Passed(q) => Passed(job[j]) \/ HasSlot(CountInstalled)

LEMMA Attempts == 0 \in 0..MAX_WEBHOOK_DELIVERY_ATTEMPTS /\ 1 \in 0..MAX_WEBHOOK_DELIVERY_ATTEMPTS
BY DEF MAX_WEBHOOK_DELIVERY_ATTEMPTS

LEMMA IdleMoves ==
  ASSUME NEW K, NEW j, Finish(j), UNCHANGED <<installation, credential>>
  PROVE  \E q \in JobOver(K) : Moves(K, j, q)
<1>1. IdleJob \in JobOver(K) /\ IdleJob.pc = "idle" /\ IdleJob.op = "publish"
      /\ Knows(IdleJob) = {}
  BY Attempts DEF IdleJob, JobOver, Knows
<1> HIDE DEF IdleJob
<1> QED  BY <1>1 DEF Finish, PutJob, Moves, Named, Rotating, Passed

LEMMA ServeMoves ==
  ASSUME NEW K, Shape(K), NEW j \in Jobs, NEW targets \in SUBSET K,
         job[j].app \in AppNames, job[j].op # "install",
         targets \subseteq job[j].targets \cup credential[job[j].app],
         PutJob(j, Serve(job[j], targets)), UNCHANGED <<installation, credential>>
  PROVE  \E q \in JobOver(K) : Moves(K, j, q)
<1>1. CASE targets = {}
  BY <1>1, IdleMoves DEF Serve, Finish
<1>2. CASE targets # {}
  <2> DEFINE q == [job[j] EXCEPT !.pc = "attempt", !.targets = targets, !.attempt = 1, !.ok = FALSE]
  <2>1. job[j] \in JobOver(K)
    BY DEF Shape
  <2>2. q \in JobOver(K) /\ q.pc = "attempt" /\ q.app = job[j].app /\ q.op = job[j].op
        /\ Knows(q) \subseteq Knows(job[j]) \cup credential[job[j].app]
    BY <2>1, Attempts DEF JobOver, Knows
  <2>3. job' = [job EXCEPT ![j] = q]
    BY <1>2 DEF Serve, PutJob
  <2> HIDE DEF q
  <2> QED  BY <2>2, <2>3 DEF Moves, Named, Rotating, Passed
<1> QED  BY <1>1, <1>2

LEMMA RequestMoves ==
  ASSUME NEW K, NEW j \in Jobs, NEW op \in {"install", "uninstall", "rotate", "publish"},
         NEW pc \in {"entitlement", "findApp"}, Request(j, op, pc), op = "install" => pc = "entitlement"
  PROVE  \E q \in JobOver(K) : Moves(K, j, q)
<1>1. PICK app \in AppNames : PutJob(j, [IdleJob EXCEPT !.pc = pc, !.op = op, !.app = app])
                              /\ UNCHANGED <<installation, credential>>
  BY DEF Request
<1> DEFINE q == [IdleJob EXCEPT !.pc = pc, !.op = op, !.app = app]
<1>2. IdleJob \in JobOver(K)
  BY Attempts DEF IdleJob, JobOver
<1>4. q \in JobOver(K) /\ q.pc = pc /\ q.op = op /\ q.app = app
  BY <1>2 DEF JobOver
<1>5. Knows(q) = {}
  BY DEF IdleJob, Knows
<1>3. job' = [job EXCEPT ![j] = q]
  BY <1>1 DEF PutJob
<1> HIDE DEF q
<1> QED  BY <1>1, <1>3, <1>4, <1>5 DEF Moves, Named, Rotating, Passed

\* Every step of a request for an app is a move, or one of three commits.
LEMMA AppStepMoves ==
  ASSUME NEW K, Shape(K), NEW j \in Jobs, AppStep(j)
  PROVE  \/ CommitInstall(j) \/ CommitRotate(j) \/ CommitUninstall(j)
         \/ \E q \in JobOver(K) : Moves(K, j, q)
<1>1. job[j] \in JobOver(K) /\ (job[j].pc # "idle" => job[j].app \in AppNames)
  BY DEF Shape, Named
<1>2. job[j].app \in AppNames => credential[job[j].app] \in SUBSET K
  BY DEF Shape
<1>3. CASE FindApp(j)
  <2> DEFINE q == [job[j] EXCEPT !.pc = IF job[j].op = "install" THEN "commit" ELSE "snapshot",
                                 !.revoked = IF job[j].op = "rotate" THEN credential[job[j].app] ELSE {}]
  <2>1. job[j].pc = "findApp" /\ UNCHANGED <<installation, credential>>
    BY <1>3 DEF FindApp
  <2>2. CASE PutJob(j, q)
    <3>1. /\ q \in JobOver(K) /\ q.app = job[j].app /\ q.op = job[j].op
          /\ q.pc = IF job[j].op = "install" THEN "commit" ELSE "snapshot"
          /\ Knows(q) \subseteq Knows(job[j]) \cup credential[job[j].app]
      BY <1>1, <1>2, <2>1 DEF JobOver, Knows
    <3>2. job' = [job EXCEPT ![j] = q]
      BY <2>2 DEF PutJob
    <3> HIDE DEF q
    <3> QED  BY <1>1, <2>1, <3>1, <3>2 DEF Moves, Named, Rotating, Passed
  <2>3. CASE Finish(j)
    BY <2>1, <2>3, IdleMoves
  <2> QED  BY <1>3, <2>2, <2>3 DEF FindApp
<1>4. CASE SnapshotCredentials(j)
  <2> DEFINE q == [job[j] EXCEPT !.pc = "commit", !.snapshot = credential[job[j].app]]
  <2>1. job[j].pc = "snapshot" /\ UNCHANGED <<installation, credential>> /\ job' = [job EXCEPT ![j] = q]
    BY <1>4 DEF SnapshotCredentials, PutJob
  <2>2. q \in JobOver(K) /\ q.app = job[j].app /\ q.op = job[j].op /\ q.pc = "commit"
        /\ q.snapshot = credential[job[j].app]
        /\ Knows(q) \subseteq Knows(job[j]) \cup credential[job[j].app]
    BY <1>1, <1>2, <2>1 DEF JobOver, Knows
  <2>3. job[j].op # "install"
    BY <2>1 DEF Shape, Named
  <2> HIDE DEF q
  <2> QED  BY <1>1, <2>1, <2>2, <2>3 DEF Moves, Named, Rotating, Passed
<1>5. CASE Rollback(j)
  BY <1>5, IdleMoves DEF Rollback
<1>6. ASSUME NEW targets \in SUBSET K, job[j].pc \in {"findApp", "log", "deadLetter"}, job[j].op # "install",
             PutJob(j, Serve(job[j], targets)), UNCHANGED <<installation, credential>>,
             targets \subseteq job[j].targets \cup credential[job[j].app]
      PROVE  \E q \in JobOver(K) : Moves(K, j, q)
  BY <1>1, <1>6, ServeMoves
<1>7. job[j].pc \in {"attempt", "log", "deadLetter"} => job[j].op # "install" /\ job[j].app \in AppNames
  BY DEF Shape, Named
<1>8. CASE PublishEventToSubscribers(j)
  <2>1. job[j].pc = "findApp" /\ job[j].op = "publish"
    BY <1>8 DEF PublishEventToSubscribers
  <2>2. Subscribed(job[j].app) \in SUBSET K /\ Subscribed(job[j].app) \subseteq credential[job[j].app]
    BY <1>1, <1>2, <2>1 DEF Subscribed
  <2> QED  BY <1>6, <1>8, <2>1, <2>2 DEF PublishEventToSubscribers
<1>9. ASSUME job[j].pc \in {"log", "deadLetter"}, PutJob(j, Served(job[j])), UNCHANGED <<installation, credential>>
      PROVE  \E q \in JobOver(K) : Moves(K, j, q)
  <2> DEFINE targets == job[j].targets \ {CHOOSE k \in job[j].targets : TRUE}
  <2>1. targets \in SUBSET K /\ targets \subseteq job[j].targets
    BY <1>1 DEF JobOver
  <2>2. PutJob(j, Serve(job[j], targets))
    BY <1>9 DEF Served
  <2> HIDE DEF targets
  <2> QED  BY <1>6, <1>7, <1>9, <2>1, <2>2
<1>10. ASSUME NEW q \in JobOver(K), q.pc \in {"attempt", "log", "deadLetter"}, q.app = job[j].app, q.op = job[j].op,
              Knows(q) = Knows(job[j]),
              job[j].pc \in {"attempt", "log"}, PutJob(j, q), UNCHANGED <<installation, credential>>
       PROVE  \E y \in JobOver(K) : Moves(K, j, y)
  <2>1. job' = [job EXCEPT ![j] = q]
    BY <1>10 DEF PutJob
  <2> QED  BY <1>7, <1>10, <2>1 DEF Moves, Named, Rotating, Passed
<1>11. CASE AttemptDelivery(j)
  <2>1. PICK ok \in BOOLEAN : PutJob(j, [job[j] EXCEPT !.pc = "log", !.ok = ok])
    BY <1>11 DEF AttemptDelivery
  <2> DEFINE q == [job[j] EXCEPT !.pc = "log", !.ok = ok]
  <2>2. q \in JobOver(K) /\ q.pc = "log" /\ q.app = job[j].app /\ q.op = job[j].op /\ Knows(q) = Knows(job[j])
    BY <1>1 DEF JobOver, Knows
  <2> HIDE DEF q
  <2>3. PutJob(j, q)
    BY <2>1 DEF q
  <2> QED  BY <1>10, <1>11, <2>2, <2>3 DEF AttemptDelivery
<1>12. CASE LogDelivery(j)
  <2>1. job[j].pc = "log" /\ UNCHANGED <<installation, credential>>
    BY <1>12 DEF LogDelivery
  <2>2. CASE PutJob(j, Served(job[j]))
    BY <1>9, <2>1, <2>2
  <2>3. CASE job[j].attempt < MAX_WEBHOOK_DELIVERY_ATTEMPTS
             /\ PutJob(j, [job[j] EXCEPT !.pc = "attempt", !.attempt = @ + 1])
    <3> DEFINE q == [job[j] EXCEPT !.pc = "attempt", !.attempt = @ + 1]
    <3>1. job[j].attempt \in 0..MAX_WEBHOOK_DELIVERY_ATTEMPTS
      BY <1>1 DEF JobOver
    <3>2. job[j].attempt + 1 \in 0..MAX_WEBHOOK_DELIVERY_ATTEMPTS
      BY <2>3, <3>1 DEF MAX_WEBHOOK_DELIVERY_ATTEMPTS
    <3>3. q \in JobOver(K) /\ q.pc = "attempt" /\ q.app = job[j].app /\ q.op = job[j].op
          /\ Knows(q) = Knows(job[j])
      BY <1>1, <3>2 DEF JobOver, Knows
    <3> HIDE DEF q
    <3>4. PutJob(j, q)
      BY <2>3 DEF q
    <3> QED  BY <1>10, <2>1, <3>3, <3>4
  <2>4. CASE PutJob(j, [job[j] EXCEPT !.pc = "deadLetter"])
    <3> DEFINE q == [job[j] EXCEPT !.pc = "deadLetter"]
    <3>1. q \in JobOver(K) /\ q.pc = "deadLetter" /\ q.app = job[j].app /\ q.op = job[j].op
          /\ Knows(q) = Knows(job[j])
      BY <1>1 DEF JobOver, Knows
    <3> HIDE DEF q
    <3>2. PutJob(j, q)
      BY <2>4 DEF q
    <3> QED  BY <1>10, <2>1, <3>1, <3>2
  <2> QED  BY <1>12, <2>2, <2>3, <2>4 DEF LogDelivery
<1>13. CASE LogFails(j) \/ LogDeadLetter(j)
  BY <1>9, <1>13 DEF LogFails, LogDeadLetter
<1> QED
  BY <1>3, <1>4, <1>5, <1>8, <1>11, <1>12, <1>13 DEF AppStep, Webhook, CommitInstall, CommitRotate, CommitUninstall

\* What a billing call does to the request around it: it ends, or it is let
\* through because there is a slot.
LEMMA BillingMoves ==
  ASSUME NEW K, Shape(K), NEW j \in Jobs,
         BillingStep(j) \/ Bill(j) \/ AssertEntitlement(j) \/ Tick \/ Quiet
  PROVE  UNCHANGED appVars \/ \E q \in JobOver(K) : Moves(K, j, q)
<1>1. CASE Bill(j) \/ AssertEntitlement(j) \/ Tick \/ Quiet
  BY <1>1 DEF Bill, AssertEntitlement, Tick, Quiet, vars, appVars
<1>2. CASE Throw(j)
  <2>1. CASE Finish(j)
    BY <1>2, <2>1, IdleMoves DEF Throw
  <2> QED  BY <1>2, <2>1 DEF Throw, appVars
<1>3. CASE CountInstallations(j) /\ HasSlot(CountInstalled)
  <2> DEFINE q == [job[j] EXCEPT !.pc = "findApp"]
  <2>1. call[j].pc = "count" /\ job' = [job EXCEPT ![j] = q] /\ UNCHANGED <<installation, credential>>
    BY <1>3 DEF CountInstallations, PutJob
  <2>2. job[j] \in JobOver(K) /\ job[j].pc = "entitlement" /\ job[j].app \in AppNames
    BY <2>1 DEF Shape, Named, Linked
  <2>3. q \in JobOver(K) /\ q.pc = "findApp" /\ q.app = job[j].app /\ Knows(q) = Knows(job[j])
    BY <2>2 DEF JobOver, Knows
  <2> HIDE DEF q
  <2> QED  BY <1>3, <2>1, <2>2, <2>3 DEF Moves, Named, Rotating
<1>4. CASE BillingStep(j)
  BY <1>2, <1>3, <1>4 DEF BillingStep, FindAccount, CreateAccount, ReadAccount, ApplyLifecycleTransitions,
     RereadAccount, Checked, Shown, CountInstallations, ReadUsage, RecordMeteredEvent, ProcessRenewal,
     MarkPaymentFailed
<1> QED  BY <1>1, <1>4

LEMMA AppRequestMoves ==
  ASSUME NEW K, Shape(K), NEW j \in Jobs, AppRequest(j)
  PROVE  \/ CommitInstall(j) \/ CommitRotate(j) \/ CommitUninstall(j)
         \/ \E q \in JobOver(K) : Moves(K, j, q)
<1>1. CASE AppStep(j)
  BY <1>1, AppStepMoves
<1>2. CASE RequestInstall(j) \/ RequestUninstall(j) \/ RequestRotation(j) \/ ReceiveEvent(j)
  BY <1>2, RequestMoves DEF RequestInstall, RequestUninstall, RequestRotation, ReceiveEvent
<1> QED  BY <1>1, <1>2 DEF AppRequest

\* All that happens to installations, credentials and requests.
LEMMA NextMoves ==
  ASSUME NEW K, Shape(K), [Next]_vars
  PROVE  \/ UNCHANGED appVars
         \/ \E j \in Jobs : \/ CommitInstall(j) \/ CommitRotate(j) \/ CommitUninstall(j)
                            \/ \E q \in JobOver(K) : Moves(K, j, q)
<1>1. CASE UNCHANGED vars
  BY <1>1 DEF vars, appVars
<1>2. CASE Tick \/ Quiet
  BY <1>2 DEF Tick, Quiet, vars, appVars
<1>3. ASSUME NEW j \in Jobs, AppRequest(j)
      PROVE  \/ CommitInstall(j) \/ CommitRotate(j) \/ CommitUninstall(j)
             \/ \E q \in JobOver(K) : Moves(K, j, q)
  BY <1>3, AppRequestMoves
<1>4. ASSUME NEW j \in Jobs, BillingStep(j) \/ Bill(j) \/ AssertEntitlement(j)
      PROVE  UNCHANGED appVars \/ \E q \in JobOver(K) : Moves(K, j, q)
  BY <1>4, BillingMoves
<1> QED  BY <1>1, <1>2, <1>3, <1>4 DEF Next
-----------------------------------------------------------------------------
(* Shapes and links are kept, whatever set the new keys come from.         *)

LEMMA CommitShapes ==
  ASSUME NEW K, Shape(K), NEW j \in Jobs, \A a \in AppNames : NewKey(a) \in K,
         CommitInstall(j) \/ CommitRotate(j) \/ CommitUninstall(j)
  PROVE  /\ installation' \in [AppNames -> {"none", "installed", "uninstalled"}]
         /\ credential' \in [AppNames -> SUBSET K]
         /\ Finish(j) /\ job[j].app \in AppNames
<1>1. job[j].pc = "commit" /\ job[j].app \in AppNames
  BY DEF CommitInstall, CommitRotate, CommitUninstall, Shape, Named
<1>2. NewKey(job[j].app) \in K /\ credential[job[j].app] \in SUBSET K
  BY <1>1 DEF Shape
<1> HIDE DEF NewKey
<1>3. CASE CommitInstall(j)
  BY <1>1, <1>2, <1>3 DEF CommitInstall, Shape
<1>4. CASE CommitRotate(j)
  BY <1>1, <1>2, <1>4 DEF CommitRotate, Shape
<1>5. CASE CommitUninstall(j)
  BY <1>1, <1>2, <1>5 DEF CommitUninstall, Shape
<1> QED  BY <1>3, <1>4, <1>5

\* What one request and its call may become, for the rest of the shape.
LEMMA OneRequest ==
  ASSUME NEW K, Shape(K), NEW j \in Jobs, NEW q \in JobOver(K), job' = [job EXCEPT ![j] = q], Named(q),
         installation' \in [AppNames -> {"none", "installed", "uninstalled"}],
         credential' \in [AppNames -> SUBSET K],
         Linked(q, call'[j]),
         \A i \in Jobs \ {j} : call'[i].pc = call[i].pc /\ call'[i].op = call[i].op
  PROVE  Shape(K)'
<1>1. job' \in [Jobs -> JobOver(K)] /\ job'[j] = q /\ \A i \in Jobs \ {j} : job'[i] = job[i]
  BY DEF Shape
<1>2. ASSUME NEW i \in Jobs PROVE (Named(job[i]) /\ Linked(job[i], call[i]))'
  BY <1>1 DEF Shape, Named, Linked
<1> QED  BY <1>1, <1>2 DEF Shape

\* A billing call ends, or goes on as what it is.
LEMMA CallLinks ==
  ASSUME IInv, NEW j \in Jobs, BillingStep(j)
  PROVE  /\ \/ call'[j].pc = "idle"
            \/ /\ call'[j].op = call[j].op /\ call[j].pc # "idle" /\ UNCHANGED appVars
               /\ call'[j].pc = "count" => call[j].op = "assert"
         /\ \A i \in Jobs \ {j} : call'[i].pc = call[i].pc /\ call'[i].op = call[i].op
<1> DEFINE Goal == /\ \/ call'[j].pc = "idle"
                      \/ /\ call'[j].op = call[j].op /\ call[j].pc # "idle" /\ UNCHANGED appVars
                         /\ call'[j].pc = "count" => call[j].op = "assert"
                   /\ \A i \in Jobs \ {j} : call'[i].pc = call[i].pc /\ call'[i].op = call[i].op
<1>1. call \in [Jobs -> Call] /\ \A i \in Jobs : call[i] \in Call
  BY DEF IInv, Types
<1>2. CASE Return(j)
  <2>1. IdleCall.pc = "idle"
    BY DEF IdleCall
  <2> HIDE DEF IdleCall
  <2> QED  BY <1>1, <1>2, <2>1 DEF Return, Put
<1>3. ASSUME NEW c, call' = [call EXCEPT ![j] = c], c.op = call[j].op, call[j].pc # "idle", UNCHANGED appVars,
             c.pc = "count" => call[j].op = "assert"
      PROVE  Goal
  BY <1>1, <1>3
<1>4. ASSUME NEW pc, Goto(j, pc), call[j].pc # "idle", UNCHANGED appVars, pc = "count" => call[j].op = "assert"
      PROVE  Goal
  <2> DEFINE c == [call[j] EXCEPT !.pc = pc, !.seen = NoAccount]
  <2>1. c.op = call[j].op /\ c.pc = pc /\ call' = [call EXCEPT ![j] = c]
    BY <1>1, <1>4 DEF Goto, Put, Call
  <2> HIDE DEF c, Goal
  <2> QED  BY <1>3, <1>4, <2>1
<1>5. CASE FindAccount(j) \/ CreateAccount(j) \/ ApplyLifecycleTransitions(j)
  BY <1>2, <1>4, <1>5 DEF FindAccount, CreateAccount, Throw, ApplyLifecycleTransitions
<1>6. CASE ReadAccount(j)
  <2> DEFINE c == [call[j] EXCEPT !.pc = "transit", !.seen = account]
  <2>1. c.op = call[j].op /\ c.pc = "transit"
    BY <1>1 DEF Call
  <2>2. Goto(j, "reread") \/ call' = [call EXCEPT ![j] = c]
    BY <1>6 DEF ReadAccount, Put
  <2>3. call[j].pc = "read" /\ UNCHANGED appVars
    BY <1>6 DEF ReadAccount
  <2> HIDE DEF c, Goal
  <2> QED  BY <1>3, <1>4, <2>1, <2>2, <2>3 DEF Goal
<1>7. CASE RereadAccount(j)
  <2> DEFINE c == [call[j] EXCEPT !.pc = "usage", !.seen = account]
  <2>1. c.op = call[j].op /\ c.pc = "usage"
    BY <1>1 DEF Call
  <2>2. \/ Return(j)
        \/ (Goto(j, "count") /\ call[j].op = "assert" /\ UNCHANGED appVars)
        \/ (call' = [call EXCEPT ![j] = c] /\ UNCHANGED appVars)
        \/ (Goto(j, "write") /\ UNCHANGED appVars)
    BY <1>7 DEF RereadAccount, Checked, Shown, Throw, Put
  <2>3. call[j].pc = "reread"
    BY <1>7 DEF RereadAccount
  <2> HIDE DEF c, Goal
  <2> QED  BY <1>2, <1>3, <1>4, <2>1, <2>2, <2>3 DEF Goal
<1>8. CASE ReadUsage(j)
  <2> DEFINE c == [call[j] EXCEPT !.pc = "charge", !.used = usage[call[j].seen.period]]
  <2>1. c.op = call[j].op /\ c.pc = "charge"
    BY <1>1 DEF Call
  <2>2. Return(j) \/ (call' = [call EXCEPT ![j] = c] /\ UNCHANGED appVars)
    BY <1>8 DEF ReadUsage, Throw, Put
  <2>3. call[j].pc = "usage"
    BY <1>8 DEF ReadUsage
  <2> HIDE DEF c, Goal
  <2> QED  BY <1>2, <1>3, <2>1, <2>2, <2>3 DEF Goal
<1>9. CASE CountInstallations(j) \/ RecordMeteredEvent(j)
  BY <1>2, <1>9 DEF CountInstallations, RecordMeteredEvent, Throw
<1>10. CASE ProcessRenewal(j) \/ MarkPaymentFailed(j)
  <2>1. PaymentNews(j) /\ call[j].pc = "write" /\ UNCHANGED appVars
    BY <1>10 DEF ProcessRenewal, MarkPaymentFailed
  <2>2. /\ call'[j].pc = "read" /\ call'[j].op = call[j].op
        /\ \A i \in Jobs \ {j} : call'[i].pc = call[i].pc /\ call'[i].op = call[i].op
    BY <1>1, <2>1 DEF PaymentNews, Call
  <2> QED  BY <2>1, <2>2
<1> QED  BY <1>5, <1>6, <1>7, <1>8, <1>9, <1>10 DEF BillingStep

LEMMA ShapeNext ==
  ASSUME IInv, NEW K, Shape(K), \A a \in AppNames : NewKey(a) \in K, [Next]_vars
  PROVE  Shape(K)'
<1>1. CASE UNCHANGED vars \/ Tick \/ Quiet
  BY <1>1 DEF vars, appVars, Tick, Quiet, Shape, Named, Linked
<1>2. call \in [Jobs -> Call]
  BY DEF IInv, Types
<1>3. ASSUME NEW j \in Jobs, NEW q \in JobOver(K), Moves(K, j, q), Linked(q, call'[j]),
             \A i \in Jobs \ {j} : call'[i].pc = call[i].pc /\ call'[i].op = call[i].op
      PROVE  Shape(K)'
  BY <1>3, OneRequest DEF Moves, Shape
<1>4. ASSUME NEW j \in Jobs, UNCHANGED appVars, Linked(job[j], call'[j]),
             \A i \in Jobs \ {j} : call'[i].pc = call[i].pc /\ call'[i].op = call[i].op
      PROVE  Shape(K)'
  BY <1>4 DEF appVars, Shape, Linked
<1>5. ASSUME NEW j \in Jobs, AppRequest(j) PROVE Shape(K)'
  <2>1. call' = call /\ call[j].pc = "idle"
    BY <1>5 DEF AppRequest
  <2>2. \A q : Linked(q, call'[j])
    BY <2>1 DEF Linked
  <2>3. CASE CommitInstall(j) \/ CommitRotate(j) \/ CommitUninstall(j)
    <3>1. IdleJob \in JobOver(K) /\ Named(IdleJob)
      BY Attempts DEF IdleJob, JobOver, Named
    <3> HIDE DEF IdleJob
    <3> QED  BY <2>1, <2>2, <2>3, <3>1, CommitShapes, OneRequest DEF Finish, PutJob
  <2> QED  BY <1>3, <1>5, <2>1, <2>2, <2>3, AppRequestMoves
<1>6. ASSUME NEW j \in Jobs, BillingStep(j) PROVE Shape(K)'
  <2>1. Linked(job[j], call[j])
    BY DEF Shape
  <2>2. CASE call'[j].pc = "idle"
    <3>1. \A q : Linked(q, call'[j])
      BY <2>2 DEF Linked
    <3> QED  BY <1>3, <1>4, <1>6, <3>1, CallLinks, BillingMoves
  <2>3. CASE call'[j].pc # "idle"
    <3>1. Linked(job[j], call'[j])
      BY <1>6, <2>1, <2>3, CallLinks DEF Linked
    <3> QED  BY <1>4, <1>6, <2>3, <3>1, CallLinks
  <2> QED  BY <2>2, <2>3
<1>7. ASSUME NEW j \in Jobs, NEW op \in BillingOps, NEW quantity \in Quantities, Start(j, op, quantity),
             UNCHANGED appVars, op = "assert" => job[j].pc = "entitlement"
      PROVE  Shape(K)'
  <2> DEFINE c == [IdleCall EXCEPT !.pc = "ensure", !.op = op, !.quantity = quantity, !.due = Lapsed]
  <2>1. c.pc = "ensure" /\ c.op = op /\ call' = [call EXCEPT ![j] = c]
    BY <1>7 DEF IdleCall, Start, Put
  <2> HIDE DEF c
  <2>2. Linked(job[j], call'[j]) /\ \A i \in Jobs \ {j} : call'[i] = call[i]
    BY <1>2, <1>7, <2>1 DEF Linked
  <2> QED  BY <1>4, <1>7, <2>2
<1>8. ASSUME NEW j \in Jobs, Bill(j) \/ AssertEntitlement(j) PROVE Shape(K)'
  <2>1. 1 \in Quantities /\ "assert" \in BillingOps
    BY BillingAssumption DEF BillingOps
  <2> QED  BY <1>7, <1>8, <2>1 DEF Bill, AssertEntitlement
<1> QED  BY <1>1, <1>5, <1>6, <1>8 DEF Next

LEMMA ShapeInit == ASSUME NEW K, Init PROVE Shape(K)
<1>1. IdleJob \in JobOver(K) /\ Named(IdleJob) /\ Linked(IdleJob, IdleCall)
  BY Attempts DEF IdleJob, JobOver, Named, Linked, IdleCall
<1> HIDE DEF IdleJob, IdleCall
<1> QED  BY <1>1 DEF Init, AppsInit, Shape
-----------------------------------------------------------------------------
(* Installations that overlap.                                             *)

Installed == {a \in AppNames : installation[a] = "installed"}
Through == {j \in Jobs : Passed(job[j])}
Room == IsFiniteSet(Installed)
        /\ Cardinality(Installed) + Cardinality(Through) <= AppsLimit + Cardinality(Jobs) - 1

LEMMA JobCount == Cardinality(Jobs) \in Nat /\ Cardinality(Jobs) >= 1 /\ AppsLimit \in Nat
<1>1. IsFiniteSet(Jobs) /\ Jobs # {}
  BY JobAssumption
<1>2. Cardinality(Jobs) \in Nat /\ Cardinality(Jobs) # 0
  BY <1>1, FS_CardinalityType, FS_EmptySet
<1> QED  BY <1>2, BillingAssumption

LEMMA ThroughCount ==
  ASSUME NEW S, S \subseteq Jobs
  PROVE  IsFiniteSet(S) /\ Cardinality(S) \in Nat /\ Cardinality(S) <= Cardinality(Jobs)
BY JobAssumption, FS_Subset, FS_CardinalityType

\* Fewer installations, or installations let through.
LEMMA RoomLess ==
  ASSUME Room, Installed' \subseteq Installed, Through' \subseteq Through
  PROVE  Room'
<1>1. /\ IsFiniteSet(Installed') /\ Cardinality(Installed') \in Nat /\ Cardinality(Installed) \in Nat
      /\ Cardinality(Installed') <= Cardinality(Installed)
  BY FS_Subset, FS_CardinalityType DEF Room
<1>2. /\ Cardinality(Through') \in Nat /\ Cardinality(Through) \in Nat
      /\ Cardinality(Through') <= Cardinality(Through)
  <2>1. IsFiniteSet(Through)
    BY ThroughCount DEF Through
  <2> QED  BY <2>1, FS_Subset, FS_CardinalityType
<1> QED  BY <1>1, <1>2, JobCount DEF Room

LEMMA RoomNext == ASSUME NEW K, Shape(K), Room, [Next]_vars PROVE Room'
<1>1. CASE UNCHANGED appVars
  BY <1>1, RoomLess DEF appVars, Installed, Through
<1>2. ASSUME NEW j \in Jobs, NEW q \in JobOver(K), Moves(K, j, q) PROVE Room'
  <2>1. job'[j] = q /\ (\A i \in Jobs \ {j} : job'[i] = job[i]) /\ Installed' = Installed
    BY <1>2 DEF Moves, Shape, Installed
  <2>2. CASE Passed(q) => Passed(job[j])
    <3>1. Through' \subseteq Through
      BY <2>1, <2>2 DEF Through, Passed
    <3> QED  BY <2>1, <3>1, RoomLess
  <2>3. CASE HasSlot(CountInstalled)
    <3>1. Cardinality(Installed) + 1 <= AppsLimit /\ IsFiniteSet(Installed)
      BY <2>3 DEF HasSlot, CountInstalled, Installed, Room
    <3>2. Cardinality(Installed) \in Nat
      BY <3>1, FS_CardinalityType
    <3>3. Cardinality(Through') \in Nat /\ Cardinality(Through') <= Cardinality(Jobs)
      BY ThroughCount DEF Through
    <3> QED  BY <2>1, <3>1, <3>2, <3>3, JobCount DEF Room
  <2> QED  BY <1>2, <2>2, <2>3 DEF Moves
<1>3. ASSUME NEW j \in Jobs, Finish(j) PROVE Through' = Through \ {j}
  <2>1. IdleJob.pc = "idle"
    BY DEF IdleJob
  <2> HIDE DEF IdleJob
  <2>2. job'[j] = IdleJob /\ \A i \in Jobs \ {j} : job'[i] = job[i]
    BY <1>3 DEF Finish, PutJob, Shape
  <2> QED  BY <2>1, <2>2 DEF Through, Passed
<1>4. ASSUME NEW j \in Jobs, CommitInstall(j) PROVE Room'
  <2>1. /\ job[j].pc = "commit" /\ job[j].op = "install" /\ Finish(j)
        /\ Installed' = Installed \/ Installed' = Installed \cup {job[j].app}
    BY <1>4 DEF CommitInstall, Shape, Installed
  <2>2. j \in Through /\ Through' = Through \ {j}
    BY <1>3, <2>1 DEF Through, Passed
  <2>3. IsFiniteSet(Through) /\ Cardinality(Through) \in Nat
    BY ThroughCount DEF Through
  <2>4. Cardinality(Through') = Cardinality(Through) - 1
    BY <2>2, <2>3, FS_RemoveElement
  <2>5. IsFiniteSet(Installed) /\ Cardinality(Installed) \in Nat
    BY FS_CardinalityType DEF Room
  <2>6. IsFiniteSet(Installed') /\ Cardinality(Installed') \in Nat
        /\ Cardinality(Installed') <= Cardinality(Installed) + 1
    <3>1. CASE Installed' = Installed
      BY <2>5, <3>1
    <3>2. CASE Installed' = Installed \cup {job[j].app}
      <4>1. IsFiniteSet(Installed')
        BY <2>5, <3>2, FS_AddElement
      <4>2. Cardinality(Installed') = Cardinality(Installed) \/ Cardinality(Installed') = Cardinality(Installed) + 1
        BY <2>5, <3>2, FS_AddElement
      <4> QED  BY <2>5, <4>1, <4>2
    <3> QED  BY <2>1, <3>1, <3>2
  <2> QED  BY <2>3, <2>4, <2>5, <2>6, JobCount DEF Room
<1>5. ASSUME NEW j \in Jobs, CommitRotate(j) \/ CommitUninstall(j) PROVE Room'
  <2>1. Finish(j) /\ Installed' \subseteq Installed
    BY <1>5 DEF CommitRotate, CommitUninstall, Shape, Installed
  <2> QED  BY <1>3, <2>1, RoomLess
<1> QED  BY <1>1, <1>2, <1>4, <1>5, NextMoves

\* A key that is out of stock is the same for every app.
SomeKeys == Keys \cup {CHOOSE k \in {} : TRUE}

LEMMA NewKeys == \A a \in AppNames : NewKey(a) \in SomeKeys
<1> SUFFICES ASSUME NEW a \in AppNames PROVE NewKey(a) \in SomeKeys
  OBVIOUS
<1>1. CASE Keys \ InUse(a) = {}
  BY <1>1 DEF NewKey, SomeKeys
<1>2. CASE Keys \ InUse(a) # {}
  BY <1>2 DEF NewKey, SomeKeys
<1> QED  BY <1>1, <1>2

\* However many installations are under way, the limit is passed by no more
\* than the requests beside the one that counted last: a request counts what
\* is installed just before it goes through, and installs at most one.
THEOREM OvershootStaysBounded == Spec => []OvershootBounded
<1>1. Init => Shape(SomeKeys) /\ Room
  <2> SUFFICES ASSUME Init PROVE Room
    BY ShapeInit
  <2>1. Installed = {} /\ Through = {}
    BY DEF Init, AppsInit, Installed, Through, Passed, IdleJob
  <2> QED  BY <2>1, JobCount, FS_EmptySet DEF Room
<1>2. IInv /\ Shape(SomeKeys) /\ Room /\ [Next]_vars => (Shape(SomeKeys) /\ Room)'
  BY ShapeNext, RoomNext, NewKeys
<1>3. Room => OvershootBounded
  BY DEF Room, Installed, Through, Passed, OvershootBounded, CountInstalled
<1> QED  BY <1>1, <1>2, <1>3, Invariant, PTL DEF Spec
-----------------------------------------------------------------------------
(* Keys that nobody has.                                                   *)

\* A secret is random: there is always one that is not in use.
KeysLeft == \A a \in AppNames : Keys \ InUse(a) # {}

LEMMA NewKeyIsNew == ASSUME KeysLeft, NEW a \in AppNames PROVE NewKey(a) \in Keys \ InUse(a)
BY DEF KeysLeft, NewKey

\* A commit changes the keys of its app, and adds one at most.
LEMMA CommitCredentials ==
  ASSUME NEW K, Shape(K), NEW j \in Jobs, CommitInstall(j) \/ CommitRotate(j) \/ CommitUninstall(j),
         job[j].app \in AppNames
  PROVE  /\ credential'[job[j].app] \subseteq credential[job[j].app] \cup {NewKey(job[j].app)}
         /\ \A b \in AppNames \ {job[j].app} : credential'[b] = credential[b]
<1> HIDE DEF NewKey
<1>1. CASE CommitInstall(j)
  BY <1>1 DEF CommitInstall, Shape
<1>2. CASE CommitRotate(j)
  BY <1>2 DEF CommitRotate, Shape
<1>3. CASE CommitUninstall(j)
  BY <1>3 DEF CommitUninstall, Shape
<1> QED  BY <1>1, <1>2, <1>3

Revoking == \A j \in Jobs : Rotating(job[j])

\* Credentials only lose keys but for one that is new, which no request is
\* to revoke.
LEMMA RevokingNext ==
  ASSUME NEW K, Shape(K), KeysLeft, Revoking, [Next]_vars PROVE Revoking'
<1>1. CASE UNCHANGED appVars
  BY <1>1 DEF appVars, Revoking, Rotating
<1>2. ASSUME NEW j \in Jobs, NEW q \in JobOver(K), Moves(K, j, q) PROVE Revoking'
  <2>1. job'[j] = q /\ (\A i \in Jobs \ {j} : job'[i] = job[i]) /\ credential' = credential
    BY <1>2 DEF Moves, Shape
  <2>2. Rotating(q)
    BY <1>2 DEF Moves
  <2> QED  BY <2>1, <2>2 DEF Revoking, Rotating
<1>3. ASSUME NEW j \in Jobs, CommitInstall(j) \/ CommitRotate(j) \/ CommitUninstall(j) PROVE Revoking'
  <2> DEFINE a == job[j].app
  <2>1. Finish(j) /\ a \in AppNames
    BY <1>3 DEF CommitInstall, CommitRotate, CommitUninstall, Shape, Named
  <2>2. credential'[a] \subseteq credential[a] \cup {NewKey(a)} /\ \A b \in AppNames \ {a} : credential'[b] = credential[b]
    BY <1>3, <2>1, CommitCredentials
  <2>3. ASSUME NEW i \in Jobs PROVE (Rotating(job[i]))'
    <3>1. CASE i = j
      <4>1. IdleJob.pc = "idle"
        BY DEF IdleJob
      <4> HIDE DEF IdleJob
      <4> QED  BY <2>1, <3>1, <4>1 DEF Finish, PutJob, Shape, Rotating
    <3>2. CASE i # j
      <4>1. job'[i] = job[i] /\ Rotating(job[i]) /\ (job[i].pc = "commit" => job[i].app \in AppNames)
        BY <2>1, <3>2 DEF Finish, PutJob, Shape, Revoking, Named
      <4>2. CASE job[i].pc = "commit" /\ job[i].app = a
        <5>1. job[i].revoked \subseteq InUse(a)
          BY <4>2 DEF InUse
        <5>2. NewKey(a) \notin job[i].revoked
          BY <2>1, <5>1, NewKeyIsNew
        <5> QED  BY <2>2, <4>1, <4>2, <5>2 DEF Rotating
      <4>3. CASE job[i].pc = "commit" /\ job[i].app # a
        BY <2>2, <4>1, <4>3 DEF Rotating
      <4> QED  BY <4>1, <4>2, <4>3 DEF Rotating
    <3> QED  BY <3>1, <3>2
  <2> QED  BY <2>3 DEF Revoking
<1> QED  BY <1>1, <1>2, <1>3, NextMoves

LEMMA RotationStep ==
  ASSUME NEW K, Shape(K), KeysLeft, Revoking, [Next]_vars, NEW j \in Jobs,
         job[j].pc = "commit", job[j].op = "rotate", credential # credential', job'[j] = IdleJob
  PROVE  job[j].revoked \cap credential'[job[j].app] = {}
<1>1. IdleJob # job[j]
  BY DEF IdleJob
<1> HIDE DEF IdleJob
<1>2. PICK i \in Jobs : CommitInstall(i) \/ CommitRotate(i) \/ CommitUninstall(i)
  BY NextMoves DEF appVars, Moves
<1>3. i = j
  BY <1>1, <1>2 DEF CommitInstall, CommitRotate, CommitUninstall, Finish, PutJob, Shape
<1>4. CommitRotate(j) /\ job[j].app \in AppNames
  BY <1>2, <1>3 DEF CommitInstall, CommitUninstall, Shape, Named
<1>5. credential'[job[j].app] = (credential[job[j].app] \ job[j].snapshot) \cup {NewKey(job[j].app)}
  BY <1>4 DEF CommitRotate, Shape
<1>6. NewKey(job[j].app) \notin job[j].revoked
  <2>1. job[j].revoked \subseteq InUse(job[j].app)
    BY DEF InUse
  <2> QED  BY <1>4, <2>1, NewKeyIsNew
<1>7. job[j].revoked \cap credential[job[j].app] \subseteq job[j].snapshot
  BY DEF Revoking, Rotating
<1> QED  BY <1>5, <1>6, <1>7

LEMMA KeyInvariant == Spec /\ []KeysLeft => [](IInv /\ Shape(Keys) /\ Revoking)
<1>1. Init => Shape(Keys) /\ Revoking
  BY ShapeInit DEF Init, AppsInit, IdleJob, Revoking, Rotating
<1>2. IInv /\ Shape(Keys) /\ Revoking /\ KeysLeft /\ [Next]_vars => (Shape(Keys) /\ Revoking)'
  BY ShapeNext, RevokingNext, NewKeyIsNew
<1> QED  BY <1>1, <1>2, Invariant, PTL DEF Spec

\* Whatever rotates, installs and uninstalls at the same time, a rotation
\* that commits leaves no key that was active when it found the app: its
\* snapshot has them, or they have gone, and no new key is one of them.
THEOREM RotationsRevoke == Spec /\ []KeysLeft => RotationRevokes
<1> DEFINE Revokes(j) == job[j].pc = "commit" /\ job[j].op = "rotate" /\ credential # credential' /\ job'[j] = IdleJob
                           => job[j].revoked \cap credential'[job[j].app] = {}
<1>1. ASSUME IInv /\ Shape(Keys) /\ Revoking, KeysLeft, [Next]_vars PROVE [\A j \in Jobs : Revokes(j)]_vars
  BY <1>1, RotationStep
<1> QED  BY <1>1, KeyInvariant, PTL DEF Spec, RotationRevokes

\* The rows, the requests and the calls are what the code builds.
THEOREM TypeCorrect == Spec /\ []KeysLeft => []TypeOK
<1>1. Spec => [](workload \in Workloads)
  <2>1. Init => workload \in Workloads
    BY DEF Init
  <2>2. workload \in Workloads /\ [Next]_vars => (workload \in Workloads)'
    <3> SUFFICES ASSUME [Next]_vars PROVE workload' = workload
      OBVIOUS
    <3> QED  BY DEF Next, vars, unbilled, Tick, Quiet, AppRequest, Bill, AssertEntitlement, BillingStep,
                    FindAccount, CreateAccount, ReadAccount, ApplyLifecycleTransitions, RereadAccount,
                    CountInstallations, ReadUsage, RecordMeteredEvent, ProcessRenewal, MarkPaymentFailed
  <2> QED  BY <2>1, <2>2, PTL DEF Spec
<1>2. ASSUME IInv, Shape(Keys), workload \in Workloads PROVE TypeOK
  BY <1>2 DEF IInv, Types, Shape, AppsTypeOK, JobOver, Job, TypeOK
<1> QED  BY <1>1, <1>2, KeyInvariant, PTL

\* The keys in use are finitely many: a step takes up those that are there
\* and at most one more.
Finite == /\ \A a \in AppNames : IsFiniteSet(credential[a])
          /\ \A j \in Jobs : IsFiniteSet(Knows(job[j]))

LEMMA FiniteNext == ASSUME NEW K, Shape(K), Finite, [Next]_vars PROVE Finite'
<1>1. CASE UNCHANGED appVars
  BY <1>1 DEF appVars, Finite, Knows
<1>2. Knows(IdleJob) = {}
  BY DEF Knows, IdleJob
<1>4. ASSUME NEW j \in Jobs, NEW q \in JobOver(K), Moves(K, j, q) PROVE Finite'
  <2>1. job'[j] = q /\ (\A i \in Jobs \ {j} : job'[i] = job[i]) /\ credential' = credential
    BY <1>4 DEF Moves, Shape
  <2>2. IsFiniteSet(Knows(q))
    <3>1. CASE q.app \in AppNames /\ Knows(q) \subseteq Knows(job[j]) \cup credential[q.app]
      <4>1. IsFiniteSet(Knows(job[j]) \cup credential[q.app])
        BY <3>1, FS_Union DEF Finite
      <4> QED  BY <3>1, <4>1, FS_Subset
    <3> QED  BY <1>4, <3>1, FS_EmptySet DEF Moves
  <2> QED  BY <2>1, <2>2 DEF Finite, Knows
<1>5. ASSUME NEW j \in Jobs, CommitInstall(j) \/ CommitRotate(j) \/ CommitUninstall(j) PROVE Finite'
  <2> DEFINE a == job[j].app
  <2>1. Finish(j) /\ a \in AppNames
    BY <1>5 DEF CommitInstall, CommitRotate, CommitUninstall, Shape, Named
  <2>2. job'[j] = IdleJob /\ \A i \in Jobs \ {j} : job'[i] = job[i]
    BY <2>1 DEF Finish, PutJob, Shape
  <2>3. credential'[a] \subseteq credential[a] \cup {NewKey(a)} /\ \A b \in AppNames \ {a} : credential'[b] = credential[b]
    BY <1>5, <2>1, CommitCredentials
  <2>4. IsFiniteSet(credential[a] \cup {NewKey(a)})
    BY <2>1, FS_AddElement DEF Finite
  <2>5. \A b \in AppNames : IsFiniteSet(credential'[b])
    BY <2>3, <2>4, FS_Subset DEF Finite
  <2>6. IsFiniteSet(Knows(IdleJob))
    BY <1>2, FS_EmptySet
  <2> HIDE DEF IdleJob
  <2> QED  BY <2>2, <2>5, <2>6 DEF Finite, Knows
<1> QED  BY <1>1, <1>4, <1>5, NextMoves

\* What finitely many requests know is finitely much.
LEMMA FiniteUnion ==
  ASSUME \A j \in Jobs : IsFiniteSet(Knows(job[j]))
  PROVE  IsFiniteSet(UNION {Knows(job[j]) : j \in Jobs})
<1> DEFINE S == {Knows(job[j]) : j \in Jobs}
           f == [j \in Jobs |-> Knows(job[j])]
<1>1. f \in Surjection(Jobs, S)
  BY DEF Surjection
<1>2. IsFiniteSet(S)
  BY <1>1, JobAssumption, FS_Surjection
<1> QED  BY <1>2, FS_UNION

\* With secrets that do not run out there is always a new one.
THEOREM SecretsLast == ASSUME ~IsFiniteSet(Keys) PROVE Spec => []KeysLeft
<1>1. Init => Shape(SomeKeys) /\ Finite
  <2>1. Knows(IdleJob) = {}
    BY DEF Knows, IdleJob
  <2> HIDE DEF IdleJob
  <2> QED  BY <2>1, ShapeInit, FS_EmptySet DEF Init, AppsInit, Finite
<1>2. IInv /\ Shape(SomeKeys) /\ Finite /\ [Next]_vars => (Shape(SomeKeys) /\ Finite)'
  BY ShapeNext, FiniteNext, NewKeys
<1>3. ASSUME Finite, NEW a \in AppNames PROVE Keys \ InUse(a) # {}
  <2>1. InUse(a) \subseteq credential[a] \cup UNION {Knows(job[j]) : j \in Jobs}
    BY DEF InUse, Knows
  <2>2. IsFiniteSet(credential[a] \cup UNION {Knows(job[j]) : j \in Jobs})
    BY <1>3, FiniteUnion, FS_Union DEF Finite
  <2>3. IsFiniteSet(InUse(a))
    BY <2>1, <2>2, FS_Subset
  <2> QED  BY <2>3, FS_Subset
<1>4. Finite => KeysLeft
  BY <1>3 DEF KeysLeft
<1> QED  BY <1>1, <1>2, <1>4, Invariant, PTL DEF Spec
=============================================================================
