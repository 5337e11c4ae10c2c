------------------------------- MODULE Billing -------------------------------
(***************************************************************************)
(* The billing account of one tenant, its metered usage, and the           *)
(* entitlement check that stands before an installation (Apps).            *)
(*                                                                         *)
(* A step is one statement.  The transaction of recordMeteredEvent is READ *)
(* COMMITTED: it reads the usage and commits a value computed from it.     *)
(* The clock counts days, which are long beside a request: it moves when   *)
(* no billing call is in progress.                                         *)
(***************************************************************************)
EXTENDS Apps

CONSTANTS
  AppsLimit, MeterLimit,           \* limit_value of the two entitlements
  TrialDays, GraceDays, MonthDays,
  Workloads,                       \* bound: the operations that arrive in one behaviour
  Quantities,                      \* of a metered event
  MaxTime, MaxEvents,              \* bounds: the clock, the metered quantity of a period
  NoAccount, NoDate, NoRow

ASSUME BillingAssumption ==
  /\ {AppsLimit, MeterLimit, TrialDays, MaxTime, MaxEvents} \subseteq Nat
  /\ {GraceDays, MonthDays} \subseteq Nat \ {0} /\ Quantities \subseteq Nat \ {0} /\ 1 \in Quantities

VARIABLES
  account,  \* the row of tenant_billing_account
  usage,    \* used_quantity of tenant_billing_usage, by period
  charged,  \* sum of the quantities in tenant_billing_meter_event, by period
  now,
  call,     \* the billing call of each request
  workload  \* the operations of this behaviour

vars == <<appVars, account, usage, charged, now, call, workload>>
unbilled == <<account, usage, charged, now, workload>>

Days == 0..(MaxTime + TrialDays + GraceDays)
Period(t) == t \div MonthDays
Periods == 0..Period(MaxTime)
Statuses == {"trialing", "active", "past_due", "grace_period", "suspended"}
Account == [status : Statuses, trialEnds : Days, graceEnds : Days \cup {NoDate}, period : Periods]

ASSUME NothingAssumption == NoAccount \notin Account /\ NoDate \notin Nat /\ NoRow \notin Nat

BillingOps == {"assert", "meter", "renew", "payment_failed", "overview"}
Call == [pc       : {"idle", "ensure", "create", "read", "transit", "reread", "count", "usage", "charge", "write"},
         op       : BillingOps,
         quantity : Quantities,
         seen     : Account \cup {NoAccount},
         used     : Nat \cup {NoRow},
         after    : BOOLEAN,             \* the payment has been recorded
         due      : BOOLEAN]             \* (history) no payment news since the account lapsed
IdleCall == [pc |-> "idle", op |-> "overview", quantity |-> 1, seen |-> NoAccount,
             used |-> NoRow, after |-> FALSE, due |-> FALSE]

Init == /\ AppsInit
        /\ account = NoAccount
        /\ usage = [p \in Periods |-> NoRow]
        /\ charged = [p \in Periods |-> 0]
        /\ now = 0
        /\ call = [j \in Jobs |-> IdleCall]
        /\ workload \in Workloads

Put(j, c) == call' = [call EXCEPT ![j] = c]
Return(j) == Put(j, IdleCall)
Goto(j, pc) == Put(j, [call[j] EXCEPT !.pc = pc, !.seen = NoAccount])

GraceOver(a) == a.status \in {"past_due", "grace_period"} /\ a.graceEnds # NoDate /\ a.graceEnds <= now
TrialOver(a) == a.status = "trialing" /\ a.trialEnds <= now
Lapsed == account # NoAccount /\ (account.status = "suspended" \/ GraceOver(account))

-----------------------------------------------------------------------------
(* ensureTenantBilling and applyLifecycleTransitions                       *)

Start(j, op, quantity) ==
  Put(j, [IdleCall EXCEPT !.pc = "ensure", !.op = op, !.quantity = quantity, !.due = Lapsed])

Bill(j) == \E op \in (BillingOps \ {"assert"}) \cap workload, quantity \in Quantities :
  /\ job[j].pc = "idle" /\ call[j].pc = "idle"
  /\ IF op = "meter" THEN \A p \in Periods : charged[p] < MaxEvents ELSE quantity = 1
  /\ Start(j, op, quantity) /\ UNCHANGED <<appVars, unbilled>>

AssertEntitlement(j) ==
  /\ job[j].pc = "entitlement" /\ call[j].pc = "idle"
  /\ Start(j, "assert", 1) /\ UNCHANGED <<appVars, unbilled>>

FindAccount(j) ==
  /\ call[j].pc = "ensure"
  /\ Goto(j, IF account = NoAccount THEN "create" ELSE "read")
  /\ UNCHANGED <<appVars, unbilled>>

\* What a failed call does to the request around it.
Throw(j) == /\ Return(j)
            /\ IF job[j].pc = "entitlement" THEN Finish(j) ELSE UNCHANGED job
            /\ UNCHANGED <<installation, credential>>

\* UNIQUE (tenant_id): the second of two inserts fails.
CreateAccount(j) ==
  /\ call[j].pc = "create"
  /\ IF account = NoAccount
     THEN /\ account' = [status |-> "trialing", trialEnds |-> now + TrialDays,
                         graceEnds |-> NoDate, period |-> Period(now)]
          /\ Goto(j, "read") /\ UNCHANGED appVars
     ELSE Throw(j) /\ UNCHANGED account
  /\ UNCHANGED <<usage, charged, now, workload>>

\* Variant: a past due account stays so.
Transition_PastDueStays(a) == IF TrialOver(a) THEN "past_due"
                              ELSE IF GraceOver(a) /\ a.status = "grace_period" THEN "suspended" ELSE a.status
Transition(a) == IF TrialOver(a) THEN "past_due"
                 ELSE IF GraceOver(a) THEN "suspended" ELSE a.status

ReadAccount(j) ==
  /\ call[j].pc = "read"
  /\ IF Transition(account) = account.status THEN Goto(j, "reread")
     ELSE Put(j, [call[j] EXCEPT !.pc = "transit", !.seen = account])
  /\ UNCHANGED <<appVars, unbilled>>

\* The columns named in the update, over whatever the row is by now.
ApplyLifecycleTransitions(j) == LET status == Transition(call[j].seen) IN
  /\ call[j].pc = "transit"
  /\ account' = IF status = "past_due"
                THEN [account EXCEPT !.status = status, !.graceEnds = now + GraceDays]
                ELSE [account EXCEPT !.status = status]
  /\ Goto(j, "reread")
  /\ UNCHANGED <<appVars, usage, charged, now, workload>>

-----------------------------------------------------------------------------
(* What the account is read for                                            *)

Refuses(status) == status = "suspended"

Checked(j) == /\ call[j].op \in {"assert", "meter"}
              /\ IF Refuses(account.status) THEN Throw(j)
                 ELSE /\ IF call[j].op = "assert" THEN Goto(j, "count")
                         ELSE Put(j, [call[j] EXCEPT !.pc = "usage", !.seen = account])
                      /\ UNCHANGED appVars

\* The status route shows the account before and after the payment.
Shown(j) == /\ call[j].op \notin {"assert", "meter"}
            /\ IF call[j].op = "overview" \/ call[j].after THEN Return(j) ELSE Goto(j, "write")
            /\ UNCHANGED appVars

RereadAccount(j) == /\ call[j].pc = "reread"
                    /\ Checked(j) \/ Shown(j)
                    /\ UNCHANGED unbilled

\* Variant: the installation about to be made is forgotten.
HasSlot_Current(installed) == installed <= AppsLimit
HasSlot(installed) == installed + 1 <= AppsLimit

CountInstallations(j) ==
  /\ call[j].pc = "count"
  /\ IF ~HasSlot(CountInstalled) THEN Throw(j)
     ELSE /\ Return(j)
          /\ PutJob(j, [job[j] EXCEPT !.pc = "findApp"]) /\ UNCHANGED <<installation, credential>>
  /\ UNCHANGED unbilled

Quantity(row) == IF row = NoRow THEN 0 ELSE row

WithinLimit(used, quantity) == used + quantity <= MeterLimit

ReadUsage(j) == LET row == usage[call[j].seen.period] IN
  /\ call[j].pc = "usage"
  /\ IF WithinLimit(Quantity(row), call[j].quantity)
     THEN Put(j, [call[j] EXCEPT !.pc = "charge", !.used = row]) /\ UNCHANGED appVars
     ELSE Throw(j)
  /\ UNCHANGED unbilled

\* Variant: the first event of a period is counted, and not recorded.
RecordMeteredEvent_FirstUnrecorded(j) == LET c == call[j] IN
  /\ c.pc = "charge"
  /\ usage' = [usage EXCEPT ![c.seen.period] = Quantity(c.used) + c.quantity]
  /\ charged' = IF c.used = NoRow THEN charged ELSE [charged EXCEPT ![c.seen.period] = @ + c.quantity]
  /\ Return(j) /\ UNCHANGED <<appVars, account, now, workload>>

\* UNIQUE (tenant_id, meter_key, period): of two first events one fails.
RecordMeteredEvent(j) == LET c == call[j] IN
  /\ c.pc = "charge"
  /\ IF c.used = NoRow /\ usage[c.seen.period] # NoRow
     THEN UNCHANGED <<usage, charged>>
     ELSE /\ usage' = [usage EXCEPT ![c.seen.period] = Quantity(c.used) + c.quantity]
          /\ charged' = [charged EXCEPT ![c.seen.period] = @ + c.quantity]
  /\ Return(j) /\ UNCHANGED <<appVars, account, now, workload>>

\* Payment news is no longer due anywhere; the route goes on to the overview.
PaymentNews(j) ==
  call' = [i \in Jobs |-> IF i = j THEN [call[i] EXCEPT !.pc = "read", !.after = TRUE, !.due = FALSE]
                          ELSE [call[i] EXCEPT !.due = FALSE]]

ProcessRenewal(j) ==
  /\ call[j].pc = "write" /\ call[j].op = "renew"
  /\ account' = [account EXCEPT !.status = "active", !.period = Period(now), !.graceEnds = NoDate]
  /\ PaymentNews(j) /\ UNCHANGED <<appVars, usage, charged, now, workload>>

\* Variant: hours taken for days.
MarkPaymentFailed_Days(j) ==
  /\ call[j].pc = "write" /\ call[j].op = "payment_failed"
  /\ account' = [account EXCEPT !.status = "grace_period", !.graceEnds = now + 24 * GraceDays]
  /\ PaymentNews(j) /\ UNCHANGED <<appVars, usage, charged, now, workload>>

MarkPaymentFailed(j) ==
  /\ call[j].pc = "write" /\ call[j].op = "payment_failed"
  /\ account' = [account EXCEPT !.status = "grace_period", !.graceEnds = now + GraceDays]
  /\ PaymentNews(j) /\ UNCHANGED <<appVars, usage, charged, now, workload>>

-----------------------------------------------------------------------------
\* Bound: days pass in the workloads with billing operations.
Tick == /\ now < MaxTime /\ workload \cap BillingOps # {}
        /\ \A j \in Jobs : call[j].pc = "idle"
        /\ now' = now + 1
        /\ UNCHANGED <<appVars, account, usage, charged, call, workload>>

\* No further request has to come.
Quiet == (\A j \in Jobs : job[j].pc = "idle" /\ call[j].pc = "idle") /\ UNCHANGED vars

AppRequest(j) == /\ call[j].pc = "idle"
                 /\ \/ "install" \in workload /\ RequestInstall(j)
                    \/ "uninstall" \in workload /\ RequestUninstall(j)
                    \/ "rotate" \in workload /\ RequestRotation(j)
                    \/ "publish" \in workload /\ ReceiveEvent(j)
                    \/ AppStep(j)
                 /\ UNCHANGED <<unbilled, call>>

BillingStep(j) ==
  \/ FindAccount(j) \/ CreateAccount(j) \/ ReadAccount(j) \/ ApplyLifecycleTransitions(j)
  \/ RereadAccount(j) \/ CountInstallations(j) \/ ReadUsage(j) \/ RecordMeteredEvent(j)
  \/ ProcessRenewal(j) \/ MarkPaymentFailed(j)

Next == \/ Tick \/ Quiet
        \/ \E j \in Jobs : AppRequest(j) \/ Bill(j) \/ AssertEntitlement(j) \/ BillingStep(j)

Spec == Init /\ [][Next]_vars
-----------------------------------------------------------------------------
(* Properties                                                              *)

\* The type invariant: rows, requests and calls have the columns and fields the code gives them.
TypeOK == /\ AppsTypeOK
          /\ account \in Account \cup {NoAccount}
          /\ usage \in [Periods -> Nat \cup {NoRow}]
          /\ charged \in [Periods -> Nat]
          /\ now \in 0..MaxTime
          /\ call \in [Jobs -> Call]
          /\ workload \in Workloads

\* recordMeteredEvent writes a sum computed from an earlier read: whatever
\* overlaps, the usage of a period stays within the limit and never exceeds
\* what its recorded events add up to.
UsageBounded == \A p \in Periods :
  Quantity(usage[p]) <= charged[p] /\ Quantity(usage[p]) <= MeterLimit

\* A request that arrives after the grace period is served only if payment
\* news has come in since: the transition it applies first cannot be lost.
NoServiceAfterGrace == \A j \in Jobs : call[j].pc \in {"count", "usage", "charge"} => ~call[j].due

\* Installations are counted before the row is inserted, so requests under
\* way together pass the limit: installed apps and installations that have
\* been let through never exceed it by more than the other requests.
OvershootBounded ==
  CountInstalled + Cardinality({j \in Jobs : job[j].op = "install" /\ job[j].pc \in {"findApp", "commit"}})
    <= AppsLimit + Cardinality(Jobs) - 1

\* When a rotation commits, no key that was active when the request found
\* the app is: whatever rotates at the same time, the old secret is revoked.
RotationRevokes ==
  [][\A j \in Jobs : job[j].pc = "commit" /\ job[j].op = "rotate" /\ credential # credential' /\ job'[j] = IdleJob
       => job[j].revoked \cap credential'[job[j].app] = {}]_vars

=============================================================================
