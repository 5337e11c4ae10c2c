-------------------------------- MODULE Apps --------------------------------
(***************************************************************************)
(* The apps of one tenant: installation, secret rotation, uninstallation   *)
(* and the delivery of events to their webhooks.                           *)
(*                                                                         *)
(* A transaction is READ COMMITTED.  UPDATE app_credential works on the    *)
(* rows its snapshot shows, waits for a transaction that has them locked   *)
(* and skips what that one has deactivated; a row inserted meanwhile is    *)
(* not in the snapshot.  A transaction is therefore two steps: the         *)
(* snapshot of the credentials, and the commit.                            *)
(***************************************************************************)
EXTENDS Naturals, FiniteSets

CONSTANTS
  AppNames,      \* app_identifier: one row of app_installation each
  Keys,          \* credentials of an app; an inactive key may stand for a new one
  Jobs,          \* requests and events handled at a time
  NoApp

ASSUME AppAssumption == NoApp \notin AppNames
ASSUME JobAssumption == IsFiniteSet(Jobs) /\ Jobs # {}

MAX_WEBHOOK_DELIVERY_ATTEMPTS == 3

VARIABLES
  installation, \* status of the app_installation row, "none" without a row
  credential,   \* keys with is_active, by app
  job

appVars == <<installation, credential, job>>

Job == [pc       : {"idle", "entitlement", "findApp", "snapshot", "commit", "attempt", "log", "deadLetter"},
        op       : {"install", "uninstall", "rotate", "publish"},
        app      : AppNames \cup {NoApp},
        revoked  : SUBSET Keys,  \* (history) active when the app was found
        snapshot : SUBSET Keys,  \* active keys the UPDATE has seen
        targets  : SUBSET Keys,  \* subscriptions still to serve, by their credential
        attempt  : 0..MAX_WEBHOOK_DELIVERY_ATTEMPTS,
        ok       : BOOLEAN]      \* the last response

IdleJob == [pc |-> "idle", op |-> "publish", app |-> NoApp, revoked |-> {}, snapshot |-> {}, targets |-> {},
            attempt |-> 0, ok |-> FALSE]

AppsTypeOK ==
  /\ installation \in [AppNames -> {"none", "installed", "uninstalled"}]
  /\ credential \in [AppNames -> SUBSET Keys]
  /\ job \in [Jobs -> Job]

AppsInit == /\ installation = [a \in AppNames |-> "none"]
            /\ credential = [a \in AppNames |-> {}]
            /\ job = [j \in Jobs |-> IdleJob]

PutJob(j, q) == job' = [job EXCEPT ![j] = q]
Finish(j) == PutJob(j, IdleJob)

\* The key of an installation or a rotation: one that no active credential
\* is and no request knows.  Which one it is makes no difference.
InUse(a) == credential[a] \cup UNION {job[j].revoked \cup job[j].snapshot \cup job[j].targets :
                                      j \in {i \in Jobs : job[i].app = a}}
NewKey(a) == CHOOSE k \in Keys \ InUse(a) : TRUE

CountInstalled == Cardinality({a \in AppNames : installation[a] = "installed"})

-----------------------------------------------------------------------------
(* Routes and subscribers.  The install route asks for the entitlement     *)
(* first (Billing).                                                        *)

Request(j, op, pc) == \E app \in AppNames :
  /\ job[j].pc = "idle"
  /\ PutJob(j, [IdleJob EXCEPT !.pc = pc, !.op = op, !.app = app])
  /\ UNCHANGED <<installation, credential>>

\* A name that is missing is refused; a repeated request is a new one, for
\* the idempotency key is only echoed.
RequestInstall(j) == Request(j, "install", "entitlement")
\* The caller has confirmed the tenant.
RequestUninstall(j) == Request(j, "uninstall", "findApp")
RequestRotation(j) == Request(j, "rotate", "findApp")
\* The event carries the tenant, or the subscriber throws.
ReceiveEvent(j) == Request(j, "publish", "findApp")

\* installApp finds any row, uninstallApp any, rotateAppSecret an installed one.
Found(op, status) == IF op = "rotate" THEN status = "installed" ELSE status # "none"

FindApp(j) == LET q == job[j] IN
  /\ q.pc = "findApp" /\ q.op \in {"install", "uninstall", "rotate"}
  /\ IF Found(q.op, installation[q.app]) # (q.op = "install")
     THEN PutJob(j, [q EXCEPT !.pc = IF q.op = "install" THEN "commit" ELSE "snapshot",
                              !.revoked = IF q.op = "rotate" THEN credential[q.app] ELSE {}])
     ELSE Finish(j)
  /\ UNCHANGED <<installation, credential>>

\* UNIQUE (tenant_id, app_identifier) lets one of two installations pass.
CommitInstall(j) == LET q == job[j] IN
  /\ q.pc = "commit" /\ q.op = "install"
  /\ IF installation[q.app] = "none"
     THEN /\ installation' = [installation EXCEPT ![q.app] = "installed"]
          /\ credential' = [credential EXCEPT ![q.app] = {NewKey(q.app)}]
     ELSE UNCHANGED <<installation, credential>>
  /\ Finish(j)

SnapshotCredentials(j) == LET q == job[j] IN
  /\ q.pc = "snapshot"
  /\ PutJob(j, [q EXCEPT !.pc = "commit", !.snapshot = credential[q.app]])
  /\ UNCHANGED <<installation, credential>>

\* Variant: the old keys stay active.
CommitRotate_KeepOld(j) == LET q == job[j] IN
  /\ q.pc = "commit" /\ q.op = "rotate"
  /\ credential' = [credential EXCEPT ![q.app] = @ \cup {NewKey(q.app)}]
  /\ Finish(j) /\ UNCHANGED installation

CommitRotate(j) == LET q == job[j] IN
  /\ q.pc = "commit" /\ q.op = "rotate"
  /\ credential' = [credential EXCEPT ![q.app] = (@ \ q.snapshot) \cup {NewKey(q.app)}]
  /\ Finish(j) /\ UNCHANGED installation

\* Scopes and webhooks go with the installation.
CommitUninstall(j) == LET q == job[j] IN
  /\ q.pc = "commit" /\ q.op = "uninstall"
  /\ installation' = [installation EXCEPT ![q.app] = "uninstalled"]
  /\ credential' = [credential EXCEPT ![q.app] = @ \ q.snapshot]
  /\ Finish(j)

\* A statement of the transaction fails and all of it is undone.
Rollback(j) ==
  /\ job[j].pc \in {"snapshot", "commit"}
  /\ Finish(j) /\ UNCHANGED <<installation, credential>>

-----------------------------------------------------------------------------
(* Outbound webhooks                                                       *)

\* The join of the query: the active keys of an installed app.
Subscribed(app) == {k \in credential[app] : installation[app] = "installed"}

Serve(q, targets) == IF targets = {} THEN IdleJob
                     ELSE [q EXCEPT !.pc = "attempt", !.targets = targets, !.attempt = 1, !.ok = FALSE]

\* The join gives one subscription per webhook and active credential.
PublishEventToSubscribers(j) == LET q == job[j] IN
  /\ q.pc = "findApp" /\ q.op = "publish"
  /\ PutJob(j, Serve(q, Subscribed(q.app)))
  /\ UNCHANGED <<installation, credential>>

AttemptDelivery(j) == \E ok \in BOOLEAN :
  /\ job[j].pc = "attempt"
  /\ PutJob(j, [job[j] EXCEPT !.pc = "log", !.ok = ok])
  /\ UNCHANGED <<installation, credential>>

\* The first of the subscriptions is served; all see the same.
Served(q) == Serve(q, q.targets \ {CHOOSE k \in q.targets : TRUE})

LogDelivery(j) == LET q == job[j] IN
  /\ q.pc = "log"
  /\ PutJob(j, IF q.ok THEN Served(q)
               ELSE IF q.attempt < MAX_WEBHOOK_DELIVERY_ATTEMPTS
               THEN [q EXCEPT !.pc = "attempt", !.attempt = @ + 1]
               ELSE [q EXCEPT !.pc = "deadLetter"])
  /\ UNCHANGED <<installation, credential>>

\* An insert into the log that fails rejects the subscription's promise,
\* which allSettled ignores.
LogFails(j) == LET q == job[j] IN
  /\ q.pc \in {"log", "deadLetter"}
  /\ PutJob(j, Served(q)) /\ UNCHANGED <<installation, credential>>

LogDeadLetter(j) == LET q == job[j] IN
  /\ q.pc = "deadLetter"
  /\ PutJob(j, Served(q)) /\ UNCHANGED <<installation, credential>>

Webhook(j) == \/ PublishEventToSubscribers(j) \/ AttemptDelivery(j)
              \/ LogDelivery(j) \/ LogFails(j) \/ LogDeadLetter(j)

AppStep(j) == \/ FindApp(j) \/ CommitInstall(j) \/ SnapshotCredentials(j) \/ CommitRotate(j)
              \/ CommitUninstall(j) \/ Rollback(j) \/ Webhook(j)
=============================================================================
