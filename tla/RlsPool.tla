------------------------------- MODULE RlsPool -------------------------------
(***************************************************************************)
(* Row-level security behind a shared connection pool.                     *)
(*                                                                         *)
(* Requests, jobs and subscribers (tasks) carry a tenant in an             *)
(* AsyncLocalStorage and share the connections of one knex pool.  The      *)
(* framework patch copies the task's tenant into the session variable      *)
(* app.current_tenant of the connection when the pool hands it out and     *)
(* before every client.query, and remembers in a WeakMap what it has set,  *)
(* so as not to set it again.  The policies of the migrations compare that *)
(* session variable with a row's tenant_id.                                *)
(*                                                                         *)
(* knex is external: it runs BEGIN, the statements and COMMIT or ROLLBACK  *)
(* of a transaction on one connection, through a client of its own that    *)
(* either inherits the patched query method or does not                    *)
(* (HookInTransactions).  PostgreSQL undoes a session-level set_config on  *)
(* ROLLBACK when it ran inside the transaction.                            *)
(***************************************************************************)
EXTENDS Naturals

CONSTANTS
  Tenants,
  Conns,              \* slots of the pool
  Tasks,
  MaxStatements,      \* bound: statements of one transaction
  HookInTransactions, \* whether a transaction's client has the patched query
  ConfigMayFail,      \* whether set_config may fail (the error is logged only)
  Kinds,              \* the kinds of statement in this instance
  NoTenant,           \* null: admin mode; the session variable NULL or ''
  Unset,              \* no entry in the WeakMap
  NoConn

ASSUME TenantAssumption == NoTenant \notin Tenants /\ Unset \notin Tenants \cup {NoTenant}
ASSUME ConnAssumption   == NoConn \notin Conns
ASSUME BoundAssumption  == MaxStatements \in Nat \ {0}
\* "framework": no tenant predicate; "scoped": WHERE tenant_id = ...;
\* "token": WHERE invitation_token = ...; "insert": tenant_id by default.
AllKinds == {"framework", "scoped", "token", "insert"}

ASSUME KindAssumption   == Kinds \subseteq AllKinds
ASSUME SwitchAssumption == HookInTransactions \in BOOLEAN /\ ConfigMayFail \in BOOLEAN

Contexts == Tenants \cup {NoTenant}

VARIABLES
  session,  \* app.current_tenant of each connection
  saved,    \* its value when the open transaction began
  mapped,   \* connectionTenantMap
  task,
  stored    \* history: <<tenant of the task, tenant_id of the row>> of the
            \* committed rows whose tenant_id is the column's default, for
            \* tasks whose set_config has not failed

vars == <<session, saved, mapped, task, stored>>

Task == [pc     : {"idle", "waiting", "acquired", "query", "send", "done"},
         ctx    : Contexts,               \* tenantContextStorage.getStore()
         conn   : Conns \cup {NoConn},
         trx    : BOOLEAN,
         cmd    : {"BEGIN", "STATEMENT", "COMMIT", "ROLLBACK"},
         left   : 0..MaxStatements,       \* statements still to run
         kind   : AllKinds,
         asks   : SUBSET Contexts,        \* rows the statement is about, by tenant_id
         got    : SUBSET Contexts,        \* rows the last statement reached
         tags   : SUBSET Contexts,        \* rows inserted and not yet committed
         failed : BOOLEAN]                \* the last hook could not set the context

TypeOK ==
  /\ session \in [Conns -> Contexts]
  /\ saved   \in [Conns -> Contexts]
  /\ mapped  \in [Conns -> Contexts \cup {Unset}]
  /\ task    \in [Tasks -> Task]
  /\ stored  \subseteq Contexts \X Contexts

Idle == [pc |-> "idle", ctx |-> NoTenant, conn |-> NoConn, trx |-> FALSE,
         cmd |-> "STATEMENT", left |-> 0, kind |-> "scoped", asks |-> {}, got |-> {},
         tags |-> {}, failed |-> FALSE]

Init == /\ session = [c \in Conns |-> NoTenant]
        /\ saved   = [c \in Conns |-> NoTenant]
        /\ mapped  = [c \in Conns |-> Unset]
        /\ task    = [t \in Tasks |-> Idle]
        /\ stored  = {}

\* The policies: USING and WITH CHECK alike.  A row without a tenant_id
\* compares as NULL, never as equal.
RowVisible(setting, row) == setting = NoTenant \/ row = setting

Free(c) == \A t \in Tasks : task[t].conn # c

-----------------------------------------------------------------------------
(* Tasks begin, wait for a connection, and give it back.                   *)

Asked(kind) == IF kind = "framework" THEN {Contexts}
               ELSE IF kind = "insert" THEN {{}}
               ELSE {{x} : x \in Tenants}

Start(t) == \E x \in Contexts, kind \in Kinds, trx \in BOOLEAN, n \in 1..MaxStatements :
  \E asks \in Asked(kind) :
    /\ task[t].pc = "idle"
    /\ trx \/ n = 1
    /\ task' = [task EXCEPT ![t] = [Idle EXCEPT !.pc = "waiting", !.ctx = x, !.kind = kind,
                                                !.trx = trx, !.left = n, !.asks = asks,
                                                !.cmd = IF trx THEN "BEGIN" ELSE "STATEMENT"]]
    /\ UNCHANGED <<session, saved, mapped, stored>>

AcquireConnection(t) == \E c \in Conns :
  /\ task[t].pc = "waiting" /\ Free(c)
  /\ task' = [task EXCEPT ![t].pc = "acquired", ![t].conn = c]
  /\ UNCHANGED <<session, saved, mapped, stored>>

\* The pool's acquire timeout.
GiveUp(t) == /\ task[t].pc = "waiting"
             /\ task' = [task EXCEPT ![t] = Idle]
             /\ UNCHANGED <<session, saved, mapped, stored>>

\* A connection breaks or is reaped: its successor has neither a session
\* variable nor a WeakMap entry.  A task that held it fails.
Reconnect(c) ==
  /\ session' = [session EXCEPT ![c] = NoTenant]
  /\ saved'   = [saved EXCEPT ![c] = NoTenant]
  /\ mapped'  = [mapped EXCEPT ![c] = Unset]
  /\ task'    = [t \in Tasks |-> IF task[t].conn = c THEN Idle ELSE task[t]]
  /\ UNCHANGED stored

-----------------------------------------------------------------------------
(* The hooks: setTenantContextOnConnection with the task's tenant.         *)

InTransaction(t) == task[t].trx /\ task[t].cmd # "BEGIN"

\* Variants: an entry of any value is good enough; a missing tenant is not
\* cleared; the entry is made before the query and stays if that fails.
SetTenantContext_Once(c, x, ok) ==
  /\ mapped[c] # Unset => ok
  /\ ok \/ ConfigMayFail
  /\ session' = IF ok /\ mapped[c] = Unset THEN [session EXCEPT ![c] = x] ELSE session
  /\ mapped'  = IF ok /\ mapped[c] = Unset THEN [mapped EXCEPT ![c] = x] ELSE mapped
SetTenantContext_NoClear(c, x, ok) ==
  /\ mapped[c] = x \/ x = NoTenant => ok
  /\ ok \/ ConfigMayFail
  /\ session' = IF ok /\ mapped[c] # x /\ x # NoTenant THEN [session EXCEPT ![c] = x] ELSE session
  /\ mapped'  = IF ok /\ mapped[c] # x /\ x # NoTenant THEN [mapped EXCEPT ![c] = x] ELSE mapped

\* With an entry for x nothing is sent, so nothing can fail.
SetTenantContext(c, x, ok) ==
  /\ mapped[c] = x => ok
  /\ ok \/ ConfigMayFail
  /\ session' = IF ok /\ mapped[c] # x THEN [session EXCEPT ![c] = x] ELSE session
  /\ mapped'  = IF ok /\ mapped[c] # x THEN [mapped EXCEPT ![c] = x] ELSE mapped

\* Whether the client this task queries through has the patched query.
Hooked(t) == HookInTransactions \/ ~task[t].trx

AcquireHook(t) == \E ok \in BOOLEAN :
  /\ task[t].pc = "acquired"
  /\ SetTenantContext(task[t].conn, task[t].ctx, ok)
  /\ task' = [task EXCEPT ![t].pc = IF Hooked(t) THEN "query" ELSE "send", ![t].failed = ~ok]
  /\ UNCHANGED <<saved, stored>>

\* PostgreSQL refuses every command after a failed one until ROLLBACK.
QueryHook(t) == \E ok \in BOOLEAN :
  /\ task[t].pc = "query"
  /\ SetTenantContext(task[t].conn, task[t].ctx, ok)
  /\ task' = [task EXCEPT ![t].pc = "send", ![t].failed = ~ok,
                          ![t].cmd = IF ok \/ @ = "BEGIN" \/ ~task[t].trx THEN @ ELSE "ROLLBACK"]
  /\ UNCHANGED <<saved, stored>>

-----------------------------------------------------------------------------
(* The commands.                                                           *)

NextQuery(t) == IF Hooked(t) THEN "query" ELSE "send"

SendBegin(t) ==
  /\ task[t].pc = "send" /\ task[t].cmd = "BEGIN"
  /\ saved' = [saved EXCEPT ![task[t].conn] = session[task[t].conn]]
  /\ task' = [task EXCEPT ![t].pc = NextQuery(t), ![t].cmd = "STATEMENT"]
  /\ UNCHANGED <<session, mapped, stored>>

SendStatement(t) ==
  LET now == session[task[t].conn] IN
  /\ task[t].pc = "send" /\ task[t].cmd = "STATEMENT"
  /\ task' = [task EXCEPT ![t].pc = "done", ![t].left = @ - 1,
                          ![t].got = {row \in task[t].asks : RowVisible(now, row)},
                          ![t].tags = IF task[t].kind = "insert" /\ ~task[t].failed
                                      THEN @ \cup {now} ELSE @]
  /\ UNCHANGED <<session, saved, mapped, stored>>

\* In a transaction: the next statement, the commit after the last, or the
\* rollback of one whose callback throws.
Continue(t) ==
  /\ task[t].pc = "done" /\ task[t].trx
  /\ \/ /\ task[t].left > 0
        /\ task' = [task EXCEPT ![t].pc = NextQuery(t)]
     \/ /\ task[t].left = 0
        /\ task' = [task EXCEPT ![t].pc = NextQuery(t), ![t].cmd = "COMMIT"]
     \/ task' = [task EXCEPT ![t].pc = NextQuery(t), ![t].cmd = "ROLLBACK"]
  /\ UNCHANGED <<session, saved, mapped, stored>>

Committed(t) == {<<task[t].ctx, tag>> : tag \in task[t].tags}

SendCommit(t) ==
  /\ task[t].pc = "send" /\ task[t].cmd = "COMMIT"
  /\ stored' = stored \cup Committed(t)
  /\ task' = [task EXCEPT ![t] = Idle]
  /\ UNCHANGED <<session, saved, mapped>>

\* Variant: the connection of a failed transaction is not given back.
SendRollback_Leak(t) ==
  /\ task[t].pc = "send" /\ task[t].cmd = "ROLLBACK"
  /\ session' = [session EXCEPT ![task[t].conn] = saved[task[t].conn]]
  /\ task' = [task EXCEPT ![t].pc = "waiting", ![t].cmd = "BEGIN"]
  /\ UNCHANGED <<saved, mapped, stored>>

SendRollback(t) ==
  /\ task[t].pc = "send" /\ task[t].cmd = "ROLLBACK"
  /\ session' = [session EXCEPT ![task[t].conn] = saved[task[t].conn]]
  /\ task' = [task EXCEPT ![t] = Idle]
  /\ UNCHANGED <<saved, mapped, stored>>

\* A query outside a transaction is committed when it returns.
Release(t) ==
  /\ task[t].pc = "done" /\ ~task[t].trx
  /\ stored' = stored \cup Committed(t)
  /\ task' = [task EXCEPT ![t] = Idle]
  /\ UNCHANGED <<session, saved, mapped>>

Proceed(t) == \/ AcquireHook(t) \/ QueryHook(t)
              \/ SendBegin(t) \/ SendStatement(t) \/ Continue(t)
              \/ SendCommit(t) \/ SendRollback(t) \/ Release(t)

Next == \/ \E t \in Tasks : Start(t) \/ AcquireConnection(t) \/ GiveUp(t) \/ Proceed(t)
        \/ \E c \in Conns : Reconnect(c)

Spec == Init /\ [][Next]_vars

\* Statements return, and the pool serves those who wait in turn.
FairSpec == Spec /\ \A t \in Tasks : WF_vars(Proceed(t)) /\ SF_vars(AcquireConnection(t))

-----------------------------------------------------------------------------
(* What isolation rests on.                                                *)

\* A task of a tenant reaches rows of that tenant only, unless its own
\* set_config has failed: what other tasks did on the connection, and what
\* failed for them, does not matter.
TenantIsolation ==
  \A t \in Tasks : task[t].pc = "done" /\ ~task[t].failed /\ task[t].ctx # NoTenant
                     => task[t].got \subseteq {task[t].ctx}

\* A task reaches its own tenant's rows, a task without a tenant every row:
\* no tenant is left over from the connection's last user.
OwnRowsReached ==
  \A t \in Tasks : task[t].pc = "done" /\ ~task[t].failed
                     => {row \in task[t].asks : task[t].ctx \in {NoTenant, row}} \subseteq task[t].got

\* The WeakMap never claims a tenant the connection does not have: the
\* optimisation never skips a set_config that was needed.
MapIsTrue == \A c \in Conns : mapped[c] # Unset => mapped[c] = session[c]

\* A committed row that took its tenant_id from the column default belongs
\* to the tenant of the task that inserted it.
RowsBelong == \A pair \in stored : pair[1] = pair[2]

\* Every task that waits for a connection ends, whatever the others do.
TasksEnd == \A t \in Tasks : task[t].pc = "waiting" ~> task[t].pc = "idle"

-----------------------------------------------------------------------------
(* The inductive invariant behind the proofs.                              *)

Holds(t) == task[t].pc \notin {"idle", "waiting"}

\* No connection is held by two tasks.
Exclusive == \A t, u \in Tasks : task[t].conn = task[u].conn /\ Holds(t) /\ Holds(u) => t = u

TaskInv(t) ==
  LET q == task[t] IN
  /\ q.conn # NoConn <=> Holds(t)
  /\ ~q.trx => q.cmd = "STATEMENT"
  /\ q.trx /\ q.pc \in {"waiting", "acquired"} => q.cmd = "BEGIN"
  /\ q.pc = "query" => Hooked(t)
  /\ q.pc = "done" => q.cmd = "STATEMENT"
  /\ q.cmd = "BEGIN" => q.left > 0
  /\ q.cmd = "STATEMENT" /\ q.pc \in {"waiting", "acquired", "query", "send"} => q.left > 0
  /\ q.pc \in {"query", "send", "done"} /\ ~q.failed => session[q.conn] = q.ctx
  /\ Holds(t) /\ InTransaction(t) => saved[q.conn] = session[q.conn]
  /\ q.pc = "done" /\ ~q.failed => q.got = {row \in q.asks : RowVisible(q.ctx, row)}
  /\ \A tag \in q.tags : tag = q.ctx
  /\ q.failed => ConfigMayFail

IInv == /\ TypeOK
        /\ MapIsTrue
        /\ RowsBelong
        /\ Exclusive
        /\ \A t \in Tasks : TaskInv(t)
=============================================================================
