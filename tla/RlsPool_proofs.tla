----------------------------- MODULE RlsPool_proofs -----------------------------
(* Isolation over a shared pool, for any tenants, connections and tasks.    *)
(*                                                                          *)
(* A set_config inside a transaction would be undone by its rollback while  *)
(* the WeakMap kept the entry.  It takes both switches for that: a hooked   *)
(* transaction finds the tenant already set, unless the set_config of the   *)
(* acquisition failed; an unhooked one never calls set_config.              *)
EXTENDS RlsPool, TLAPS

OneSwitch == ~(HookInTransactions /\ ConfigMayFail)

LEMMA IdleType == Idle \in Task
BY BoundAssumption DEF Idle, Task, Contexts, AllKinds

\* A step of one task leaves the other tasks, and the connections it does
\* not hold, alone.
Local(t) == /\ \A u \in Tasks \ {t} : task'[u] = task[u]
            /\ \A c \in Conns \ {task[t].conn} : session'[c] = session[c] /\ saved'[c] = saved[c]

\* What a task holds is a connection.
LEMMA HeldConn ==
  ASSUME TypeOK, NEW t \in Tasks, TaskInv(t), Holds(t)
  PROVE  task[t].conn \in Conns
BY DEF TypeOK, Task, TaskInv

\* The facts about every other task survive such a step.
LEMMA OthersKept ==
  ASSUME IInv, NEW t \in Tasks, Local(t), NEW u \in Tasks, u # t
  PROVE  TaskInv(u)'
<1>1. task'[u] = task[u]
  BY DEF Local
<1>2. TaskInv(u) /\ TaskInv(t)
  BY DEF IInv
<1>3. Holds(u) => task[u].conn \in Conns \ {task[t].conn}
  BY <1>2, HeldConn, ConnAssumption DEF IInv, Exclusive, TaskInv
<1>4. Holds(u) => session'[task[u].conn] = session[task[u].conn]
                  /\ saved'[task[u].conn] = saved[task[u].conn]
  BY <1>3 DEF Local
<1>5. Holds(u)' = Holds(u) /\ InTransaction(u)' = InTransaction(u) /\ Hooked(u)' = Hooked(u)
  BY <1>1 DEF Holds, InTransaction, Hooked
<1>6. task[u].pc \in {"query", "send", "done"} => Holds(u)
  BY DEF Holds
<1> QED BY <1>1, <1>2, <1>4, <1>5, <1>6 DEF TaskInv, RowVisible

\* So does exclusive use, when the task keeps its connection or is idle.
LEMMA ExclusiveKept ==
  ASSUME IInv, NEW t \in Tasks, Local(t),
         task'[t].conn = task[t].conn \/ ~Holds(t)', Holds(t)' => Holds(t)
  PROVE  Exclusive'
BY DEF Local, IInv, Exclusive, Holds

\* Everything that is left to show of a step that commits nothing.
LEMMA StepKept ==
  ASSUME IInv, NEW t \in Tasks, Local(t),
         task'[t].conn = task[t].conn \/ ~Holds(t)', Holds(t)' => Holds(t),
         TypeOK', MapIsTrue', stored' = stored, TaskInv(t)'
  PROVE  IInv'
<1>1. \A u \in Tasks : TaskInv(u)'
  BY OthersKept
<1>2. Exclusive'
  BY ExclusiveKept
<1>3. RowsBelong'
  BY DEF IInv, RowsBelong
<1> QED BY <1>1, <1>2, <1>3 DEF IInv

\* A task whose control fields change within their types is still a task.
LEMMA StillTask ==
  ASSUME NEW q \in Task, NEW pc \in {"query", "send"}, NEW failed \in BOOLEAN
  PROVE  [q EXCEPT !.pc = pc, !.failed = failed] \in Task
BY DEF Task

LEMMA StartedTask ==
  ASSUME NEW x \in Contexts, NEW kind \in AllKinds, NEW trx \in BOOLEAN,
         NEW n \in 0..MaxStatements, NEW asks \in SUBSET Contexts,
         NEW cmd \in {"BEGIN", "STATEMENT", "COMMIT", "ROLLBACK"}
  PROVE  [Idle EXCEPT !.pc = "waiting", !.ctx = x, !.kind = kind, !.trx = trx,
                      !.left = n, !.asks = asks, !.cmd = cmd] \in Task
BY IdleType DEF Task

LEMMA StillTaskCmd ==
  ASSUME NEW q \in Task, NEW pc \in {"query", "send"}, NEW failed \in BOOLEAN,
         NEW cmd \in {"BEGIN", "STATEMENT", "COMMIT", "ROLLBACK"}
  PROVE  [q EXCEPT !.pc = pc, !.failed = failed, !.cmd = cmd] \in Task
BY DEF Task

LEMMA IdleInv ==
  ASSUME NEW t \in Tasks, task'[t] = Idle
  PROVE  TaskInv(t)' /\ ~Holds(t)'
BY DEF Idle, TaskInv, Holds, Hooked, InTransaction, RowVisible

-----------------------------------------------------------------------------
(* Beginning, waiting, giving up, and the loss of a connection.             *)

LEMMA StartStep ==
  ASSUME IInv, NEW t \in Tasks, Start(t)
  PROVE  IInv'
<1>1. PICK x \in Contexts, kind \in Kinds, trx \in BOOLEAN, n \in 1..MaxStatements :
        \E asks \in Asked(kind) :
          /\ task[t].pc = "idle"
          /\ trx \/ n = 1
          /\ task' = [task EXCEPT ![t] = [Idle EXCEPT !.pc = "waiting", !.ctx = x,
                                                      !.kind = kind, !.trx = trx, !.left = n,
                                                      !.asks = asks,
                                                      !.cmd = IF trx THEN "BEGIN" ELSE "STATEMENT"]]
          /\ UNCHANGED <<session, saved, mapped, stored>>
  BY Zenon DEF Start
<1>2. PICK asks \in Asked(kind) :
          /\ task[t].pc = "idle"
          /\ trx \/ n = 1
          /\ task' = [task EXCEPT ![t] = [Idle EXCEPT !.pc = "waiting", !.ctx = x,
                                                      !.kind = kind, !.trx = trx, !.left = n,
                                                      !.asks = asks,
                                                      !.cmd = IF trx THEN "BEGIN" ELSE "STATEMENT"]]
          /\ UNCHANGED <<session, saved, mapped, stored>>
  BY <1>1
<1>3. asks \subseteq Contexts
  BY DEF Asked, Contexts
<1>4. session' = session /\ saved' = saved /\ mapped' = mapped /\ stored' = stored
  BY <1>2
<1> DEFINE cmd == IF trx THEN "BEGIN" ELSE "STATEMENT"
           q == [Idle EXCEPT !.pc = "waiting", !.ctx = x, !.kind = kind, !.trx = trx,
                             !.left = n, !.asks = asks, !.cmd = cmd]
<1>5. q \in Task
  <2>1. n \in 0..MaxStatements /\ kind \in AllKinds /\ asks \in SUBSET Contexts
    BY <1>3, KindAssumption, BoundAssumption
  <2>2. cmd \in {"BEGIN", "STATEMENT", "COMMIT", "ROLLBACK"}
    OBVIOUS
  <2> HIDE DEF cmd
  <2> QED BY <2>1, <2>2, StartedTask
<1>6. task'[t] = q
  BY <1>2 DEF IInv, TypeOK
<1>7. TypeOK'
  BY <1>2, <1>4, <1>5 DEF IInv, TypeOK
<1>8. Local(t) /\ MapIsTrue'
  BY <1>2, <1>4 DEF Local, IInv, TypeOK, MapIsTrue
<1>9. TaskInv(t)' /\ ~Holds(t)'
  BY <1>6, BoundAssumption DEF Idle, TaskInv, Holds, Hooked, InTransaction
<1> QED BY <1>4, <1>7, <1>8, <1>9, StepKept

LEMMA GiveUpStep ==
  ASSUME IInv, NEW t \in Tasks, GiveUp(t)
  PROVE  IInv'
<1>1. task'[t] = Idle
  BY DEF GiveUp, IInv, TypeOK
<1>2. TypeOK'
  BY IdleType DEF GiveUp, IInv, TypeOK
<1>3. Local(t) /\ MapIsTrue' /\ stored' = stored
  BY DEF Local, GiveUp, IInv, TypeOK, MapIsTrue
<1> QED BY <1>1, <1>2, <1>3, IdleInv, StepKept

LEMMA AcquireStep ==
  ASSUME IInv, NEW t \in Tasks, AcquireConnection(t)
  PROVE  IInv'
<1>1. PICK c \in Conns : /\ task[t].pc = "waiting" /\ Free(c)
                         /\ task' = [task EXCEPT ![t].pc = "acquired", ![t].conn = c]
  BY DEF AcquireConnection
<1>2. UNCHANGED <<session, saved, mapped, stored>>
  BY DEF AcquireConnection
<1>3. task'[t] = [task[t] EXCEPT !.pc = "acquired", !.conn = c]
  BY <1>1 DEF IInv, TypeOK
<1>4. TypeOK'
  <2>1. task[t] \in Task
    BY DEF IInv, TypeOK
  <2>2. [task[t] EXCEPT !.pc = "acquired", !.conn = c] \in Task
    BY <2>1 DEF Task
  <2> QED BY <1>1, <1>2, <2>2 DEF IInv, TypeOK
<1>5. Local(t) /\ MapIsTrue' /\ RowsBelong'
  BY <1>1, <1>2 DEF Local, IInv, TypeOK, MapIsTrue, RowsBelong
<1>6. TaskInv(t)
  BY DEF IInv
<1>7. TaskInv(t)'
  BY <1>1, <1>2, <1>3, <1>6, ConnAssumption
     DEF IInv, TypeOK, Task, TaskInv, Holds, Hooked, InTransaction
<1>8. Exclusive'
  <2>1. \A u \in Tasks \ {t} : task'[u] = task[u] /\ task'[u].conn # c
    BY <1>1, <1>5 DEF Local, Free
  <2>2. task'[t].conn = c
    BY <1>3 DEF IInv, TypeOK, Task
  <2> QED BY <2>1, <2>2 DEF IInv, Exclusive, Holds
<1> QED BY <1>4, <1>5, <1>7, <1>8, OthersKept DEF IInv

LEMMA ReconnectStep ==
  ASSUME IInv, NEW c \in Conns, Reconnect(c)
  PROVE  IInv'
<1>1. TypeOK'
  <2>1. NoTenant \in Contexts
    BY DEF Contexts
  <2>2. session' \in [Conns -> Contexts]
    BY <2>1 DEF Reconnect, IInv, TypeOK
  <2>3. saved' \in [Conns -> Contexts]
    BY <2>1 DEF Reconnect, IInv, TypeOK
  <2>4. mapped' \in [Conns -> Contexts \cup {Unset}]
    BY DEF Reconnect, IInv, TypeOK
  <2>5. task' \in [Tasks -> Task]
    BY IdleType DEF Reconnect, IInv, TypeOK
  <2>6. stored' \subseteq Contexts \X Contexts
    BY DEF Reconnect, IInv, TypeOK
  <2> QED BY <2>2, <2>3, <2>4, <2>5, <2>6 DEF TypeOK
<1>2. MapIsTrue' /\ RowsBelong'
  BY DEF Reconnect, IInv, TypeOK, MapIsTrue, RowsBelong
<1>3. ASSUME NEW t \in Tasks PROVE TaskInv(t)'
  <2>1. CASE task[t].conn = c
    BY <2>1, IdleInv DEF Reconnect
  <2>2. CASE task[t].conn # c
    <3>1. task'[t] = task[t] /\ TaskInv(t)
      BY <2>2 DEF Reconnect, IInv
    <3>2. Holds(t)' = Holds(t) /\ InTransaction(t)' = InTransaction(t) /\ Hooked(t)' = Hooked(t)
      BY <3>1 DEF Holds, InTransaction, Hooked
    <3>3. Holds(t) => session'[task[t].conn] = session[task[t].conn]
                      /\ saved'[task[t].conn] = saved[task[t].conn]
      BY <2>2, <3>1, HeldConn DEF Reconnect, IInv, TypeOK
    <3>4. task[t].pc \in {"query", "send", "done"} => Holds(t)
      BY DEF Holds
    <3> QED BY <3>1, <3>2, <3>3, <3>4 DEF TaskInv, RowVisible
  <2> QED BY <2>1, <2>2
<1>4. Exclusive'
  <2>1. \A t \in Tasks : Holds(t)' => Holds(t) /\ task'[t].conn = task[t].conn
    BY DEF Reconnect, Holds, Idle
  <2> QED BY <2>1 DEF IInv, Exclusive
<1> QED BY <1>1, <1>2, <1>3, <1>4 DEF IInv

-----------------------------------------------------------------------------
(* The hooks.                                                               *)

\* What setTenantContextOnConnection does to its connection and the others.
LEMMA SetConfig ==
  ASSUME TypeOK, MapIsTrue, NEW c \in Conns, NEW x \in Contexts, NEW ok \in BOOLEAN,
         SetTenantContext(c, x, ok)
  PROVE  /\ session' \in [Conns -> Contexts]
         /\ mapped' \in [Conns -> Contexts \cup {Unset}]
         /\ MapIsTrue'
         /\ \A d \in Conns \ {c} : session'[d] = session[d]
         /\ ok => session'[c] = x
         /\ ~ok => ConfigMayFail /\ session'[c] = session[c]
<1>1. x # Unset
  BY TenantAssumption DEF Contexts
<1> QED BY <1>1 DEF TypeOK, MapIsTrue, SetTenantContext

LEMMA AcquireHookStep ==
  ASSUME IInv, NEW t \in Tasks, AcquireHook(t)
  PROVE  IInv'
<1>1. PICK ok \in BOOLEAN :
        /\ task[t].pc = "acquired"
        /\ SetTenantContext(task[t].conn, task[t].ctx, ok)
        /\ task' = [task EXCEPT ![t].pc = IF Hooked(t) THEN "query" ELSE "send",
                                ![t].failed = ~ok]
  BY DEF AcquireHook
<1>2. TaskInv(t) /\ Holds(t)
  BY <1>1 DEF IInv, Holds
<1>3. task[t].conn \in Conns /\ task[t].ctx \in Contexts
  BY <1>2, HeldConn DEF IInv, TypeOK, Task
<1> DEFINE pc == IF Hooked(t) THEN "query" ELSE "send"
<1>4. task'[t] = [task[t] EXCEPT !.pc = pc, !.failed = ~ok]
  BY <1>1 DEF IInv, TypeOK
<1>5. saved' = saved /\ stored' = stored
  BY DEF AcquireHook
<1>6. task' \in [Tasks -> Task]
  <2>1. task[t] \in Task /\ pc \in {"query", "send"} /\ (~ok) \in BOOLEAN
    BY DEF IInv, TypeOK
  <2> HIDE DEF pc
  <2>2. [task[t] EXCEPT !.pc = pc, !.failed = ~ok] \in Task
    BY <2>1, StillTask
  <2> QED BY <1>1, <2>2 DEF IInv, TypeOK, pc
<1>7. TypeOK' /\ MapIsTrue'
  BY <1>1, <1>3, <1>5, <1>6, SetConfig DEF IInv, TypeOK
<1>8. Local(t)
  BY <1>1, <1>3, <1>5, SetConfig DEF Local, IInv, TypeOK
<1>9. (ok => session'[task[t].conn] = task[t].ctx) /\ (~ok => ConfigMayFail)
  BY <1>1, <1>3, SetConfig DEF IInv
<1>10. TaskInv(t)'
  BY <1>1, <1>2, <1>4, <1>9
     DEF IInv, TypeOK, Task, TaskInv, Holds, Hooked, InTransaction
<1>11. task'[t].conn = task[t].conn
  BY <1>4
<1> QED BY <1>2, <1>5, <1>7, <1>8, <1>10, <1>11, StepKept

LEMMA QueryHookStep ==
  ASSUME OneSwitch, IInv, NEW t \in Tasks, QueryHook(t)
  PROVE  IInv'
<1>1. PICK ok \in BOOLEAN :
        /\ task[t].pc = "query"
        /\ SetTenantContext(task[t].conn, task[t].ctx, ok)
        /\ task' = [task EXCEPT ![t].pc = "send", ![t].failed = ~ok,
                                ![t].cmd = IF ok \/ @ = "BEGIN" \/ ~task[t].trx THEN @
                                           ELSE "ROLLBACK"]
  BY DEF QueryHook
<1>2. TaskInv(t) /\ Holds(t)
  BY <1>1 DEF IInv, Holds
<1>3. task[t].conn \in Conns /\ task[t].ctx \in Contexts
  BY <1>2, HeldConn DEF IInv, TypeOK, Task
<1> DEFINE cmd == IF ok \/ task[t].cmd = "BEGIN" \/ ~task[t].trx THEN task[t].cmd
                  ELSE "ROLLBACK"
<1>4. task'[t] = [task[t] EXCEPT !.pc = "send", !.failed = ~ok, !.cmd = cmd]
  BY <1>1 DEF IInv, TypeOK
<1>5. saved' = saved /\ stored' = stored
  BY DEF QueryHook
<1>6. task' \in [Tasks -> Task]
  <2>1. task[t] \in Task /\ (~ok) \in BOOLEAN
    BY DEF IInv, TypeOK
  <2>2. cmd \in {"BEGIN", "STATEMENT", "COMMIT", "ROLLBACK"}
    BY <2>1 DEF Task
  <2> HIDE DEF cmd
  <2>3. [task[t] EXCEPT !.pc = "send", !.failed = ~ok, !.cmd = cmd] \in Task
    BY <2>1, <2>2, StillTaskCmd
  <2> QED BY <1>1, <2>3 DEF IInv, TypeOK, cmd
<1>7. TypeOK' /\ MapIsTrue'
  BY <1>1, <1>3, <1>5, <1>6, SetConfig DEF IInv, TypeOK
<1>8. Local(t)
  BY <1>1, <1>3, <1>5, SetConfig DEF Local, IInv, TypeOK
<1>9. (ok => session'[task[t].conn] = task[t].ctx) /\ (~ok => ConfigMayFail)
  BY <1>1, <1>3, SetConfig DEF IInv
\* A hook inside a transaction finds the tenant there and changes nothing.
<1>10. InTransaction(t) => ok /\ session'[task[t].conn] = session[task[t].conn]
  <2> SUFFICES ASSUME InTransaction(t)
               PROVE  ok /\ session'[task[t].conn] = session[task[t].conn]
    OBVIOUS
  <2>1. ~ConfigMayFail
    BY <1>1, <1>2 DEF OneSwitch, TaskInv, Hooked, InTransaction
  <2>2. ok /\ ~task[t].failed
    BY <1>2, <1>9, <2>1 DEF TaskInv
  <2> QED BY <1>1, <1>2, <1>9, <2>2 DEF TaskInv
<1>11. task'[t].cmd = task[t].cmd
  BY <1>3, <1>4, <1>10 DEF InTransaction, IInv, TypeOK, Task
<1>12. task'[t].pc = "send" /\ task'[t].failed = ~ok /\ task'[t].conn = task[t].conn
       /\ task'[t].trx = task[t].trx /\ task'[t].ctx = task[t].ctx
       /\ task'[t].tags = task[t].tags /\ task'[t].left = task[t].left
  BY <1>4 DEF IInv, TypeOK, Task
<1>13. TaskInv(t)'
  BY <1>1, <1>2, <1>5, <1>9, <1>10, <1>11, <1>12 DEF TaskInv, Holds, Hooked, InTransaction
<1> QED BY <1>2, <1>5, <1>7, <1>8, <1>12, <1>13, StepKept

-----------------------------------------------------------------------------
(* The commands.                                                            *)

\* A step that neither calls set_config nor ends a transaction.
LEMMA CommandKept ==
  ASSUME IInv, NEW t \in Tasks, Holds(t), NEW q \in Task,
         task' = [task EXCEPT ![t] = q], q.conn = task[t].conn,
         session' = session, mapped' = mapped, stored' = stored,
         saved' \in [Conns -> Contexts],
         \A c \in Conns \ {task[t].conn} : saved'[c] = saved[c],
         TaskInv(t)'
  PROVE  IInv'
<1>1. TypeOK'
  BY DEF IInv, TypeOK
<1>2. task'[t] = q /\ Local(t)
  BY DEF Local, IInv, TypeOK
<1>3. MapIsTrue'
  BY DEF IInv, MapIsTrue
<1> QED BY <1>1, <1>2, <1>3, StepKept

LEMMA SendBeginStep ==
  ASSUME IInv, NEW t \in Tasks, SendBegin(t)
  PROVE  IInv'
<1> DEFINE pc == NextQuery(t)
           q == [task[t] EXCEPT !.pc = pc, !.cmd = "STATEMENT"]
<1>1. TaskInv(t) /\ Holds(t) /\ task[t] \in Task
  BY DEF SendBegin, IInv, Holds, TypeOK
<1>2. task[t].conn \in Conns
  BY <1>1, HeldConn DEF IInv
<1>3. q \in Task
  <2>1. pc \in {"query", "send"}
    BY DEF NextQuery
  <2> HIDE DEF pc
  <2> QED BY <1>1, <2>1 DEF Task
<1>4. task' = [task EXCEPT ![t] = q] /\ task'[t] = q
  BY DEF SendBegin, IInv, TypeOK
<1>5. saved' \in [Conns -> Contexts] /\ saved'[task[t].conn] = session[task[t].conn]
      /\ \A c \in Conns \ {task[t].conn} : saved'[c] = saved[c]
  BY <1>2 DEF SendBegin, IInv, TypeOK
<1>6. session' = session /\ mapped' = mapped /\ stored' = stored
  BY DEF SendBegin
<1>7. TaskInv(t)'
  BY <1>1, <1>4, <1>5, <1>6
     DEF SendBegin, TaskInv, NextQuery, Holds, Hooked, InTransaction, Task
<1>8. q.conn = task[t].conn
  BY <1>1 DEF Task
<1> HIDE DEF q
<1> QED BY <1>1, <1>3, <1>4, <1>5, <1>6, <1>7, <1>8, CommandKept

LEMMA SendStatementStep ==
  ASSUME IInv, NEW t \in Tasks, SendStatement(t)
  PROVE  IInv'
<1> DEFINE now == session[task[t].conn]
           reached == {row \in task[t].asks : RowVisible(now, row)}
           tags == IF task[t].kind = "insert" /\ ~task[t].failed
                   THEN task[t].tags \cup {now} ELSE task[t].tags
           n == task[t].left - 1
           q == [task[t] EXCEPT !.pc = "done", !.left = n, !.got = reached, !.tags = tags]
<1>1. TaskInv(t) /\ Holds(t) /\ task[t] \in Task
  BY DEF SendStatement, IInv, Holds, TypeOK
<1>2. task[t].conn \in Conns
  BY <1>1, HeldConn DEF IInv
<1>3. q \in Task
  <2>1. n \in 0..MaxStatements
    <3>1. task[t].left \in 0..MaxStatements /\ task[t].left > 0
      BY <1>1 DEF SendStatement, TaskInv, Task
    <3> QED BY <3>1, BoundAssumption
  <2>2. reached \in SUBSET Contexts
    BY <1>1 DEF Task
  <2>3. tags \in SUBSET Contexts
    BY <1>1, <1>2 DEF IInv, TypeOK, Task
  <2> HIDE DEF n, reached, tags
  <2> QED BY <1>1, <2>1, <2>2, <2>3 DEF Task
<1>4. task' = [task EXCEPT ![t] = q] /\ task'[t] = q
  BY DEF SendStatement, IInv, TypeOK
<1>5. UNCHANGED <<session, saved, mapped, stored>>
  BY DEF SendStatement
<1>6. ~task[t].failed => now = task[t].ctx
  BY <1>1 DEF SendStatement, TaskInv
<1>7. TaskInv(t)'
  <2> HIDE DEF now
  <2>1. \A tag \in tags : tag = task[t].ctx
    BY <1>1, <1>6 DEF TaskInv
  <2>2. ~task[t].failed => reached = {row \in task[t].asks : RowVisible(task[t].ctx, row)}
    BY <1>6
  <2>3. /\ q.pc = "done" /\ q.got = reached /\ q.tags = tags /\ q.conn = task[t].conn
        /\ q.trx = task[t].trx /\ q.cmd = "STATEMENT" /\ q.ctx = task[t].ctx
        /\ q.asks = task[t].asks /\ q.failed = task[t].failed
    BY <1>1 DEF Task, SendStatement
  <2> HIDE DEF reached, tags, q
  <2> QED BY <1>1, <1>4, <1>5, <1>6, <2>1, <2>2, <2>3
          DEF now, SendStatement, TaskInv, Holds, Hooked, InTransaction, RowVisible
<1>8. q.conn = task[t].conn /\ saved' \in [Conns -> Contexts]
  BY <1>1, <1>5 DEF IInv, TypeOK, Task
<1> HIDE DEF q
<1> QED BY <1>1, <1>3, <1>4, <1>5, <1>7, <1>8, CommandKept

LEMMA ContinueStep ==
  ASSUME IInv, NEW t \in Tasks, Continue(t)
  PROVE  IInv'
<1> DEFINE pc == NextQuery(t)
<1>1. PICK cmd \in {"STATEMENT", "COMMIT", "ROLLBACK"} :
        /\ task' = [task EXCEPT ![t] = [task[t] EXCEPT !.pc = pc, !.cmd = cmd]]
        /\ cmd = "STATEMENT" => task[t].left > 0
  <2> DEFINE Goes(cmd) == task' = [task EXCEPT ![t] = [task[t] EXCEPT !.pc = pc, !.cmd = cmd]]
  <2>1. task[t] \in Task /\ task[t].cmd = "STATEMENT"
    BY DEF Continue, IInv, TypeOK, TaskInv
  <2>2. \/ task[t].left > 0 /\ task' = [task EXCEPT ![t].pc = pc]
        \/ task' = [task EXCEPT ![t].pc = pc, ![t].cmd = "COMMIT"]
        \/ task' = [task EXCEPT ![t].pc = pc, ![t].cmd = "ROLLBACK"]
    BY DEF Continue
  <2>3. [task[t] EXCEPT !.pc = pc] = [task[t] EXCEPT !.pc = pc, !.cmd = "STATEMENT"]
    BY <2>1 DEF Task
  <2>4. \/ task[t].left > 0 /\ Goes("STATEMENT")
        \/ Goes("COMMIT")
        \/ Goes("ROLLBACK")
    BY <2>2, <2>3
  <2> QED BY <2>4
<1> DEFINE q == [task[t] EXCEPT !.pc = pc, !.cmd = cmd]
<1>2. TaskInv(t) /\ Holds(t) /\ task[t] \in Task
  BY DEF Continue, IInv, Holds, TypeOK
<1>3. q \in Task
  <2>1. pc \in {"query", "send"}
    BY DEF NextQuery
  <2> HIDE DEF pc
  <2> QED BY <1>2, <2>1 DEF Task
<1>4. task'[t] = q
  BY <1>1 DEF IInv, TypeOK
<1>5. UNCHANGED <<session, saved, mapped, stored>>
  BY DEF Continue
<1>6. TaskInv(t)'
  BY <1>1, <1>2, <1>4, <1>5
     DEF Continue, TaskInv, NextQuery, Holds, Hooked, InTransaction, Task
<1>7. /\ q.conn = task[t].conn /\ saved' \in [Conns -> Contexts]
      /\ task' = [task EXCEPT ![t] = q]
  BY <1>1, <1>2, <1>5 DEF IInv, TypeOK, Task
<1> HIDE DEF q
<1> QED BY <1>2, <1>3, <1>5, <1>6, <1>7, CommandKept

-----------------------------------------------------------------------------
(* The ends: commit, rollback, and a query that returns.                    *)

\* Committed rows belong to the task that inserted them.
LEMMA EndKept ==
  ASSUME IInv, NEW t \in Tasks, task' = [task EXCEPT ![t] = Idle],
         session' = session, saved' = saved, mapped' = mapped,
         stored' = stored \/ stored' = stored \cup Committed(t)
  PROVE  IInv'
<1>1. task'[t] = Idle /\ Local(t)
  BY DEF Local, IInv, TypeOK
<1>2. task[t] \in Task /\ TaskInv(t)
  BY DEF IInv, TypeOK
<1>3. \A pair \in Committed(t) : pair \in Contexts \X Contexts /\ pair[1] = pair[2]
  BY <1>2 DEF Committed, Task, TaskInv
<1>4. TypeOK'
  BY <1>3, IdleType DEF IInv, TypeOK
<1>5. MapIsTrue' /\ RowsBelong'
  BY <1>3 DEF IInv, MapIsTrue, RowsBelong
<1>6. TaskInv(t)' /\ ~Holds(t)'
  BY <1>1, IdleInv
<1>7. \A u \in Tasks : TaskInv(u)'
  BY <1>1, <1>6, OthersKept
<1>8. Exclusive'
  BY <1>1, <1>6, ExclusiveKept
<1> QED BY <1>4, <1>5, <1>7, <1>8 DEF IInv

\* The rollback restores the tenant the transaction began with, which is the
\* one the connection still has.
LEMMA SendRollbackStep ==
  ASSUME IInv, NEW t \in Tasks, SendRollback(t)
  PROVE  IInv'
<1>1. TaskInv(t) /\ Holds(t) /\ InTransaction(t)
  BY DEF SendRollback, IInv, Holds, InTransaction, TaskInv
<1>2. task[t].conn \in Conns
  BY <1>1, HeldConn DEF IInv
<1>3. session' = session
  BY <1>1, <1>2 DEF SendRollback, TaskInv, IInv, TypeOK
<1> QED BY <1>3, EndKept DEF SendRollback

LEMMA StutterStep ==
  ASSUME IInv, UNCHANGED vars
  PROVE  IInv'
<1>1. TypeOK' /\ MapIsTrue' /\ RowsBelong' /\ Exclusive'
  BY DEF vars, IInv, TypeOK, MapIsTrue, RowsBelong, Exclusive, Holds
<1>2. ASSUME NEW t \in Tasks PROVE TaskInv(t)'
  BY DEF vars, IInv, TaskInv, Holds, Hooked, InTransaction, RowVisible
<1> QED BY <1>1, <1>2 DEF IInv

LEMMA InitHolds == Init => IInv
<1> SUFFICES ASSUME Init PROVE IInv
  OBVIOUS
<1>1. TypeOK
  BY IdleType DEF Init, TypeOK, Contexts
<1>2. MapIsTrue /\ RowsBelong
  BY DEF Init, MapIsTrue, RowsBelong
<1>3. \A t \in Tasks : TaskInv(t) /\ ~Holds(t)
  BY DEF Init, Idle, TaskInv, Holds, Hooked, InTransaction
<1> QED BY <1>1, <1>2, <1>3 DEF IInv, Exclusive

LEMMA NextKept ==
  ASSUME OneSwitch, IInv, [Next]_vars
  PROVE  IInv'
<1>1. ASSUME NEW t \in Tasks, Start(t) PROVE IInv'
  BY <1>1, StartStep
<1>2. ASSUME NEW t \in Tasks, AcquireConnection(t) PROVE IInv'
  BY <1>2, AcquireStep
<1>3. ASSUME NEW t \in Tasks, GiveUp(t) PROVE IInv'
  BY <1>3, GiveUpStep
<1>4. ASSUME NEW t \in Tasks, AcquireHook(t) PROVE IInv'
  BY <1>4, AcquireHookStep
<1>5. ASSUME NEW t \in Tasks, QueryHook(t) PROVE IInv'
  BY <1>5, QueryHookStep
<1>6. ASSUME NEW t \in Tasks, SendBegin(t) PROVE IInv'
  BY <1>6, SendBeginStep
<1>7. ASSUME NEW t \in Tasks, SendStatement(t) PROVE IInv'
  BY <1>7, SendStatementStep
<1>8. ASSUME NEW t \in Tasks, Continue(t) PROVE IInv'
  BY <1>8, ContinueStep
<1>9. ASSUME NEW t \in Tasks, SendCommit(t) PROVE IInv'
  BY <1>9, EndKept DEF SendCommit
<1>10. ASSUME NEW t \in Tasks, SendRollback(t) PROVE IInv'
  BY <1>10, SendRollbackStep
<1>11. ASSUME NEW t \in Tasks, Release(t) PROVE IInv'
  BY <1>11, EndKept DEF Release
<1>12. ASSUME NEW c \in Conns, Reconnect(c) PROVE IInv'
  BY <1>12, ReconnectStep
<1>13. CASE UNCHANGED vars
  BY <1>13, StutterStep
<1> QED BY <1>1, <1>2, <1>3, <1>4, <1>5, <1>6, <1>7, <1>8, <1>9, <1>10, <1>11, <1>12, <1>13
        DEF Next, Proceed

-----------------------------------------------------------------------------
(* The theorems.                                                            *)

\* The inductive invariant holds of the patch's hooks over any pool.
THEOREM Invariance ==
  ASSUME OneSwitch
  PROVE  Spec => []IInv
<1>1. Init => IInv
  BY InitHolds
<1>2. IInv /\ [Next]_vars => IInv'
  BY NextKept
<1> QED BY <1>1, <1>2, PTL DEF Spec

\* Types: connections, contexts and tasks stay what they are.
THEOREM PoolTypes ==
  ASSUME OneSwitch
  PROVE  Spec => []TypeOK
<1>1. IInv => TypeOK
  BY DEF IInv
<1> QED BY <1>1, Invariance, PTL

\* A tenant's task whose set_config has not failed reaches rows of its
\* tenant only, however connections are shared, reused, broken or rolled back.
THEOREM Isolation ==
  ASSUME OneSwitch
  PROVE  Spec => []TenantIsolation
<1>1. IInv => TenantIsolation
  BY DEF IInv, TaskInv, TenantIsolation, RowVisible
<1> QED BY <1>1, Invariance, PTL

\* Nothing is left over from the connection's last user: a task reaches all
\* its own rows, and a task without a tenant all rows.
THEOREM OwnRows ==
  ASSUME OneSwitch
  PROVE  Spec => []OwnRowsReached
<1>1. IInv => OwnRowsReached
  BY DEF IInv, TaskInv, OwnRowsReached, RowVisible
<1> QED BY <1>1, Invariance, PTL

\* The WeakMap is right about every connection, so that a skipped set_config
\* was never needed.
THEOREM MapTrue ==
  ASSUME OneSwitch
  PROVE  Spec => []MapIsTrue
<1>1. IInv => MapIsTrue
  BY DEF IInv
<1> QED BY <1>1, Invariance, PTL

\* Committed rows with a default tenant_id belong to their writer's tenant.
THEOREM TagsRight ==
  ASSUME OneSwitch
  PROVE  Spec => []RowsBelong
<1>1. IInv => RowsBelong
  BY DEF IInv
<1> QED BY <1>1, Invariance, PTL
=============================================================================
