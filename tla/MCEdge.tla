-------------------------------- MODULE MCEdge --------------------------------
(* Two tenants, one actor of both, one address with a small allowance.     *)
EXTENDS Edge, TLC
CONSTANTS t1, t2, ip1, u1

Plain == [context |-> t1, named |-> t1, ip |-> ip1, marks |-> {}, method |-> "GET", scope |-> NoScope,
          webhook |-> FALSE, actor |-> NoActor, session |-> System, workload |-> "limits"]
Watched == [Plain EXCEPT !.actor = u1, !.session = t1, !.workload = "leakage"]

MCShapes == {
  Plain, [Plain EXCEPT !.webhook = TRUE, !.method = "POST", !.marks = {"report"}],
  [Plain EXCEPT !.workload = "mutations"],
  [Plain EXCEPT !.workload = "mutations", !.context = System, !.method = "POST", !.scope = "tenant-invite"],
  Watched, [Watched EXCEPT !.context = t2, !.marks = {"auth", "export"}],
  [Watched EXCEPT !.context = System, !.named = System, !.webhook = TRUE]}
Symmetry == Permutations(Requests) \cup Permutations(Deliveries)
=============================================================================
