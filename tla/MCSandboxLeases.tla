-------------------------- MODULE MCSandboxLeases --------------------------
(* Small instances of the lease table: two organizations with a project and *)
(* an agent instance each, two sandboxes, three task runs (two of the first *)
(* instance) and two concurrent requests.                                   *)
EXTENDS SandboxLeases, TLC

CONSTANTS i1, i2, w1, w2, w3, o1, o2, p1, p2

MCHome == [w \in Workers |-> IF w = w3 THEN i2 ELSE i1]
MCOrgOf == [p \in Projects |-> IF p = p1 THEN o1 ELSE o2]
MCProjectOf == [i \in Instances |-> IF i = i1 THEN p1 ELSE p2]

Env(sandboxes, active, returning, ops, bindings, n, rounds, expire, crashes) ==
  [sandboxes |-> sandboxes, active |-> active, returning |-> returning, ops |-> ops,
   bindings |-> bindings, maxOps |-> n, rounds |-> rounds, locksExpire |-> expire,
   crashes |-> crashes]

(* Task runs alone: three runs, two rounds each, on two sandboxes.          *)
TaskRuns == Env(Sandboxes, Workers, Workers, {}, {NoScope}, 2, 0, FALSE, FALSE)

(* Requests that contend for the locks of one sandbox and two instances and *)
(* may fail or die holding them.                                            *)
Contention ==
  Env({1}, Admins \cup {w1}, {}, {"assign", "delete", "list"}, {NoScope},
      1, 0, FALSE, TRUE)

MCEnvironments == {TaskRuns, Contention}
=============================================================================
