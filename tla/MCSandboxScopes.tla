-------------------------- MODULE MCSandboxScopes --------------------------
(* Scenarios of the lease table and the scope bindings together, without    *)
(* liveness.                                                                *)
EXTENDS SandboxScopes, MCSandboxLeases

AdminSymmetry == Permutations(Admins)

(* What an unassigned sandbox may be bound to, for one of the two           *)
(* organizations: the other is like it.                                     *)
SomeBinding == {NoScope, [org |-> o1, project |-> Nobody], [org |-> o1, project |-> p1]}

(* Assignments and unassignments against deletions that may fail or die at  *)
(* any command, with a run that holds a sandbox.                            *)
Deletion ==
  Env(Sandboxes, Admins \cup {w1}, {}, {"assign", "unassign", "delete"}, {NoScope},
      1, 0, FALSE, TRUE)

(* Assignments against unassignments and cleanups.                          *)
Cleanup ==
  Env(Sandboxes, Admins \cup {w1}, {}, {"assign", "unassign", "clean"}, {NoScope},
      1, 0, FALSE, FALSE)

(* Assignments against a run that applies and releases and a reconciliation *)
(* round that writes stale rows.                                            *)
Races == Env({1}, Admins \cup {w1}, {w1}, {"assign"}, {NoScope}, 1, 1, FALSE, FALSE)

(* Batches of two sandboxes, and single ones with locks whose TTL runs out  *)
(* under a slow holder.                                                     *)
AnyScopeOp == {"assign", "toOrg", "fromOrg", "toProject", "fromProject", "claim"}
Batches == Env(Sandboxes, Admins, {}, AnyScopeOp, SomeBinding, 1, 0, FALSE, FALSE)
SlowHolder == Env({1}, Admins, {}, AnyScopeOp, SomeBinding, 1, 0, TRUE, FALSE)

ScopeEnvironments == {Deletion, Cleanup, Races, Batches, SlowHolder}
=============================================================================
