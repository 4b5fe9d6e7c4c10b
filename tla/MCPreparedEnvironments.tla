----------------------- MODULE MCPreparedEnvironments -----------------------
EXTENDS PreparedEnvironments

CONSTANTS u1, u2, p1, p2, i1

Never == MaxAge + 1

(* Two calls of one process for one environment: they share a build, may be *)
(* cancelled, and meet the sweep.                                           *)
Shared ==
  [users |-> {u1, u2}, home |-> [u \in Users |-> p1], key |-> [u \in Users |-> 1],
   reapers |-> {p1}, mortal |-> {}, idleTTL |-> 1, quota |-> 0, images |-> {i1},
   faults |-> 0, maxFaults |-> 1, late |-> FALSE]

(* Two processes with a call each; one of them may crash. *)
Hosts ==
  [Shared EXCEPT !.home = [u \in Users |-> IF u = u1 THEN p1 ELSE p2],
                 !.reapers = {p2}, !.mortal = {p1}]

(* Two sweeps at a time. *)
Sweeps == [Hosts EXCEPT !.reapers = {p1, p2}, !.users = {u1}, !.maxFaults = 0]

(* The builder works on for a client that is gone. *)
LateJobs == [Hosts EXCEPT !.late = TRUE, !.users = {u1}]

(* Two environments, room for one. *)
Quota ==
  [Shared EXCEPT !.key = [u \in Users |-> IF u = u1 THEN 1 ELSE 2],
                 !.idleTTL = Never, !.quota = 1, !.maxFaults = 0]

MCEnvironments == {Shared, Hosts, Sweeps, LateJobs, Quota}
=============================================================================
