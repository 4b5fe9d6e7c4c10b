--------------------------- MODULE MCRunExecution ---------------------------
(***************************************************************************)
(* Model checking of RunExecution.  Two attempts are enough for a retry    *)
(* whose first attempt still has calls in flight.                          *)
(***************************************************************************)
EXTENDS RunExecution

\* Executions end completed, or in an error that is retried or is not.
MCOutcomes ==
  {[status |-> "completed", err |-> "none"], [status |-> "failed", err |-> "transient"],
   [status |-> "blocked", err |-> "internal"]}

Env(maxLost, maxSweeps, cancels, interrupts, sandboxed) ==
  [lost |-> 0, maxLost |-> maxLost, maxSweeps |-> maxSweeps, cancels |-> cancels,
   interrupts |-> interrupts, sandboxed |-> sandboxed]

\* Two disturbances at a time of a run without a sandbox, and each of them for
\* a run that needs one.
MCEnvironments ==
  {Env(1, 1, FALSE, FALSE, FALSE), Env(0, 0, TRUE, TRUE, FALSE),
   Env(0, 1, TRUE, FALSE, FALSE),  Env(0, 1, FALSE, TRUE, FALSE),
   Env(1, 0, FALSE, FALSE, TRUE),  Env(0, 1, FALSE, FALSE, TRUE),
   Env(0, 0, TRUE, FALSE, TRUE),   Env(0, 0, FALSE, TRUE, TRUE)}
=============================================================================
