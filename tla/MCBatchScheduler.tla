-------------------------- MODULE MCBatchScheduler --------------------------
(***************************************************************************)
(* Two stages: three runs, two of them on a resource with one place, then  *)
(* one run that waits for them.  Two places of concurrency, so a freed     *)
(* place is contended by a first attempt and by a retry.                   *)
(***************************************************************************)
EXTENDS BatchScheduler

MCRuns    == 1..4
MCStageOf == <<1, 1, 1, 2>>
MCKeyOf   == <<"linux", "linux", "none", "linux">>
MCLimit   == [linux |-> 1]

\* The scheduler tells results apart by whether they completed, whether their
\* error class is retried, and (a run not started) whether they are cancelled.
MCOutcomes ==
  {[status |-> "completed", err |-> "none"], [status |-> "failed", err |-> "transient"],
   [status |-> "timed_out", err |-> "internal"], [status |-> "cancelled", err |-> "internal"]}
=============================================================================
