--------------------------- MODULE BatchHeartbeat ---------------------------
(***************************************************************************)
(* The liveness of a batch against the clock.  The owner seeds liveness_at *)
(* when it creates the batch, and while it executes the runs a beater      *)
(* refreshes it every Interval with a call that ends within RpcDeadline;   *)
(* enough failures in a row abort the owner.  A replacement process sweeps *)
(* batches that were silent for more than StaleAfter, once when it starts  *)
(* and once a stale window and an interval later.  Time is counted in      *)
(* ticks and does not pass while something is due.                         *)
(***************************************************************************)
EXTENDS Integers

CONSTANTS
  Interval,     \* TASK_RUNTIME_HEARTBEAT_INTERVAL_SECONDS
  RpcDeadline,  \* TASK_RUNTIME_REVERSE_RPC_TIMEOUT_SECONDS
  StaleAfter,   \* TASK_RUNTIME_STALE_RUN_AFTER_MS; 0 would disable what follows
  MaxCreate,    \* how long the creation of the runs takes at most
  MaxAge        \* bound: the longest silence that is followed

ASSUME HeartbeatAssumption ==
  /\ Interval \in Nat \ {0} /\ RpcDeadline \in Nat \ {0} /\ StaleAfter \in Nat \ {0}
  /\ MaxCreate \in Nat /\ MaxAge \in Nat

\* abort_after_failures: at least one.
abort_after_failures ==
  IF StaleAfter \div Interval > 1 THEN StaleAfter \div Interval ELSE 1

\* Mutated form: no safety margin.
startup_reconcile_delay_noMargin == StaleAfter

startup_reconcile_delay == StaleAfter + Interval

VARIABLES
  owner,     \* creating, executing, finalizing, aborting, closed or dead
  beat,      \* the beater: asleep, in a call, or stopped
  timer,     \* ticks the beater has slept, or waited for its call
  failures,  \* consecutive_failures
  age,       \* ticks since liveness_at
  standby,   \* the replacement's reconciler: none, waiting, or passed
  since,     \* ticks since the replacement started
  orphaned,  \* the owner was dead when the replacement started
  swept      \* a sweep has reclaimed the runs

heartbeatVars == <<owner, beat, timer, failures, age, standby, since, orphaned, swept>>

HeartbeatInit ==
  /\ owner = "creating" /\ beat = "stopped" /\ timer = 0 /\ failures = 0 /\ age = 0
  /\ standby = "none" /\ since = 0 /\ orphaned = FALSE /\ swept = FALSE

-----------------------------------------------------------------------------
(* The owner and its beater *)

StartBeating ==
  /\ owner = "creating"
  /\ owner' = "executing" /\ beat' = "sleep" /\ timer' = 0
  /\ UNCHANGED <<failures, age, standby, since, orphaned, swept>>

Beat ==
  /\ owner = "executing" /\ beat = "sleep" /\ timer = Interval
  /\ beat' = "call" /\ timer' = 0
  /\ UNCHANGED <<owner, failures, age, standby, since, orphaned, swept>>

\* HeartbeatBatch touches an active batch only.
HeartbeatLands ==
  /\ beat = "call" /\ owner # "closed"
  /\ age' = 0
  /\ UNCHANGED <<owner, beat, timer, failures, standby, since, orphaned, swept>>

\* The answer arrives: the call has just been served.
BeatSucceeds ==
  /\ owner = "executing" /\ beat = "call"
  /\ age <= timer
  /\ beat' = "sleep" /\ timer' = 0 /\ failures' = 0
  /\ UNCHANGED <<owner, age, standby, since, orphaned, swept>>

\* Mutated form: a failure is not counted.
BeatFails_notCounted ==
  /\ owner = "executing" /\ beat = "call"
  /\ beat' = "sleep" /\ timer' = 0
  /\ UNCHANGED <<owner, failures, age, standby, since, orphaned, swept>>

\* The call fails, at its deadline or before, whether it was served or not.
BeatFails ==
  /\ owner = "executing" /\ beat = "call"
  /\ failures' = failures + 1
  /\ timer' = 0
  /\ IF failures' >= abort_after_failures
       THEN beat' = "stopped" /\ owner' = "aborting"
       ELSE beat' = "sleep" /\ UNCHANGED owner
  /\ UNCHANGED <<age, standby, since, orphaned, swept>>

\* The scheduler returns: the beater is cancelled, and so is its timer, but not
\* the thread of a call.
StopBeating ==
  /\ owner = "executing"
  /\ owner' = "finalizing"
  /\ beat' = IF beat = "call" THEN "call" ELSE "stopped"
  /\ UNCHANGED <<timer, failures, age, standby, since, orphaned, swept>>

\* The batch is stored as terminal, its runs are settled.
Close ==
  /\ owner \in {"finalizing", "aborting"}
  /\ owner' = "closed"
  /\ UNCHANGED <<beat, timer, failures, age, standby, since, orphaned, swept>>

\* The process dies; a call it has sent may still be served.
Crash ==
  /\ owner \notin {"closed", "dead"}
  /\ owner' = "dead"
  /\ beat' = IF beat = "call" THEN "call" ELSE "stopped"
  /\ UNCHANGED <<timer, failures, age, standby, since, orphaned, swept>>

\* A call nobody waits for has reached its deadline.
CallEnds ==
  /\ owner # "executing" /\ beat = "call" /\ timer = RpcDeadline
  /\ beat' = "stopped"
  /\ UNCHANGED <<owner, timer, failures, age, standby, since, orphaned, swept>>

-----------------------------------------------------------------------------
(* The reconciler of a replacement process *)

Stale == age > StaleAfter
Reclaimed == swept \/ (Stale /\ owner # "closed")

ReplacementStarts ==
  /\ standby = "none"
  /\ standby' = "waiting" /\ since' = 0
  /\ orphaned' = (owner = "dead")
  /\ swept' = Reclaimed
  /\ UNCHANGED <<owner, beat, timer, failures, age>>

DelayedPass ==
  /\ standby = "waiting" /\ since = startup_reconcile_delay
  /\ standby' = "passed"
  /\ swept' = Reclaimed
  /\ UNCHANGED <<owner, beat, timer, failures, age, since, orphaned>>

-----------------------------------------------------------------------------
\* Nothing is overdue when a tick passes.
NothingDue ==
  /\ owner = "creating" => age < MaxCreate
  /\ beat = "sleep" => timer < Interval
  /\ beat = "call" => timer < RpcDeadline
  /\ standby = "waiting" => since < startup_reconcile_delay

Tick ==
  /\ NothingDue /\ age < MaxAge
  /\ age' = age + 1
  /\ timer' = IF beat = "stopped" THEN timer ELSE timer + 1
  /\ since' = IF standby = "waiting" THEN since + 1 ELSE since
  /\ UNCHANGED <<owner, beat, failures, standby, orphaned, swept>>

HeartbeatNext ==
  \/ StartBeating \/ Beat \/ HeartbeatLands \/ BeatSucceeds \/ BeatFails \/ StopBeating
  \/ Close \/ Crash \/ CallEnds \/ ReplacementStarts \/ DelayedPass \/ Tick

HeartbeatSpec == HeartbeatInit /\ [][HeartbeatNext]_heartbeatVars

-----------------------------------------------------------------------------
(* Properties *)

\* The clocks stay within what they measure, and the owner is aborted before a
\* further failure is counted.
HeartbeatTypeOK ==
  /\ owner \in {"creating", "executing", "finalizing", "aborting", "closed", "dead"}
  /\ beat \in {"sleep", "call", "stopped"}
  /\ timer \in Nat /\ (beat = "sleep" => timer <= Interval) /\ (beat = "call" => timer <= RpcDeadline)
  /\ failures \in 0..abort_after_failures
  /\ age \in 0..MaxAge
  /\ standby \in {"none", "waiting", "passed"} /\ since \in 0..startup_reconcile_delay
  /\ orphaned \in BOOLEAN /\ swept \in BOOLEAN

Period == Interval + RpcDeadline

\* The age of the batch when its failures are counted from: the creation of the
\* runs, or the answer of a call that was served as soon as it was sent.
Base == IF MaxCreate > RpcDeadline THEN MaxCreate ELSE RpcDeadline

\* How long a batch is silent after n failures in a row: each of them, and the
\* beat under way, took one period of sleeping and waiting.
Silence(n) == Base + (n + 1) * Period

\* While the owner executes, the batch is not silent for longer than its
\* failures explain.  So an owner with at most n failed heartbeats in a row is
\* not swept as long as Silence(n) is within the stale window, and its own abort
\* bounds the silence of any owner.
SilenceExplained == owner = "executing" => age <= Silence(failures)

\* A batch whose owner was dead when the replacement started has been reclaimed
\* when the replacement's second pass is over, even if the last heartbeat of the
\* dead owner was served after the start: the safety margin of one interval
\* covers it when calls end within an interval.
DelayedPassRecovers ==
  RpcDeadline < Interval => (orphaned /\ standby = "passed" => swept)
=============================================================================
