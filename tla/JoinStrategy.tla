---------------------------- MODULE JoinStrategy ----------------------------
(***************************************************************************)
(* How per-run results decide about a batch: when the scheduler stops      *)
(* early, when a stage holds back the stages after it, whether a result is *)
(* worth another attempt, and the status the batch ends in.                *)
(***************************************************************************)
EXTENDS RunRow

JoinStrategies == {"all_success", "partial_ok", "first_success", "fail_fast"}

stop_reason(join, res) ==
  \/ join = "fail_fast" /\ res.status # "completed"
  \/ join = "first_success" /\ res.status = "completed"

\* Mutated form: only the strategy that stops early holds back later stages.
stage_gate_blocks_failFastOnly(join, results) ==
  join = "fail_fast" /\ \E res \in results : res.status # "completed"

stage_gate_blocks(join, results) ==
  /\ join \in {"all_success", "fail_fast"}
  /\ \E res \in results : res.status # "completed"

\* Completed results carry no error class, so they are never retried.
should_retry(attempt, maxAttempts, res) ==
  attempt < maxAttempts /\ res.err = "transient"

\* The status aggregate gives a batch whose runs ended with these statuses.
batch_status(join, statuses) ==
  IF join = "first_success" /\ "completed" \in statuses THEN "completed"
  ELSE IF statuses \subseteq {"completed"} THEN "completed"
  ELSE IF "completed" \in statuses THEN "partial"
  ELSE IF "blocked" \in statuses THEN "blocked"
  ELSE IF "timed_out" \in statuses THEN "timed_out"
  ELSE IF statuses \subseteq {"cancelled"} THEN "cancelled"
  ELSE "failed"
=============================================================================
