------------------------------- MODULE RunRow -------------------------------
(***************************************************************************)
(* Statuses of task runs and batches, and what one backend statement does  *)
(* to one run row.  A run row has two parts.  Its payload is run_json with *)
(* the columns projected from it: the part a client reads, edits and sends *)
(* back.  Its result is the result_json column, which no payload carries.  *)
(* Of a payload only status, attempt, fencing_token and last_error_class   *)
(* are kept: identity, timestamps, progress text, stage and lease columns  *)
(* decide nothing here.  An error class is "transient" when the retry      *)
(* policy lists it and "internal" when it does not.                        *)
(***************************************************************************)
EXTENDS Naturals

ActiveRun    == {"queued", "running"}
RetryableRun == {"failed", "timed_out", "blocked"}
AbsorbingRun == {"completed", "cancelled"}
TerminalRun  == RetryableRun \cup AbsorbingRun
TaskStatus   == ActiveRun \cup TerminalRun

ActiveBatch   == {"queued", "running"}
TerminalBatch == TerminalRun \cup {"partial"}
BatchStatus   == ActiveBatch \cup TerminalBatch

ErrorClass == {"none", "transient", "internal"}

NoToken == 0
Payload == [status : TaskStatus, attempt : Nat, token : Nat, err : ErrorClass]
Result  == [status : TerminalRun, err : ErrorClass]

\* The absence of a row, and of a result.
NoRun    == [status |-> "none", attempt |-> 0, token |-> NoToken, err |-> "none"]
NoResult == [status |-> "none", err |-> "none"]

-----------------------------------------------------------------------------
\* The payload _build_run enqueues, and CreateRun inserts.
QueuedPayload == [status |-> "queued", attempt |-> 1, token |-> NoToken, err |-> "none"]

\* A finished task reports no error; an unfinished one reports some class.
TerminalResults == [status : {"completed"}, err : {"none"}]
              \cup [status : {"cancelled"}, err : {"internal"}]
              \cup [status : RetryableRun, err : {"transient", "internal"}]

\* Mutated form: a failed run may be claimed again without a reopen.
ensureClaimable_failedToo(p) == p.status \in {"queued"} \cup RetryableRun

ensureClaimable(p) == p.status = "queued"
ClaimedPayload(p, t) == [p EXCEPT !.status = "running", !.token = t]

ensureToken(p, t) == p.status = "running" /\ p.token # NoToken /\ p.token = t

\* The token is consumed by the commit it authorizes.
CommittedPayload(p, res) ==
  [p EXCEPT !.status = res.status, !.token = NoToken, !.err = res.err]

ensureReopenable(p, expectedAttempt) ==
  p.status \in RetryableRun /\ p.attempt = expectedAttempt

\* prepare_retry's edit of the row it has just read; ensureReopenPayload
\* accepts no other.
ReopenPayload(p) ==
  [p EXCEPT !.status = "queued", !.attempt = @ + 1, !.token = NoToken]

\* A cancelled row keeps no token; a row that already settled is left alone.
CancelledPayload(p) ==
  IF p.status \in ActiveRun
    THEN [p EXCEPT !.status = "cancelled", !.token = NoToken, !.err = "none"]
    ELSE p

\* The sweep fails a claimed run and blocks one that was never claimed.
SweptStatus(p) == IF p.status = "queued" THEN "blocked" ELSE "failed"
SweptPayload(p) ==
  [p EXCEPT !.status = SweptStatus(p), !.token = NoToken, !.err = "internal"]
SweptResult(p) == [status |-> SweptStatus(p), err |-> "internal"]

\* Mutated form: only settled-to-settled overwrites are refused.
protectTerminalStatus_terminalOnly(current, incoming) ==
  incoming \in TerminalRun => (current \notin TerminalRun \/ current = incoming)

\* Whether UpdateRun's WHERE clause matches a row in status current.
protectTerminalStatus(current, incoming) ==
  IF incoming \in TerminalRun
    THEN current \notin TerminalRun \/ current = incoming
    ELSE current \notin TerminalRun

shouldClearResultForRunUpdate(incoming) == incoming \in ActiveRun
=============================================================================
