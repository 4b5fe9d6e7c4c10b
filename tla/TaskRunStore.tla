---------------------------- MODULE TaskRunStore ----------------------------
(***************************************************************************)
(* The backend's task-runtime store: one batch and its run rows, changed   *)
(* by the reverse RPCs the Python core sends.  Each action is one RPC      *)
(* handler of the DAL, hence one MySQL transaction or statement.           *)
(*                                                                         *)
(* The callers are left as free as the network leaves them.  A worker may  *)
(* present any fencing token ever issued, however old; a client edits and  *)
(* writes back whatever snapshot it last read, however long ago; every RPC *)
(* may arrive at any time.  What holds here holds whatever the core does.  *)
(*                                                                         *)
(* An RPC whose precondition fails changes nothing, so it is a stuttering  *)
(* step and has no action.                                                 *)
(***************************************************************************)
EXTENDS RunRow

CONSTANTS
  Runs,         \* the runs of the batch
  Clients,      \* callers that keep a snapshot of a row between two RPCs
  MaxAttempts,  \* RetryPolicy.max_attempts
  MaxClaims     \* bound: fencing tokens issued in a behaviour

ASSUME StoreAssumption == MaxAttempts \in Nat \ {0} /\ MaxClaims \in Nat

VARIABLES
  batch,   \* t_task_runtime_batch: status, and liveness_at as the sweep sees it
  run,     \* t_task_runtime_run, the payload of each row
  result,  \* t_task_runtime_run.result_json
  issued,  \* how many fencing tokens ClaimRun has issued; they are 1..issued
  view     \* the payload each client last read or wrote, per run

vars == <<batch, run, result, issued, view>>

NoBatch == [status |-> "none", liveness |-> "none"]
Batch   == [status : BatchStatus, liveness : {"fresh", "stale"}]

TypeOK ==
  /\ batch \in Batch \cup {NoBatch}
  /\ run \in [Runs -> Payload \cup {NoRun}]
  /\ result \in [Runs -> Result \cup {NoResult}]
  /\ issued \in Nat
  /\ view \in [Clients -> [Runs -> Payload \cup {NoRun}]]

Init ==
  /\ batch = NoBatch
  /\ run = [r \in Runs |-> NoRun]
  /\ result = [r \in Runs |-> NoResult]
  /\ issued = 0
  /\ view = [c \in Clients |-> [r \in Runs |-> NoRun]]

-----------------------------------------------------------------------------
(* Batch RPCs *)

\* A duplicate create finds the row and returns it unchanged.
CreateBatch ==
  /\ batch = NoBatch
  /\ batch' = [status |-> "running", liveness |-> "fresh"]
  /\ UNCHANGED <<run, result, issued, view>>

batchUpdateDecision(existing) == existing \notin TerminalBatch

\* The owner and the reconciler write terminal statuses only; liveness_at is
\* not among the updated columns.
UpdateBatch(s) ==
  /\ batch # NoBatch
  /\ batchUpdateDecision(batch.status)
  /\ batch' = [batch EXCEPT !.status = s]
  /\ UNCHANGED <<run, result, issued, view>>

HeartbeatBatch ==
  /\ batch.status \in ActiveBatch
  /\ batch' = [batch EXCEPT !.liveness = "fresh"]
  /\ UNCHANGED <<run, result, issued, view>>

\* The clock: liveness_at falls behind the sweep's beforeTs.
LivenessExpires ==
  /\ batch.liveness = "fresh"
  /\ batch' = [batch EXCEPT !.liveness = "stale"]
  /\ UNCHANGED <<run, result, issued, view>>

\* Mutated form: runs that are executing are left to finish.
CancelBatch_sparesRunning ==
  /\ batch.status \in ActiveBatch
  /\ batch' = [batch EXCEPT !.status = "cancelled"]
  /\ run' = [r \in Runs |-> IF run[r].status = "running" THEN run[r]
                                                     ELSE CancelledPayload(run[r])]
  /\ UNCHANGED <<result, issued, view>>

CancelBatch ==
  /\ batch.status \in ActiveBatch
  /\ batch' = [batch EXCEPT !.status = "cancelled"]
  /\ run' = [r \in Runs |-> CancelledPayload(run[r])]
  /\ UNCHANGED <<result, issued, view>>

\* One transaction reclaims every active run of a silent batch, whatever the
\* status of the batch.
SweepStaleRuns ==
  LET stale == {r \in Runs : run[r].status \in ActiveRun} IN
  /\ batch.liveness = "stale"
  /\ stale # {}
  /\ run' = [r \in Runs |-> IF r \in stale THEN SweptPayload(run[r]) ELSE run[r]]
  /\ result' = [r \in Runs |-> IF r \in stale THEN SweptResult(run[r]) ELSE result[r]]
  /\ UNCHANGED <<batch, issued, view>>

-----------------------------------------------------------------------------
(* Run RPCs *)

\* A duplicate create matches the row by run_id, batch_id and key: no change.
CreateRun(c, r) ==
  /\ batch # NoBatch
  /\ run[r] = NoRun
  /\ run' = [run EXCEPT ![r] = QueuedPayload]
  /\ view' = [view EXCEPT ![c][r] = QueuedPayload]
  /\ UNCHANGED <<batch, result, issued>>

\* GetRun, GetTaskDetail and ListBatchRuns hand the payload to the caller.
GetRun(c, r) ==
  /\ run[r] # NoRun
  /\ view' = [view EXCEPT ![c][r] = run[r]]
  /\ UNCHANGED <<batch, run, result, issued>>

\* Mutated form: the first claim's token is reused.
ClaimRun_sameToken(r) ==
  /\ ensureClaimable(run[r])
  /\ issued' = 1
  /\ run' = [run EXCEPT ![r] = ClaimedPayload(run[r], 1)]
  /\ result' = [result EXCEPT ![r] = NoResult]
  /\ UNCHANGED <<batch, view>>

ClaimRun(r) ==
  /\ issued < MaxClaims
  /\ ensureClaimable(run[r])
  /\ issued' = issued + 1
  /\ run' = [run EXCEPT ![r] = ClaimedPayload(run[r], issued + 1)]
  /\ result' = [result EXCEPT ![r] = NoResult]
  /\ UNCHANGED <<batch, view>>

WriteResult(r, t, res) ==
  /\ ensureToken(run[r], t)
  /\ run' = [run EXCEPT ![r] = CommittedPayload(run[r], res)]
  /\ result' = [result EXCEPT ![r] = res]
  /\ UNCHANGED <<batch, issued, view>>

CancelRun(r) ==
  /\ run[r].status \in ActiveRun
  /\ run' = [run EXCEPT ![r] = CancelledPayload(run[r])]
  /\ UNCHANGED <<batch, result, issued, view>>

\* Every projected column comes from the caller's payload; only the status
\* guard looks at the row.
UpdateRun(r, p) ==
  /\ run[r] # NoRun
  /\ protectTerminalStatus(run[r].status, p.status)
  /\ run' = [run EXCEPT ![r] = p]
  /\ result' = IF shouldClearResultForRunUpdate(p.status)
                 THEN [result EXCEPT ![r] = NoResult]
                 ELSE result
  /\ UNCHANGED <<batch, issued, view>>

\* Lease and stage edits send the snapshot back with its own status.
UpdateRunFromView(c, r) ==
  /\ view[c][r] # NoRun
  /\ UpdateRun(r, view[c][r])

\* force_update_stranded_run settles a snapshot that was read as running.
ForceUpdateStranded(c, r, res) ==
  /\ view[c][r].status = "running"
  /\ UpdateRun(r, [view[c][r] EXCEPT !.status = res.status, !.err = res.err])

\* The snapshot is the retry decision: its attempt is the expected one.
ReopenRunForRetry(c, r) ==
  LET p == view[c][r] IN
  /\ p.status \in RetryableRun
  /\ p.attempt < MaxAttempts
  /\ ensureReopenable(run[r], p.attempt)
  /\ run' = [run EXCEPT ![r] = ReopenPayload(p)]
  /\ result' = [result EXCEPT ![r] = NoResult]
  /\ view' = [view EXCEPT ![c][r] = ReopenPayload(p)]
  /\ UNCHANGED <<batch, issued>>

-----------------------------------------------------------------------------
Next ==
  \/ CreateBatch
  \/ \E s \in TerminalBatch : UpdateBatch(s)
  \/ HeartbeatBatch
  \/ LivenessExpires
  \/ CancelBatch
  \/ SweepStaleRuns
  \/ \E r \in Runs :
       \/ ClaimRun(r)
       \/ \E t \in 1..issued, res \in TerminalResults : WriteResult(r, t, res)
       \/ CancelRun(r)
       \/ \E c \in Clients :
            \/ CreateRun(c, r)
            \/ GetRun(c, r)
            \/ UpdateRunFromView(c, r)
            \/ \E res \in TerminalResults : ForceUpdateStranded(c, r, res)
            \/ ReopenRunForRetry(c, r)

Spec == Init /\ [][Next]_vars
-----------------------------------------------------------------------------
(* What the store promises *)

\* A stored result is the result of the status the row is in: task detail,
\* finalization and recovery never read the outcome of an earlier attempt
\* (result_json is cleared by claim, reopen and non-terminal updates, and set
\* only together with a terminal status).
ResultMatchesStatus ==
  \A r \in Runs : result[r] # NoResult => result[r].status = run[r].status

\* The fencing tokens that name run r, in its row or in a snapshot of it.
TokensOf(r) ==
  ({run[r].token} \cup {view[c][r].token : c \in Clients}) \ {NoToken}

\* A token is only ever good for the run it was issued for, even after stale
\* snapshots were written back over rows (ClaimRun's fresh uuid; UpdateRun
\* restores the fencing_token column of the same run only).
TokenNamesOneRun ==
  /\ \A r \in Runs : TokensOf(r) \subseteq 1..issued
  /\ \A r, q \in Runs : r # q => TokensOf(r) \cap TokensOf(q) = {}

\* A settled run leaves its status only by a retry reopen: from a retryable
\* status, to queued, one attempt further than the attempt that settled.  A
\* recorded success or cancellation is never left (protectTerminalStatus,
\* ensureClaimable, ensureReopenable).
SettledStatusLeft(r) ==
  /\ run[r].status \in RetryableRun
  /\ run'[r].status = "queued"
  /\ run'[r].attempt = run[r].attempt + 1

OnlyReopenLeavesTerminal ==
  [][\A r \in Runs :
       run[r].status \in TerminalRun =>
         run'[r].status = run[r].status \/ SettledStatusLeft(r)]_vars

\* A committed result is never replaced and is dropped only by the reopen of
\* its run, whatever stale snapshot or late worker write arrives.
CommittedResultKept ==
  [][\A r \in Runs :
       result[r] # NoResult =>
         result'[r] = result[r] \/ (result'[r] = NoResult /\ SettledStatusLeft(r))]_vars

\* A terminal batch status is final: a late heartbeat, a second finalizer or
\* a cancellation never changes it (batchUpdateDecision, isActiveBatchStatus).
TerminalBatchFrozen ==
  [][batch.status \in TerminalBatch => batch'.status = batch.status]_vars

\* The rows seen as a ledger: an active row is open, a settled row shows its
\* outcome, an active batch has no verdict yet.
Outcome == [r \in Runs |-> IF run[r].status \in ActiveRun THEN "open" ELSE run[r].status]
Verdict == IF batch.status \in TerminalBatch THEN batch.status ELSE "open"

Ledger == INSTANCE RunLedger WITH outcome <- Outcome, verdict <- Verdict

\* Whatever calls arrive in whatever order, the rows behave like the ledger:
\* outcomes are decided once, reopened only when retryable, and cancelling
\* the batch leaves no run open (CancelBatch cancels rows and batch in one
\* transaction).
ImplementsLedger == Ledger!Spec
=============================================================================
