---------------------------- MODULE RunExecution ----------------------------
(***************************************************************************)
(* One run, from the scheduler's queue to the end of its batch: the        *)
(* coordinator that prepares, awaits and settles it, the executor that     *)
(* claims it, works and writes the result, the retry that reopens it and   *)
(* the finalization that closes what was left open, against the stored     *)
(* row.  A store call is one step that takes effect, is refused as stale,  *)
(* or fails for the caller; a failed call, and the call of a cancelled     *)
(* coroutine (its thread is not cancelled), is left in flight and may      *)
(* still take effect later.  Around them act the user who cancels the      *)
(* turn, the sweeper of silent batches, and a crash of the process.        *)
(***************************************************************************)
EXTENDS JoinStrategy, Integers, Sequences

CONSTANTS
  MaxAttempts,  \* RetryPolicy.max_attempts
  CleanupAttempts, \* _FAILED_BATCH_RUN_CLEANUP_ATTEMPTS
  Outcomes,     \* results an execution may end in
  Environments  \* what may befall a run, one choice per behaviour

ASSUME ExecutionAssumption ==
  /\ MaxAttempts \in Nat \ {0} /\ CleanupAttempts \in Nat \ {0}
  /\ Outcomes \subseteq TerminalResults
  /\ Environments \subseteq [lost : {0}, maxLost : Nat, maxSweeps : Nat, cancels : BOOLEAN,
                             interrupts : BOOLEAN, sandboxed : BOOLEAN]

VARIABLES
  row, result,  \* the stored run
  issued,       \* fencing tokens handed out
  fence,        \* tokens handed out before the current attempt
  open,         \* the stored batch is not terminal
  late,         \* calls in flight that nobody waits for
  own,          \* the coordinator, scheduler and finalizer: one coroutine
  exec,         \* the executor task
  recorded,     \* the result the scheduler counts
  planCancelled,\* the user has cancelled the plan
  other,        \* a second process releasing the run's sandbox
  sweeps,       \* sweeps that hit the live owner
  env           \* the environment, and the calls lost to their callers so far

store == <<row, result, issued, fence, open>>
vars  == <<row, result, issued, fence, open, late, own, exec, recorded, planCancelled, other, env, sweeps>>

-----------------------------------------------------------------------------
(* Store calls *)

Request(op, token, res, p) == [op |-> op, token |-> token, res |-> res, p |-> p]
ClaimCall         == Request("claim", NoToken, NoResult, NoRun)
WriteCall(t, res) == Request("write", t, res, NoRun)
CancelCall        == Request("cancel", NoToken, NoResult, NoRun)
CancelBatchCall   == Request("cancelBatch", NoToken, NoResult, NoRun)
CloseBatchCall    == Request("closeBatch", NoToken, NoResult, NoRun)
UpdateCall(p)     == Request("update", NoToken, NoResult, p)
ReopenCall(p)     == Request("reopen", NoToken, NoResult, p)

\* Calls that are refused fail with StaleWorkerError; an update that does not
\* match the row and a cancel of a settled run succeed and change nothing.
Accepts(q) ==
  CASE q.op = "claim"  -> ensureClaimable(row)
    [] q.op = "write"  -> ensureToken(row, q.token)
    [] q.op = "reopen" -> ensureReopenable(row, q.p.attempt - 1)
    [] OTHER           -> TRUE

Apply(q) ==
  \/ /\ q.op = "claim"
     /\ row' = ClaimedPayload(row, issued + 1)
     /\ result' = NoResult
     /\ issued' = issued + 1
     /\ UNCHANGED <<fence, open>>
  \/ /\ q.op = "write"
     /\ row' = CommittedPayload(row, q.res)
     /\ result' = q.res
     /\ UNCHANGED <<issued, fence, open>>
  \/ /\ q.op = "cancel"
     /\ row' = CancelledPayload(row)
     /\ UNCHANGED <<result, issued, fence, open>>
  \/ /\ q.op = "cancelBatch"
     /\ row' = IF open THEN CancelledPayload(row) ELSE row
     /\ open' = FALSE
     /\ UNCHANGED <<result, issued, fence>>
  \/ /\ q.op = "closeBatch"
     /\ open' = FALSE
     /\ UNCHANGED <<row, result, issued, fence>>
  \/ /\ q.op = "update"
     /\ LET matches == protectTerminalStatus(row.status, q.p.status) IN
          /\ row' = IF matches THEN q.p ELSE row
          /\ result' = IF matches /\ shouldClearResultForRunUpdate(q.p.status)
                         THEN NoResult ELSE result
     /\ UNCHANGED <<issued, fence, open>>
  \/ /\ q.op = "reopen"
     /\ row' = q.p
     /\ result' = NoResult
     /\ fence' = issued
     /\ UNCHANGED <<issued, open>>

\* A call that was abandoned takes effect after all, or is refused.
Land(q) ==
  /\ q \in late
  /\ late' = late \ {q}
  /\ IF Accepts(q) THEN Apply(q) ELSE UNCHANGED store
  /\ UNCHANGED <<own, exec, recorded, planCancelled, other, env, sweeps>>

\* The owner's call: what it goes on with when the call is done, refused or lost.
Call(q, done, stale, lost) ==
  /\ \/ Accepts(q) /\ Apply(q) /\ own' = done /\ UNCHANGED <<late, env>>
     \/ ~Accepts(q) /\ own' = stale /\ UNCHANGED <<row, result, issued, fence, open, late, env>>
     \/ /\ env.lost < env.maxLost
        /\ env' = [env EXCEPT !.lost = @ + 1]
        /\ late' = late \cup {q}
        /\ own' = lost
        /\ UNCHANGED store
  /\ UNCHANGED <<exec, recorded, planCancelled, other, sweeps>>

Read(done, lost) ==
  /\ \/ own' = done /\ UNCHANGED env
     \/ env.lost < env.maxLost /\ env' = [env EXCEPT !.lost = @ + 1] /\ own' = lost
  /\ UNCHANGED <<row, result, issued, fence, open, late, exec, recorded, planCancelled, other, sweeps>>

Step(next) ==
  /\ own' = next
  /\ UNCHANGED <<row, result, issued, fence, open, late, exec, recorded, planCancelled, other, env, sweeps>>

-----------------------------------------------------------------------------
(* Results and continuations *)

InternalFailure == [status |-> "failed", err |-> "internal"]
CancelledByUser == [status |-> "cancelled", err |-> "internal"]
NoCapacity      == [status |-> "blocked", err |-> "internal"]
Unhealthy       == [status |-> "failed", err |-> "transient"]
TimedOut        == [status : {"timed_out"}, err : {"transient", "internal"}]

IsSettled == row.status \in TerminalRun

\* A settled row without a result (a cancelled one) is turned into a result.
terminal_result_from_run(fallback) ==
  [status |-> row.status,
   err |-> IF row.status = "completed" THEN "none"
           ELSE IF row.status = "cancelled" THEN "internal"
           ELSE IF row.err # "none" THEN row.err
           ELSE IF fallback.status = row.status THEN fallback.err
           ELSE "internal"]

settled_result(fallback) ==
  IF result # NoResult THEN result ELSE terminal_result_from_run(fallback)

Idle == [pc |-> "idle", tok |-> NoToken, res |-> NoResult]
ExecUnfinished == exec.pc \in {"claim", "work", "write"}

At(p) == [own EXCEPT !.pc = p]

\* An exception: caught by the generic handler of _execute_run_once, by the
\* suppress inside that handler, by _execute_safely, or by the submitter.
Raised ==
  CASE own.phase = "body"    -> [own EXCEPT !.pc = "read", !.mode = "ensure",
                                            !.phase = "handler", !.res = InternalFailure]
    [] own.phase = "handler" -> At("release")
    [] own.phase = "outside" -> [own EXCEPT !.pc = "release", !.res = InternalFailure]
    [] OTHER                 -> [own EXCEPT !.pc = "abort", !.at = 1]

\* _mark_run_cancelled, entered from the given phase.
MarkCancelled(phase) ==
  [own EXCEPT !.pc = "claim", !.mode = "mark", !.phase = phase, !.res = CancelledByUser]

\* Claim the run, then write res: a policy denial or a missing sandbox.
SettleWith(res) ==
  [own EXCEPT !.pc = "claim", !.mode = "settle", !.phase = "outside", !.res = res]

\* persist_stranded_result on the snapshot p.
Strand(p, res) ==
  [own EXCEPT !.seen = p, !.mode = "strand", !.tok = p.token, !.res = res,
              !.pc = IF p.status = "queued" THEN "claim"
                     ELSE IF p.token # NoToken THEN "write" ELSE "force"]

AfterStrand == At(IF own.phase = "finalize" THEN "close" ELSE "recheck")

Init ==
  /\ row = QueuedPayload /\ result = NoResult /\ issued = 0 /\ fence = 0 /\ open = TRUE
  /\ late = {}
  /\ env \in Environments
  /\ own = [pc |-> "queued", at |-> 1, mode |-> "none", phase |-> "outside", me |-> QueuedPayload,
            seen |-> QueuedPayload, tok |-> NoToken, res |-> NoResult,
            leased |-> FALSE, sandboxed |-> env.sandboxed]
  /\ exec = Idle
  /\ recorded = NoResult
  /\ planCancelled = FALSE
  /\ other = [pc |-> "idle", p |-> NoRun]
  /\ sweeps = 0

-----------------------------------------------------------------------------
(* _execute_run_once up to the executor *)

Execute ==
  /\ own.pc = "queued"
  /\ Step([own EXCEPT !.pc = "enter", !.phase = "outside"])

\* The batch stopped while the run was queued: cancel_queued.
CancelQueued ==
  /\ own.pc = "queued"
  /\ Step(MarkCancelled("queue"))

Enter ==
  /\ own.pc = "enter"
  /\ \/ planCancelled /\ Step(MarkCancelled("outside"))
     \/ ~planCancelled /\ Step([own EXCEPT !.pc = "prep", !.at = 1, !.phase = "body"])
     \/ ~planCancelled /\ Step(SettleWith(InternalFailure))

\* What is done before the executor starts.  A stage reads the row and sends
\* it back with the new stage; a lease sends the run in memory.
Preparation ==
  IF own.sandboxed
    THEN <<"stage", "stage", "check", "stage", "reserve", "check", "stage", "acquire", "lease",
           "check", "stage", "check", "lease", "stage", "lastCheck", "stage">>
    ELSE <<"stage", "lastCheck", "stage", "stage">>

Preparing(kind) ==
  own.pc = "prep" /\ own.at <= Len(Preparation) /\ Preparation[own.at] = kind
Prepared == [own EXCEPT !.pc = "prep", !.at = @ + 1]

StageRead ==
  /\ Preparing("stage")
  /\ Read([own EXCEPT !.pc = "stageWrite", !.seen = row], Prepared)

StageWrite ==
  /\ own.pc = "stageWrite"
  /\ Call(UpdateCall(own.seen), Prepared, Prepared, Prepared)

Check ==
  \/ /\ Preparing("check")
     /\ Step(IF planCancelled THEN MarkCancelled("outside") ELSE Prepared)
  \/ /\ Preparing("lastCheck")
     /\ Step(IF planCancelled THEN MarkCancelled("body") ELSE Prepared)

Reserve ==
  /\ Preparing("reserve")
  /\ \/ Step(Prepared)
     \/ Step(SettleWith(NoCapacity))
     \/ planCancelled /\ Step(MarkCancelled("outside"))

Acquire ==
  /\ Preparing("acquire")
  /\ \/ Step([Prepared EXCEPT !.leased = TRUE])
     \/ Step(SettleWith(NoCapacity))
     \/ Step(SettleWith(Unhealthy))
     \/ planCancelled /\ Step(MarkCancelled("outside"))

Lease ==
  /\ Preparing("lease")
  /\ Call(UpdateCall(own.me), Prepared, Prepared, Raised)

StartExecutor ==
  /\ own.pc = "prep" /\ own.at > Len(Preparation)
  /\ own' = At("await")
  /\ exec' = [Idle EXCEPT !.pc = "claim"]
  /\ UNCHANGED <<row, result, issued, fence, open, late, recorded, planCancelled, other, env, sweeps>>

-----------------------------------------------------------------------------
(* The executor *)

ExecCall(q, done) ==
  /\ \/ Accepts(q) /\ Apply(q) /\ exec' = done /\ UNCHANGED <<late, env>>
     \/ /\ ~Accepts(q)
        /\ exec' = [exec EXCEPT !.pc = "stale"]
        /\ UNCHANGED <<row, result, issued, fence, open, late, env>>
     \/ /\ env.lost < env.maxLost
        /\ env' = [env EXCEPT !.lost = @ + 1]
        /\ late' = late \cup {q}
        /\ exec' = [exec EXCEPT !.pc = "error"]
        /\ UNCHANGED store
  /\ UNCHANGED <<own, recorded, planCancelled, other, sweeps>>

ExecClaim ==
  /\ exec.pc = "claim"
  /\ ExecCall(ClaimCall, [exec EXCEPT !.pc = "work", !.tok = issued + 1])

\* The work returns a terminal result, or crashes outside the guarded part.
ExecWork(res) ==
  /\ exec.pc = "work"
  /\ exec' \in {[exec EXCEPT !.pc = "write", !.res = res], [exec EXCEPT !.pc = "error"]}
  /\ UNCHANGED <<row, result, issued, fence, open, late, own, recorded, planCancelled, other, env, sweeps>>

ExecWrite ==
  /\ exec.pc = "write"
  /\ ExecCall(WriteCall(exec.tok, exec.res), [exec EXCEPT !.pc = "returned"])

\* The call a cancelled executor leaves behind.
ExecPending ==
  CASE exec.pc = "claim" -> {ClaimCall}
    [] exec.pc = "write" -> {WriteCall(exec.tok, exec.res)}
    [] OTHER             -> {}

-----------------------------------------------------------------------------
(* _wait_for_execution *)

\* The executor is cancelled and awaited; its thread is not.
Abandon(next) ==
  /\ ExecUnfinished
  /\ own' = next
  /\ exec' = Idle
  /\ late' = late \cup ExecPending
  /\ UNCHANGED <<row, result, issued, fence, open, recorded, planCancelled, other, env, sweeps>>

\* Which of the ensure_ functions settles the row.
Persist(res) ==
  [own EXCEPT !.pc = "read", !.res = res,
              !.mode = IF res.status = "cancelled" THEN "cancelled"
                       ELSE IF res.status = "timed_out" THEN "timeout" ELSE "ensure"]

ExecutorDone ==
  /\ own.pc = "await"
  /\ \/ exec.pc = "returned" /\ Step(Persist(exec.res))
     \/ exec.pc \in {"stale", "error"} /\ Step(Raised)

ExecutionTimesOut ==
  /\ own.pc = "await"
  /\ \E res \in TimedOut : Abandon(Persist(res))

CancelObserved ==
  /\ own.pc = "await" /\ ExecUnfinished /\ planCancelled
  /\ Step(At("cancelling"))

\* The executor may finish before it is cancelled; a cancelled result is also
\* written by cancel_run.
CancelExecutor ==
  LET withCancel(res) == [own EXCEPT !.pc = "cancelRun", !.mode = "await", !.res = res] IN
  /\ own.pc = "cancelling"
  /\ \/ /\ exec.pc = "returned"
        /\ Step(IF exec.res.status = "cancelled" THEN withCancel(exec.res) ELSE Persist(exec.res))
     \/ exec.pc = "stale" /\ Step(withCancel(CancelledByUser))
     \/ exec.pc = "error" /\ Step(Raised)
     \/ Abandon(withCancel(CancelledByUser))

-----------------------------------------------------------------------------
(* Settling the row *)

Claim ==
  /\ own.pc = "claim"
  /\ Call(ClaimCall,
          [own EXCEPT !.pc = "write", !.tok = issued + 1],
          CASE own.mode = "mark"   -> At("cancelRun")
            [] own.mode = "ensure" -> At("reread")
            [] own.mode = "strand" -> AfterStrand
            [] OTHER               -> Raised,
          IF own.mode = "strand" THEN AfterStrand ELSE Raised)

\* A refused write is answered by cancel_run, by a second look, or, for a
\* stranded run that was read as running, by an unconditional update.
Write ==
  /\ own.pc = "write"
  /\ Call(WriteCall(own.tok, own.res),
          IF own.mode = "strand" THEN AfterStrand ELSE At("release"),
          CASE own.mode = "mark"   -> At("cancelRun")
            [] own.mode = "ensure" -> At("reread")
            [] own.mode = "strand" -> IF own.seen.status = "queued" THEN AfterStrand ELSE At("force")
            [] OTHER               -> Raised,
          IF own.mode = "strand" /\ own.seen.status = "queued" THEN AfterStrand ELSE Raised)

ForceUpdate ==
  /\ own.pc = "force"
  /\ Call(UpdateCall([own.seen EXCEPT !.status = own.res.status, !.err = own.res.err]),
          AfterStrand, AfterStrand, Raised)

CancelRun ==
  LET next == IF own.mode = "await" THEN [own EXCEPT !.pc = "read", !.mode = "cancelled"]
                                    ELSE At("release") IN
  /\ own.pc = "cancelRun"
  /\ Call(CancelCall, next, next, next)

\* The first look at the row of the three ensure_ functions.
LookUp ==
  LET found == [own EXCEPT !.pc = "release", !.res = settled_result(own.res)] IN
  /\ own.pc = "read"
  /\ \/ /\ own.mode = "ensure"
        /\ Read(IF IsSettled THEN found ELSE At("claim"), Raised)
     \/ /\ own.mode = "cancelled"
        /\ Read(IF result # NoResult THEN At("release") ELSE At("cancelRun"), At("cancelRun"))
     \/ /\ own.mode = "timeout"
        /\ Read(IF IsSettled THEN found ELSE Strand(row, own.res), Strand(own.me, own.res))

LookAgain ==
  LET found == [own EXCEPT !.pc = "release", !.res = settled_result(own.res)] IN
  \/ /\ own.pc = "reread"
     /\ Read(IF IsSettled THEN found ELSE Raised, Raised)
  \/ /\ own.pc = "recheck"
     /\ Read(IF IsSettled THEN found ELSE At("release"), At("release"))

\* Where cleanup_batch is called, and what follows it.
CleanupPhase == {"cleanup", "failCleanup", "cancelCleanup"}
AfterCleanup(p) == CASE p = "cleanup"     -> "finalize"
                     [] p = "failCleanup" -> "failBatch"
                     [] OTHER             -> "aborted"

\* A result with an artifact records the upload stage; the finally clause of a
\* run that holds a sandbox records two more.
AfterRelease ==
  [At(CASE own.phase = "interrupted" -> "cancelBatch"
        [] own.phase \in CleanupPhase -> AfterCleanup(own.phase)
        [] OTHER                     -> "outcome") EXCEPT !.leased = FALSE]
ReleaseStage(n) == [own EXCEPT !.pc = "releaseRead", !.at = n]
Released == IF own.leased /\ own.at < 2 THEN ReleaseStage(own.at + 1) ELSE AfterRelease

Release ==
  \/ /\ own.pc = "release"
     /\ \/ Step(IF own.leased THEN ReleaseStage(1) ELSE AfterRelease)
        \/ own.mode = "ensure" /\ own.phase = "body" /\ Step(ReleaseStage(0))
  \/ /\ own.pc = "releaseRead"
     /\ Read([own EXCEPT !.pc = "releaseWrite", !.seen = row], Released)
  \/ /\ own.pc = "releaseWrite"
     /\ Call(UpdateCall(own.seen), Released, Released, Released)

-----------------------------------------------------------------------------
(* Retry, record, finalize *)

Retry ==
  /\ own.pc = "outcome"
  /\ own.phase # "queue"
  /\ should_retry(own.me.attempt, MaxAttempts, own.res)
  /\ Step(At("retryRead"))

RetryStillValid == row.status \in RetryableRun /\ row.attempt = own.me.attempt

RetryRead ==
  /\ own.pc = "retryRead"
  /\ Read(IF RetryStillValid THEN [own EXCEPT !.pc = "reopen", !.seen = row] ELSE At("record"),
          [own EXCEPT !.pc = "abort", !.at = 1])

Reopened == [ReopenPayload(own.seen) EXCEPT !.attempt = own.me.attempt + 1, !.err = own.res.err]

Reopen ==
  /\ own.pc = "reopen"
  /\ Call(ReopenCall(Reopened), [own EXCEPT !.pc = "queued", !.me = Reopened],
          At("record"), At("record"))

\* The scheduler counts the result: no retry, or a sibling stopped the batch.
Record ==
  /\ own.pc \in {"outcome", "record"}
  /\ own' = At("cleanup")
  /\ recorded' = own.res
  /\ UNCHANGED <<row, result, issued, fence, open, late, exec, planCancelled, other, env, sweeps>>

\* cleanup_batch releases again a sandbox the row does not show as released.
cleanup_batch ==
  /\ own.pc \in CleanupPhase
  /\ \/ Step(At(AfterCleanup(own.pc)))
     \/ own.sandboxed /\ Step([ReleaseStage(1) EXCEPT !.leased = TRUE, !.phase = own.pc])

\* Mutated form: runs that a worker has claimed are left to it.
finalize_nonterminal_runs_unclaimedOnly ==
  /\ own.pc = "finalize"
  /\ Read(IF IsSettled \/ row.status = "running" THEN At("close")
                       ELSE [Strand(row, recorded) EXCEPT !.phase = "finalize"],
          At("close"))

finalize_nonterminal_runs ==
  /\ own.pc = "finalize"
  /\ Read(IF IsSettled THEN At("close")
                       ELSE [Strand(row, recorded) EXCEPT !.phase = "finalize"],
          At("close"))

\* update_batch with the aggregated status; when it fails the batch in memory
\* is terminal already and nothing else is written.
CloseBatch ==
  /\ own.pc = "close"
  /\ Call(CloseBatchCall, At("done"), At("done"), At("aborted"))

\* _mark_batch_failed: three rounds of listing and cancelling, then the batch.
Again == IF own.at = CleanupAttempts THEN At("failCleanup") ELSE [own EXCEPT !.pc = "abort", !.at = @ + 1]

MarkBatchFailed ==
  \/ /\ own.pc = "abort"
     /\ Read(At(IF IsSettled THEN "failCleanup" ELSE "abortCancel"), Again)
  \/ /\ own.pc = "abortCancel"
     /\ Call(CancelCall, At("failCleanup"), At("failCleanup"), Again)
  \/ /\ own.pc = "failBatch"
     /\ Call(CloseBatchCall, At("aborted"), At("aborted"), At("aborted"))

\* _mark_batch_cancelled.
MarkBatchCancelled ==
  /\ own.pc = "cancelBatch"
  /\ Call(CancelBatchCall, At("cancelCleanup"), At("cancelCleanup"), At("cancelCleanup"))

-----------------------------------------------------------------------------
(* Cancellation of the owning task, crashes, and other processes *)

Finished == own.pc \in {"done", "aborted", "crashed"}

\* The call the owner is waiting for.
OwnPending ==
  CASE own.pc = "claim"                         -> {ClaimCall}
    [] own.pc = "write"                         -> {WriteCall(own.tok, own.res)}
    [] own.pc \in {"stageWrite", "releaseWrite"} -> {UpdateCall(own.seen)}
    [] Preparing("lease")                       -> {UpdateCall(own.me)}
    [] own.pc = "reopen"                        -> {ReopenCall(Reopened)}
    [] own.pc = "cancelRun"                     -> {CancelCall}
    [] OTHER                                    -> {}

Leaves(next) ==
  /\ own' = next
  /\ exec' = Idle
  /\ late' = late \cup ExecPending \cup OwnPending
  /\ UNCHANGED <<row, result, issued, fence, open, recorded, planCancelled, other, env, sweeps>>

Interrupt ==
  /\ env.interrupts
  /\ ~Finished
  /\ own.phase \notin {"interrupted", "failCleanup", "cancelCleanup"}
  /\ own.pc \notin {"abort", "abortCancel", "failCleanup", "failBatch"}
  /\ Leaves(IF own.pc = "close" THEN At("aborted")
                                ELSE [own EXCEPT !.pc = "release", !.phase = "interrupted",
                                                 !.leased = @ /\ own.phase # "cleanup"])

Crash ==
  /\ env.interrupts
  /\ ~Finished
  /\ Leaves(At("crashed"))

\* cancel_plan: the marker first, then cancel_turn, which cancels an active
\* batch and releases the sandboxes of its runs.
CancelPlan ==
  /\ env.cancels /\ ~planCancelled
  /\ planCancelled' = TRUE
  /\ UNCHANGED <<row, result, issued, fence, open, late, own, exec, recorded, other, env, sweeps>>

\* Another process that releases the run's sandbox reads and updates the row.
OtherStarts == other' = IF own.sandboxed THEN [other EXCEPT !.pc = "read"] ELSE other

cancel_turn ==
  /\ planCancelled /\ open /\ other.pc = "idle"
  /\ Apply(CancelBatchCall)
  /\ OtherStarts
  /\ UNCHANGED <<late, own, exec, recorded, planCancelled, env, sweeps>>

\* Mutated form: only claimed runs are reclaimed.
Sweep_claimedOnly ==
  /\ row.status = "running"
  /\ Finished \/ sweeps < env.maxSweeps
  /\ other.pc = "idle"
  /\ row' = SweptPayload(row)
  /\ result' = SweptResult(row)
  /\ sweeps' = IF Finished THEN sweeps ELSE sweeps + 1
  /\ OtherStarts
  /\ UNCHANGED <<issued, fence, open, late, own, exec, recorded, planCancelled, env>>

\* The sweep reclaims the run of a silent batch: its owner is gone, or its
\* heartbeats have failed for long enough.
Sweep ==
  /\ row.status \in ActiveRun
  /\ Finished \/ sweeps < env.maxSweeps
  /\ other.pc = "idle"
  /\ row' = SweptPayload(row)
  /\ result' = SweptResult(row)
  /\ sweeps' = IF Finished THEN sweeps ELSE sweeps + 1
  /\ OtherStarts
  /\ UNCHANGED <<issued, fence, open, late, own, exec, recorded, planCancelled, env>>

release_stale ==
  \/ /\ other.pc = "read"
     /\ other' = [pc |-> "write", p |-> row]
     /\ UNCHANGED <<row, result, issued, fence, open, late, own, exec, recorded, planCancelled, env, sweeps>>
  \/ /\ other.pc = "write"
     /\ Apply(UpdateCall(other.p))
     /\ other' = [pc |-> "idle", p |-> NoRun]
     /\ UNCHANGED <<late, own, exec, recorded, planCancelled, env, sweeps>>

-----------------------------------------------------------------------------
Prepare == Execute \/ CancelQueued \/ Enter \/ StageRead \/ StageWrite \/ Check \/ Reserve
             \/ Acquire \/ Lease \/ StartExecutor
Await   == ExecutorDone \/ CancelObserved \/ CancelExecutor
Settle  == Claim \/ Write \/ ForceUpdate \/ CancelRun \/ LookUp \/ LookAgain \/ Release
Finish  == Retry \/ RetryRead \/ Reopen \/ Record \/ cleanup_batch \/ finalize_nonterminal_runs \/ CloseBatch
             \/ MarkBatchFailed \/ MarkBatchCancelled
Owner    == Prepare \/ Await \/ Settle \/ Finish
Executor == ExecClaim \/ (\E res \in Outcomes : ExecWork(res)) \/ ExecWrite
Others   == CancelPlan \/ cancel_turn \/ Sweep \/ release_stale

Next == Owner \/ ExecutionTimesOut \/ Executor \/ Others \/ Interrupt \/ Crash
          \/ \E q \in late : Land(q)

Spec == Init /\ [][Next]_vars

\* Every coroutine is eventually resumed and the execution timeout eventually
\* expires; calls in flight end within the RPC deadline.  A crashed process is
\* replaced, and the replacement sweeps at its start.  Nothing is assumed of the
\* executor, the user, or a sweep while the owner lives.
Fairness ==
  /\ WF_vars(Owner) /\ WF_vars(ExecutionTimesOut)
  /\ WF_vars(\E q \in late : Land(q))
  /\ WF_vars(own.pc = "crashed" /\ Sweep) /\ WF_vars(release_stale)

FairSpec == Spec /\ Fairness

-----------------------------------------------------------------------------
(* Properties *)

\* The row and its tokens, the calls in flight and the continuations are well
\* formed; no row, and no reopen on its way, exceeds max_attempts.
TypeOK ==
  LET P == [status : TaskStatus, attempt : 1..MaxAttempts, token : 0..issued, err : ErrorClass]
      R == TerminalResults \cup {NoResult} IN
  /\ row \in P
  /\ result \in R
  /\ issued \in Nat /\ fence \in 0..issued /\ open \in BOOLEAN
  /\ \A q \in late : q.res \in R /\ q.token \in 0..issued /\ q.p \in P \cup {NoRun}
  /\ {own.me, own.seen} \subseteq P /\ own.res \in R /\ own.tok \in 0..issued
  /\ exec.res \in R /\ exec.tok \in 0..issued
  /\ recorded \in R
  /\ other.p \in P \cup {NoRun}
  /\ env.lost \in 0..env.maxLost /\ sweeps \in 0..env.maxSweeps

\* A run the scheduler counts as completed is stored as completed, with that
\* very result: no timeout, cancellation, sweep, late call or lost answer makes
\* the batch report success for a result the store does not hold.
CompletedIsCommitted ==
  recorded.status = "completed" => row.status = "completed" /\ result = recorded

\* No call was lost, and no sweep took the run from its live owner.
Undisturbed == env.lost = 0 /\ sweeps = 0

\* When the submitter has closed the batch, the run is settled: timeouts,
\* cancellations and calls that outlive them leave no active row behind
\* (finalize_nonterminal_runs finds what they left), as long as no call is lost
\* and no sweep reclaims the run meanwhile.
DoneIsSettled == own.pc = "done" /\ Undisturbed => IsSettled

\* A row is running under a token claimed for its current attempt: a worker of
\* an attempt that was retried cannot settle the next one, although its calls,
\* and rows read before the retry, may still arrive.  An old token comes back
\* only with a whole-row update that was read before a retry and lands after it:
\* a sweep's release of the sandbox, or a stage whose call was lost.  One such
\* accident is not enough while a run has two attempts.
TokenOfThisAttempt ==
  Undisturbed \/ (MaxAttempts = 2 /\ env.lost + sweeps <= 1)
    => (row.status = "running" => row.token > fence)

\* After a crash the row is settled for good, whatever calls of the dead process
\* still arrive.
CrashIsRecovered == <>[](own.pc = "crashed" => IsSettled)
=============================================================================
