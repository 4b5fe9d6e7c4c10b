--------------------------- MODULE BatchScheduler ---------------------------
(***************************************************************************)
(* One batch executed by the core: StagedBatchExecutor drives the stages   *)
(* in order, BatchScheduler.run the runs of one stage.  The coroutine is   *)
(* one process whose steps end where it awaits; the tasks it has created   *)
(* finish at any await.  What a run's execution returns, and whether a     *)
(* reopen for retry succeeds, is refused or raises, is left open here      *)
(* (RunCoordinator and the store decide it).  The coroutine itself may be  *)
(* cancelled at any await.                                                 *)
(***************************************************************************)
EXTENDS JoinStrategy, Integers, FiniteSets, Sequences

CONSTANTS
  Runs,         \* the batch, as batch_item_index numbers
  StageOf,      \* spec.stage of each run
  KeyOf,        \* run_resource_key of each run
  Limit,        \* resource_limits, for the keys that are limited
  Concurrency,  \* the execution plan's concurrency
  MaxAttempts,  \* RetryPolicy.max_attempts
  Joins,        \* join strategies considered
  Outcomes      \* results an execution may return

ASSUME SchedulerAssumption ==
  /\ IsFiniteSet(Runs) /\ Runs \subseteq Nat /\ Runs # {}
  /\ StageOf \in [Runs -> Nat]
  /\ DOMAIN KeyOf = Runs
  /\ \A k \in DOMAIN Limit : Limit[k] \in Nat \ {0}
  /\ Concurrency \in Nat \ {0} /\ MaxAttempts \in Nat \ {0}
  /\ Joins \subseteq JoinStrategies
  /\ Outcomes \subseteq TerminalResults

VARIABLES
  join,       \* the batch's join strategy, fixed
  pc,         \* where the coroutine is
  stage,      \* the stage being driven
  blocked,    \* blocked_by is set
  pending,    \* runs not started, a FIFO
  running,    \* runs with a task the loop has not collected
  outcome,    \* the result a finished task returned
  judging,    \* the collected runs of this round still to be judged
  roundStops, \* this round's stop decision
  stop,       \* stop_reason is set
  inUse,      \* resource_in_use
  attempt,    \* run.attempt
  results,    \* the recorded results, of all stages
  raising     \* the exception leaving the coroutine

vars == <<join, pc, stage, blocked, pending, running, outcome, judging, roundStops, stop,
          inUse, attempt, results, raising>>

Keys == DOMAIN Limit
run_resource(r) == IF KeyOf[r] \in Keys THEN {KeyOf[r]} ELSE {}

StageRuns(s) == {r \in Runs : StageOf[r] = s}
Stages == {StageOf[r] : r \in Runs}
Later(s) == {t \in Stages : t > s}
First(S) == CHOOSE s \in S : \A t \in S : s <= t

\* The runs of a stage, in the order of the batch.
Rank(S, r) == Cardinality({q \in S : q <= r})
StageQueue(s) ==
  [i \in 1..Cardinality(StageRuns(s)) |-> CHOOSE r \in StageRuns(s) : Rank(StageRuns(s), r) = i]

TypeOK ==
  /\ join \in JoinStrategies
  /\ pc \in {"launch", "wait", "judge", "cancelRest", "stageDone", "cancelStage",
             "unwind", "returned", "raised"}
  /\ stage \in Stages
  /\ pending \in Seq(Runs)
  /\ running \subseteq Runs /\ judging \subseteq Runs
  /\ outcome \in [Runs -> Result \cup {NoResult}]
  /\ results \in [Runs -> Result \cup {NoResult}]
  /\ blocked \in BOOLEAN /\ roundStops \in BOOLEAN /\ stop \in BOOLEAN
  /\ inUse \in [Keys -> Nat]
  /\ attempt \in [Runs -> 1..MaxAttempts]
  /\ raising \in {"none", "error", "cancelled"}

Init ==
  /\ join \in Joins
  /\ pc = "launch"
  /\ stage = First(Stages)
  /\ blocked = FALSE
  /\ pending = StageQueue(stage)
  /\ running = {} /\ judging = {}
  /\ outcome = [r \in Runs |-> NoResult]
  /\ results = [r \in Runs |-> NoResult]
  /\ roundStops = FALSE /\ stop = FALSE
  /\ inUse = [k \in Keys |-> 0]
  /\ attempt = [r \in Runs |-> 1]
  /\ raising = "none"

-----------------------------------------------------------------------------
(* BatchScheduler.run *)

can_start(r) == \A k \in run_resource(r) : inUse[k] < Limit[k]

CanLaunch ==
  /\ ~stop
  /\ Cardinality(running) < Concurrency
  /\ \E i \in DOMAIN pending : can_start(pending[i])

Popped(i) == SubSeq(pending, 1, i - 1) \o SubSeq(pending, i + 1, Len(pending))

\* Takes the first pending run whose resource has room.
StartNext ==
  LET next_index == First({i \in DOMAIN pending : can_start(pending[i])})
      r == pending[next_index]
  IN
  /\ pc = "launch"
  /\ CanLaunch
  /\ pending' = Popped(next_index)
  /\ inUse' = [k \in Keys |-> IF k \in run_resource(r) THEN inUse[k] + 1 ELSE inUse[k]]
  /\ running' = running \cup {r}
  /\ outcome' = [outcome EXCEPT ![r] = NoResult]
  /\ UNCHANGED <<join, pc, stage, blocked, judging, roundStops, stop, attempt, results, raising>>

Wait ==
  /\ pc = "launch"
  /\ ~CanLaunch
  /\ pc' = IF running # {} THEN "wait" ELSE IF stop THEN "cancelRest" ELSE "stageDone"
  /\ UNCHANGED <<join, stage, blocked, pending, running, outcome, judging, roundStops, stop,
                 inUse, attempt, results, raising>>

\* _execute_safely returns: a result, or an internal failure for an exception.
TaskFinishes(r, res) ==
  /\ pc \in {"wait", "judge", "unwind"}
  /\ r \in running
  /\ outcome[r] = NoResult
  /\ outcome' = [outcome EXCEPT ![r] = res]
  /\ UNCHANGED <<join, pc, stage, blocked, pending, running, judging, roundStops, stop, inUse,
                 attempt, results, raising>>

\* Mutated form: a finished run keeps its resource.
Collect_keepsResource ==
  LET done == {r \in running : outcome[r] # NoResult} IN
  /\ pc = "wait"
  /\ done # {}
  /\ running' = running \ done
  /\ judging' = done
  /\ roundStops' = (stop \/ \E r \in done : stop_reason(join, outcome[r]))
  /\ pc' = "judge"
  /\ UNCHANGED <<join, stage, blocked, pending, outcome, stop, inUse, attempt, results, raising>>

\* asyncio.wait returns every task that is done; the stop decision is taken
\* over all of them before any retry.
Collect ==
  LET done == {r \in running : outcome[r] # NoResult}
      freed(k) == Cardinality({r \in done : k \in run_resource(r)})
  IN
  /\ pc = "wait"
  /\ done # {}
  /\ running' = running \ done
  /\ inUse' = [k \in Keys |-> IF freed(k) <= inUse[k] THEN inUse[k] - freed(k) ELSE 0]
  /\ judging' = done
  /\ roundStops' = (stop \/ \E r \in done : stop_reason(join, outcome[r]))
  /\ pc' = "judge"
  /\ UNCHANGED <<join, stage, blocked, pending, outcome, stop, attempt, results, raising>>

\* Mutated form: only the rounds before this one are asked for a stop.
RetryDecided_earlierRounds(r) ==
  ~stop /\ should_retry(attempt[r], MaxAttempts, outcome[r])

\* A round that stops the batch retries nothing.
RetryDecided(r) ==
  ~roundStops /\ should_retry(attempt[r], MaxAttempts, outcome[r])

\* The end of a round, when r is the last of it.
Judged(r) ==
  /\ judging' = judging \ {r}
  /\ pc' = IF judging = {r} THEN "launch" ELSE "judge"

Record(r) ==
  /\ results' = [results EXCEPT ![r] = outcome[r]]
  /\ stop' = (stop \/ stop_reason(join, outcome[r]))
  /\ Judged(r)
  /\ UNCHANGED <<join, stage, blocked, pending, running, outcome, roundStops, inUse, attempt, raising>>

RecordResult(r) ==
  /\ pc = "judge" /\ r \in judging
  /\ ~RetryDecided(r)
  /\ Record(r)

\* Mutated forms: the reopened run goes first; the attempt is not counted.
Requeued_atFront(r) == <<r>> \o pending
Requeued(r) == Append(pending, r)

NextAttempt_notCounted(r) == attempt
NextAttempt(r) == [attempt EXCEPT ![r] = @ + 1]

\* prepare_retry reopens the row: the run is queued again, at the back.
RetryReopened(r) ==
  /\ pc = "judge" /\ r \in judging
  /\ RetryDecided(r)
  /\ pending' = Requeued(r)
  /\ attempt' = NextAttempt(r)
  /\ Judged(r)
  /\ UNCHANGED <<join, stage, blocked, running, outcome, roundStops, stop, inUse, results, raising>>

\* prepare_retry returns None: the prior result counts.
RetryRefused(r) ==
  /\ pc = "judge" /\ r \in judging
  /\ RetryDecided(r)
  /\ Record(r)

Unwind(exception) ==
  /\ pc' = "unwind"
  /\ raising' = exception
  /\ UNCHANGED <<join, stage, blocked, pending, running, outcome, judging, roundStops, stop,
                 inUse, attempt, results>>

\* prepare_retry's first read of the row is not guarded: its error leaves run().
RetryRaises(r) ==
  /\ pc = "judge" /\ r \in judging
  /\ RetryDecided(r)
  /\ Unwind("error")

-----------------------------------------------------------------------------
(* cancel_queued, for the rest of a stopped stage and for a blocked stage *)

Cancelled == [status |-> "cancelled", err |-> "internal"]

\* Mutated form: the first of the remaining runs is skipped.
CancelNext_skipsFirst ==
  /\ pc \in {"cancelRest", "cancelStage"}
  /\ pending # <<>>
  /\ results' = IF Len(pending) > 1 THEN [results EXCEPT ![pending[2]] = Cancelled] ELSE results
  /\ pending' = Tail(pending)
  /\ UNCHANGED <<join, pc, stage, blocked, running, outcome, judging, roundStops, stop, inUse,
                 attempt, raising>>

CancelNext ==
  /\ pc \in {"cancelRest", "cancelStage"}
  /\ pending # <<>>
  /\ results' = [results EXCEPT ![Head(pending)] = Cancelled]
  /\ pending' = Tail(pending)
  /\ UNCHANGED <<join, pc, stage, blocked, running, outcome, judging, roundStops, stop, inUse,
                 attempt, raising>>

\* claim_run or write_result fails with something else than a stale worker.
CancelRaises ==
  /\ pc \in {"cancelRest", "cancelStage"}
  /\ pending # <<>>
  /\ Unwind("error")

CancelledAll ==
  /\ pc \in {"cancelRest", "cancelStage"}
  /\ pending = <<>>
  /\ pc' = "stageDone"
  /\ UNCHANGED <<join, stage, blocked, pending, running, outcome, judging, roundStops, stop,
                 inUse, attempt, results, raising>>

-----------------------------------------------------------------------------
(* StagedBatchExecutor.run *)

NextStage ==
  LET gated == blocked \/ stage_gate_blocks(join, {results[r] : r \in StageRuns(stage)}) IN
  /\ pc = "stageDone"
  /\ Later(stage) # {}
  /\ stage' = First(Later(stage))
  /\ blocked' = gated
  /\ pending' = StageQueue(stage')
  /\ stop' = FALSE
  /\ pc' = IF gated THEN "cancelStage" ELSE "launch"
  /\ UNCHANGED <<join, running, outcome, judging, roundStops, inUse, attempt, results, raising>>

Return ==
  /\ pc = "stageDone"
  /\ Later(stage) = {}
  /\ pc' = "returned"
  /\ UNCHANGED <<join, stage, blocked, pending, running, outcome, judging, roundStops, stop,
                 inUse, attempt, results, raising>>

\* The coroutine is cancelled while it awaits.
Interrupt ==
  /\ \/ pc \in {"wait", "cancelRest", "cancelStage", "stageDone"}
     \/ pc = "judge" /\ \E r \in judging : RetryDecided(r)
  /\ Unwind("cancelled")

\* _cancel_and_wait: every task in flight is done before the error leaves.
Unwound ==
  /\ pc = "unwind"
  /\ \A r \in running : outcome[r] # NoResult
  /\ pc' = "raised"
  /\ UNCHANGED <<join, stage, blocked, pending, running, outcome, judging, roundStops, stop,
                 inUse, attempt, results, raising>>

-----------------------------------------------------------------------------
SchedulerStep ==
  \/ StartNext \/ Wait \/ Collect
  \/ \E r \in Runs : RecordResult(r) \/ RetryReopened(r) \/ RetryRefused(r) \/ RetryRaises(r)
  \/ CancelNext \/ CancelRaises \/ CancelledAll
  \/ NextStage \/ Return \/ Unwound

Finishes(r) == \E res \in Outcomes : TaskFinishes(r, res)

Next ==
  \/ SchedulerStep
  \/ Interrupt
  \/ \E r \in Runs : Finishes(r)

Spec == Init /\ [][Next]_vars

\* The event loop runs a ready coroutine, and every execution ends: it is cut
\* off at its execution timeout.
FairSpec == Spec /\ WF_vars(SchedulerStep) /\ \A r \in Runs : WF_vars(Finishes(r))
-----------------------------------------------------------------------------
(* What the scheduler promises *)

Waiting == {pending[i] : i \in DOMAIN pending}
Recorded == {r \in Runs : results[r] # NoResult}

\* Each run of the current stage is in one place: queued once, executing,
\* being judged, or recorded; a retry never leaves a run both recorded and
\* queued, and no run is queued twice (pending, running, completed, results).
EveryRunInOnePlace ==
  /\ \A i, j \in DOMAIN pending : pending[i] = pending[j] => i = j
  /\ \A r \in StageRuns(stage) :
       /\ r \in Waiting \cup running \cup judging \cup Recorded
       /\ r \in Waiting => r \notin running \cup judging \cup Recorded
       /\ r \in running => r \notin judging \cup Recorded
       /\ r \in judging => r \notin Recorded

\* A batch that returns has a result for every run, whatever was stopped,
\* retried, refused or gated on the way.
ReturnsEveryResult ==
  pc = "returned" => \A r \in Runs : results[r] # NoResult

\* The resource counters are exact and within their limits, across retries
\* and stages, and the concurrency limit is never exceeded.
SlotsHonoured ==
  /\ Cardinality(running) <= Concurrency
  /\ \A k \in Keys : /\ inUse[k] = Cardinality({r \in running : k \in run_resource(r)})
                     /\ inUse[k] <= Limit[k]

Started(r) == r \in running \cup judging \/ results[r].status \notin {"none", "cancelled"}

\* A run starts only when every earlier stage is recorded, and under
\* all_success and fail_fast only when every earlier run completed
\* (_stage_gate_blocks, sticky through blocked_by).
StagesInOrder ==
  \A r, q \in Runs :
    Started(r) /\ StageOf[q] < StageOf[r] =>
      /\ results[q] # NoResult
      /\ join \in {"all_success", "fail_fast"} => results[q].status = "completed"

\* When the coroutine ends, normally or not, no task it created is still
\* executing (the finally clause and _cancel_and_wait).
NoOrphanTask ==
  pc \in {"returned", "raised"} => \A r \in running : outcome[r] # NoResult

\* A flaky run never starves its siblings: a later attempt starts only when
\* no sibling on the same resource still waits for its first one.
FairRetry ==
  [][\A r \in running' \ running :
       attempt[r] > 1 =>
         \A i \in DOMAIN pending : KeyOf[pending[i]] = KeyOf[r] => attempt[pending[i]] > 1]_vars

\* No attempt is reopened once a result of its stage stops the batch, also
\* when both results arrive in the same round and the retryable one is judged
\* first: its real result is recorded instead.
NoRetryOnceStopping ==
  [][\A r \in Runs :
       attempt'[r] # attempt[r] =>
         \A q \in StageRuns(stage) :
           /\ results[q] # NoResult => ~stop_reason(join, results[q])
           /\ q \in judging => ~stop_reason(join, outcome[q])]_vars

\* Every batch ends: retries are bounded and no resource is waited for by a
\* run that nobody will release it to.
EventuallyEnds == <>(pc \in {"returned", "raised"})
=============================================================================
