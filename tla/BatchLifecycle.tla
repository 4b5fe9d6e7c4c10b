--------------------------- MODULE BatchLifecycle ---------------------------
(***************************************************************************)
(* The submissions of one submission_id, from the lookup of an existing    *)
(* batch to the answer each caller gets.  One of them creates the batch    *)
(* row and owns it: it creates the runs, executes them and closes the      *)
(* batch.  The others observe the rows and answer from them.  Around them  *)
(* act the background task that cancels a batch whose creation was         *)
(* interrupted, the user who cancels the turn, the startup reconciler and  *)
(* crashes.  Every submission that finds no batch puts a parent tool call  *)
(* of its own into the shared plan: the projection.                        *)
(*                                                                         *)
(* A store call takes effect or fails for its caller; one that fails, or   *)
(* whose coroutine is cancelled, is left in flight (late).  The executions *)
(* of the runs are abstracted to the statuses they give the rows.          *)
(***************************************************************************)
EXTENDS JoinStrategy, FiniteSets

CONSTANTS
  Submitters,   \* calls of submit with the same submission_id
  Join,         \* the batch's join strategy
  Environments  \* the batch and what may befall it, one choice per behaviour

Environment ==
  [n : Nat \ {0},                     \* tasks of the batch
   print : [Submitters -> Nat],       \* _prepared_submission_fingerprint of each
   retries : Nat,                     \* reopens of failed runs, over all runs
   lost : {0}, maxLost : Nat,         \* calls that fail for their caller
   interrupts : BOOLEAN,              \* whether a submission's task may be cancelled
   cancels : BOOLEAN,                 \* whether the user may cancel the turn
   crashes : BOOLEAN]                 \* whether a process may crash

ASSUME LifecycleAssumption == Join \in JoinStrategies /\ Environments \subseteq Environment

VARIABLES
  batch,    \* the batch row: its status and materialization_token
  run,      \* the status of each run row
  call,     \* the parent tool call of each submitter, as the plan shows it
  late,     \* calls in flight that nobody waits for
  sub,      \* each submission: program counter and local variables
  converge, \* submitters whose convergence task is polling
  user,     \* cancel_turn: "idle", "show" or "done"
  rec,      \* the reconciler: "idle", "swept", or the status it will write
  retries,  \* reopens left
  env       \* the environment, and the calls lost so far

store == <<batch, run>>
vars  == <<batch, run, call, late, sub, converge, user, rec, retries, env>>

Tasks   == 1..env.n
Nobody  == "nobody"
NoBatch == [status |-> "none", token |-> Nobody]

ToolCall == {"none", "running", "successful", "failed", "gone"}

\* A parent tool call that settles shows success or failure, nothing else.
tool_call_status_for_batch(s) == IF s = "completed" THEN "successful" ELSE "failed"

Owning    == {"runs", "exec", "tally", "close", "sync",
              "fail", "failUpdate", "failShow", "cancel", "reload", "cancelShow"}
Observing == {"load", "watch", "verdict", "tidy", "drop"}
Ended     == {"returned", "raised", "crashed"}

NewSubmission ==
  [pc |-> "find",
   status |-> "none",                      \* batch.status in memory
   made |-> 0,                             \* runs created so far
   known |-> FALSE,                        \* parent_tool_call_id was returned
   prov |-> FALSE,                         \* provisional_parent_tool_call_id is set
   listed |-> {},                          \* runs the last poll saw settled
   seen |-> [i \in Tasks |-> "none"],      \* results read, per run
   answer |-> "none"]                      \* status of the BatchResult returned

TypeOK ==
  /\ batch \in [status : BatchStatus, token : Submitters] \cup {NoBatch}
  /\ run \in [Tasks -> TaskStatus \cup {"none"}]
  /\ call \in [Submitters -> ToolCall]
  /\ \A s \in Submitters :
       /\ sub[s].pc \in {"find", "project", "plan", "create", "abandon"} \cup Owning \cup Observing \cup Ended
       /\ sub[s].status \in BatchStatus \cup {"none"}
       /\ sub[s].made \in 0..env.n
       /\ {sub[s].known, sub[s].prov} \subseteq BOOLEAN
       /\ sub[s].listed \subseteq Tasks
       /\ sub[s].seen \in [Tasks -> TaskStatus \cup {"none"}]
       /\ sub[s].answer \in TerminalBatch \cup {"none"}
  /\ converge \subseteq Submitters
  /\ user \in {"idle", "show", "done"}
  /\ rec \in {"idle", "swept"} \cup TerminalBatch
  /\ retries \in 0..env.retries
  /\ env.lost \in 0..env.maxLost

Init ==
  /\ env \in Environments
  /\ batch = NoBatch
  /\ run = [i \in Tasks |-> "none"]
  /\ call = [s \in Submitters |-> "none"]
  /\ late = {}
  /\ sub = [s \in Submitters |-> NewSubmission]
  /\ converge = {}
  /\ user = "idle"
  /\ rec = "idle"
  /\ retries = env.retries

-----------------------------------------------------------------------------
(* Store calls *)

BatchActive == batch.status \in ActiveBatch
Settled(i)  == run[i] \in TerminalRun
Missing     == {i \in Tasks : run[i] = "none"}

CallIsLost == env.lost < env.maxLost /\ env' = [env EXCEPT !.lost = @ + 1]

Request(op, by, i, st) == [op |-> op, by |-> by, i |-> i, st |-> st]
CreateBatchCall(s) == Request("createBatch", s, 0, "running")
CreateRunCall(s, i) == Request("createRun", s, i, "queued")
UpdateBatchCall(s, st) == Request("updateBatch", s, 0, st)
CancelBatchCall(s) == Request("cancelBatch", s, 0, "cancelled")
CancelRunCall(s, i) == Request("cancelRun", s, i, "cancelled")

CancelActive == [i \in Tasks |-> IF run[i] \in ActiveRun THEN "cancelled" ELSE run[i]]

\* What a call does to the rows.  A create that finds its row, and an update
\* or cancel of a settled one, change nothing.
Apply(q) ==
  \/ /\ q.op = "createBatch"
     /\ batch' = IF batch = NoBatch THEN [status |-> "running", token |-> q.by] ELSE batch
     /\ UNCHANGED run
  \/ /\ q.op = "createRun"
     /\ run' = IF run[q.i] = "none" THEN [run EXCEPT ![q.i] = "queued"] ELSE run
     /\ UNCHANGED batch
  \/ /\ q.op = "updateBatch"
     /\ batch' = IF BatchActive THEN [batch EXCEPT !.status = q.st] ELSE batch
     /\ UNCHANGED run
  \/ /\ q.op = "cancelBatch"
     /\ batch' = IF BatchActive THEN [batch EXCEPT !.status = "cancelled"] ELSE batch
     /\ run' = IF BatchActive THEN CancelActive ELSE run
  \/ /\ q.op = "cancelRun"
     /\ run' = IF run[q.i] \in ActiveRun THEN [run EXCEPT ![q.i] = "cancelled"] ELSE run
     /\ UNCHANGED batch

\* An abandoned call lands after all, or its deadline passes.
Land(q) ==
  /\ q \in late
  /\ late' = late \ {q}
  /\ Apply(q) \/ UNCHANGED store
  /\ UNCHANGED <<call, sub, converge, user, rec, retries, env>>

\* Submission s goes on with local state l.
Goto(s, l) == sub' = [sub EXCEPT ![s] = l]
At(s, where) == sub[s].pc = where
To(s, where) == [sub[s] EXCEPT !.pc = where]

\* A call fails for its caller, who goes on with l.
Lose(s, q, l) ==
  /\ CallIsLost
  /\ late' = late \cup q
  /\ Goto(s, l)
  /\ UNCHANGED <<batch, run, call>>

\* The task is cancelled while it waits for the calls in q.
Interrupt(s, q, l) ==
  /\ env.interrupts
  /\ late' = late \cup q
  /\ Goto(s, l)
  /\ UNCHANGED <<batch, run, call, env>>

\* The tool call of c is changed in the plan, or the change fails unseen.
Show(c, status) ==
  \/ call' = [call EXCEPT ![c] = status] /\ UNCHANGED env
  \/ CallIsLost /\ UNCHANGED call

others == <<converge, user, rec, retries>>

-----------------------------------------------------------------------------
(* Submission: lookup, projection, creation *)

SameFingerprint(s) == env.print[s] = env.print[batch.token]

\* Mutated form: a submission with other content observes the batch as well.
_find_existing_submission_batch_anyContent(s) ==
  /\ At(s, "find")
  /\ \/ /\ Goto(s, IF batch = NoBatch THEN To(s, "project")
                   ELSE [To(s, "load") EXCEPT !.status = batch.status])
        /\ UNCHANGED <<batch, run, call, late, env>>
     \/ Lose(s, {}, To(s, "raised"))
     \/ Interrupt(s, {}, To(s, "raised"))
  /\ UNCHANGED others

_find_existing_submission_batch(s) ==
  /\ At(s, "find")
  /\ \/ /\ Goto(s, IF batch = NoBatch THEN To(s, "project")
                   ELSE IF ~SameFingerprint(s) THEN To(s, "raised")
                   ELSE [To(s, "load") EXCEPT !.status = batch.status])
        /\ UNCHANGED <<batch, run, call, late, env>>
     \/ Lose(s, {}, To(s, "raised"))
     \/ Interrupt(s, {}, To(s, "raised"))
  /\ UNCHANGED others

\* The call is written to the plan before it is announced, and only then
\* does the caller learn its id.
_create_batch_projection(s) ==
  /\ At(s, "project")
  /\ \/ /\ call' = [call EXCEPT ![s] = "running"]
        /\ Goto(s, [To(s, "plan") EXCEPT !.known = TRUE])
        /\ UNCHANGED env
     \/ /\ \/ CallIsLost
           \/ env.interrupts /\ UNCHANGED env
        /\ \E c \in {"none", "running"} : call' = [call EXCEPT ![s] = c]
        /\ Goto(s, To(s, "raised"))
  /\ UNCHANGED <<batch, run, late>> /\ UNCHANGED others

\* Before the batch is built there is nothing to converge: the projection is
\* settled and the error goes to the caller.
plan(s) ==
  /\ At(s, "plan")
  /\ \/ /\ Goto(s, To(s, "create"))
        /\ UNCHANGED <<batch, run, call, late, env>>
     \/ /\ CallIsLost
        /\ call' = [call EXCEPT ![s] = "failed"]
        /\ Goto(s, To(s, "raised"))
        /\ UNCHANGED <<batch, run, late>>
     \/ Interrupt(s, {}, To(s, "abandon"))
  /\ UNCHANGED others

\* Mutated form: the row is taken for one's own whoever created it.
materialize_batch_alwaysOwns(s) ==
  /\ At(s, "create")
  /\ \/ /\ Apply(CreateBatchCall(s))
        /\ Goto(s, [To(s, "runs") EXCEPT !.status = "running"])
        /\ UNCHANGED <<call, late, converge, env>>
     \/ Lose(s, {CreateBatchCall(s)}, To(s, "abandon")) /\ converge' = converge \cup {s}
  /\ UNCHANGED <<user, rec, retries>>

\* create_batch says who created the row.  A failure starts the convergence
\* task; so does a row with other content.
materialize_batch(s) ==
  /\ At(s, "create")
  /\ \/ /\ Apply(CreateBatchCall(s))
        /\ Goto(s, CASE batch = NoBatch ->
                          [To(s, "runs") EXCEPT !.status = "running"]
                     [] batch # NoBatch /\ SameFingerprint(s) ->
                          [To(s, "load") EXCEPT !.status = batch.status, !.prov = TRUE]
                     [] OTHER -> To(s, "abandon"))
        /\ converge' = IF batch # NoBatch /\ ~SameFingerprint(s)
                         THEN converge \cup {s} ELSE converge
        /\ UNCHANGED <<call, late, env>>
     \/ /\ \/ Lose(s, {CreateBatchCall(s)}, To(s, "abandon"))
           \/ Interrupt(s, {CreateBatchCall(s)}, To(s, "abandon"))
        /\ converge' = converge \cup {s}
  /\ UNCHANGED <<user, rec, retries>>

\* _settle_batch_projection with CANCELLED, and the error goes on.
AbandonProjection(s) ==
  /\ At(s, "abandon")
  /\ Show(s, tool_call_status_for_batch("cancelled"))
  /\ Goto(s, To(s, "raised"))
  /\ UNCHANGED <<batch, run, late>> /\ UNCHANGED others

\* The background task polls until the batch is visible.  Its own batch it
\* cancels, and tries again if that fails; for another's it takes its own
\* projection back.
_cancel_owned_batch_when_visible(s) ==
  /\ s \in converge
  /\ \/ /\ batch.token = s
        /\ \/ /\ Apply(CancelBatchCall(s))
              /\ converge' = converge \ {s}
              /\ UNCHANGED <<late, env>>
           \/ /\ CallIsLost
              /\ late' = late \cup {CancelBatchCall(s)}
              /\ UNCHANGED <<batch, run, converge>>
        /\ UNCHANGED call
     \/ /\ batch.token \notin {s, Nobody}
        /\ Show(s, "gone")
        /\ converge' = converge \ {s}
        /\ UNCHANGED <<batch, run, late>>
  /\ UNCHANGED <<sub, user, rec, retries>>

\* The task gives up after 30 s.  A create_batch call that was sent before has
\* a deadline of 20 s, so it has landed or expired by then.
ConvergeTimeout(s) ==
  /\ s \in converge
  /\ CreateBatchCall(s) \notin late
  /\ batch = NoBatch
  /\ converge' = converge \ {s}
  /\ UNCHANGED <<batch, run, call, late, sub, user, rec, retries, env>>

-----------------------------------------------------------------------------
(* The owner *)

\* The rows are created one by one.
create_runs(s) ==
  LET i == sub[s].made + 1 IN
  /\ At(s, "runs")
  /\ \/ /\ sub[s].made < env.n
        /\ Apply(CreateRunCall(s, i))
        /\ Goto(s, [sub[s] EXCEPT !.made = i])
        /\ UNCHANGED <<call, late, env>>
     \/ /\ sub[s].made = env.n
        /\ Goto(s, To(s, "exec"))
        /\ UNCHANGED <<batch, run, call, late, env>>
     \/ \E q \in {{}, {CreateRunCall(s, i)}} :
          /\ q # {} => i <= env.n
          /\ Lose(s, q, To(s, "fail")) \/ Interrupt(s, q, To(s, "cancel"))
  /\ UNCHANGED others

\* The executions: a run is claimed, settles, and may be reopened after a
\* failure; the scheduler or a cancelled plan may cancel it before it starts.
RunStep(s, i, st) ==
  /\ At(s, "exec")
  /\ \/ run[i] = "queued" /\ st = "running" /\ user = "idle" /\ UNCHANGED retries
     \/ run[i] = "queued" /\ st = "cancelled" /\ UNCHANGED retries
     \/ run[i] = "running" /\ st \in {"completed", "failed"} /\ UNCHANGED retries
     \/ run[i] = "failed" /\ st = "queued" /\ retries > 0 /\ retries' = retries - 1
  /\ run' = [run EXCEPT ![i] = st]
  /\ UNCHANGED <<batch, call, late, sub, converge, user, rec, env>>

\* The staged executor returns, raises, or is cancelled (by its task or by the
\* death of the heartbeat).
ExecutionEnds(s) ==
  /\ At(s, "exec")
  /\ \/ /\ \A i \in Tasks : Settled(i)
        /\ Goto(s, [To(s, "tally") EXCEPT !.status = batch_status(Join, {run[i] : i \in Tasks})])
        /\ UNCHANGED <<batch, run, call, late, env>>
     \/ Lose(s, {}, To(s, "fail"))
     \/ Interrupt(s, {}, To(s, "cancel"))
  /\ UNCHANGED others

\* The status in memory is terminal from here on: an error leaves the stored
\* batch as it is, a cancellation settles the projection with that status.
ListFinalRuns(s) ==
  /\ At(s, "tally")
  /\ \/ Goto(s, To(s, "close")) /\ UNCHANGED <<batch, run, call, late, env>>
     \/ Lose(s, {}, To(s, "raised"))
     \/ Interrupt(s, {}, To(s, "cancelShow"))
  /\ UNCHANGED others

\* Mutated form: the answer is the stored status, the projection shows the
\* computed one.
CloseBatch_showsOwn(s) ==
  /\ At(s, "close")
  /\ \/ /\ Apply(UpdateBatchCall(s, sub[s].status))
        /\ Goto(s, [To(s, "sync") EXCEPT !.answer = batch'.status])
        /\ UNCHANGED <<call, late, env>>
     \/ Lose(s, {UpdateBatchCall(s, sub[s].status)}, To(s, "raised"))
     \/ Interrupt(s, {UpdateBatchCall(s, sub[s].status)}, To(s, "cancelShow"))
  /\ UNCHANGED others

\* update_batch answers with the status that is stored, and so does the owner.
CloseBatch(s) ==
  /\ At(s, "close")
  /\ \/ /\ Apply(UpdateBatchCall(s, sub[s].status))
        /\ Goto(s, [To(s, "sync") EXCEPT !.status = batch'.status, !.answer = batch'.status])
        /\ UNCHANGED <<call, late, env>>
     \/ Lose(s, {UpdateBatchCall(s, sub[s].status)}, To(s, "raised"))
     \/ Interrupt(s, {UpdateBatchCall(s, sub[s].status)}, To(s, "cancelShow"))
  /\ UNCHANGED others

\* Three attempts, then the settling of last resort, then the answer.
SyncProjection(s) ==
  /\ At(s, "sync")
  /\ \/ /\ Show(s, tool_call_status_for_batch(sub[s].status))
        /\ Goto(s, To(s, "returned"))
        /\ UNCHANGED <<batch, run, late>>
     \/ Interrupt(s, {}, [To(s, "cancelShow") EXCEPT !.answer = "none"])
  /\ UNCHANGED others

\* _cancel_active_runs_after_failure: every active run is cancelled, or three
\* rounds of trying fail.
CancelActiveRuns(s) ==
  /\ At(s, "fail")
  /\ \/ \E i \in Tasks :
          /\ run[i] \in ActiveRun
          /\ Apply(CancelRunCall(s, i))
          /\ UNCHANGED <<call, late, sub, env>>
     \/ /\ \A i \in Tasks : run[i] \notin ActiveRun
        /\ Goto(s, To(s, "failUpdate"))
        /\ UNCHANGED <<batch, run, call, late, env>>
     \/ \E i \in Tasks :
          /\ run[i] \in ActiveRun
          /\ \/ Lose(s, {CancelRunCall(s, i)}, To(s, "failUpdate"))
             \/ Interrupt(s, {CancelRunCall(s, i)}, To(s, "raised"))
  /\ UNCHANGED others

_mark_batch_failed(s) ==
  /\ At(s, "failUpdate")
  /\ \/ /\ Apply(UpdateBatchCall(s, "failed"))
        /\ Goto(s, [To(s, "failShow") EXCEPT !.status = batch'.status])
        /\ UNCHANGED <<call, late, env>>
     \/ Lose(s, {UpdateBatchCall(s, "failed")}, [To(s, "failShow") EXCEPT !.status = "failed"])
     \/ Interrupt(s, {UpdateBatchCall(s, "failed")}, To(s, "raised"))
  /\ UNCHANGED others

\* The batch and its active runs are cancelled in one call; what is shown is
\* what is stored afterwards.
_mark_batch_cancelled(s) ==
  /\ At(s, "cancel")
  /\ \/ /\ Apply(CancelBatchCall(s))
        /\ Goto(s, [To(s, "reload") EXCEPT !.status = "cancelled"])
        /\ UNCHANGED <<call, late, env>>
     \/ Lose(s, {CancelBatchCall(s)}, [To(s, "reload") EXCEPT !.status = "cancelled"])
     \/ Interrupt(s, {CancelBatchCall(s)}, To(s, "raised"))
  /\ UNCHANGED others

ReloadCancelled(s) ==
  /\ At(s, "reload")
  /\ \/ /\ Goto(s, [To(s, "cancelShow") EXCEPT !.status = batch.status])
        /\ UNCHANGED <<batch, run, call, late, env>>
     \/ Lose(s, {}, To(s, "cancelShow"))
     \/ Interrupt(s, {}, To(s, "raised"))
  /\ UNCHANGED others

\* The projection is settled and the error goes to the caller.
SettleProjection(s) ==
  /\ sub[s].pc \in {"failShow", "cancelShow"}
  /\ \/ Show(s, tool_call_status_for_batch(sub[s].status))
     \/ env.interrupts /\ UNCHANGED <<call, env>>
  /\ Goto(s, To(s, "raised"))
  /\ UNCHANGED <<batch, run, late>> /\ UNCHANGED others

-----------------------------------------------------------------------------
(* A duplicate submission *)

\* load_existing_batch_runs waits for all the rows.  If the batch settles or
\* the deadline passes without them, or a read fails, the submission raises.
\* Then a provisional projection is removed; if that fails it is kept for later.
load_existing_batch_runs(s) ==
  /\ At(s, "load")
  /\ \/ /\ Missing = {}
        /\ IF sub[s].prov
             THEN \/ /\ call' = [call EXCEPT ![s] = "gone"]
                     /\ Goto(s, [To(s, "watch") EXCEPT !.prov = FALSE])
                     /\ UNCHANGED env
                  \/ /\ CallIsLost
                     /\ Goto(s, To(s, "watch"))
                     /\ UNCHANGED call
             ELSE Goto(s, To(s, "watch")) /\ UNCHANGED <<call, env>>
        /\ UNCHANGED <<batch, run, late>>
     \/ /\ Missing # {}
        /\ Goto(s, To(s, "drop"))
        /\ UNCHANGED <<batch, run, call, late, env>>
     \/ Lose(s, {}, To(s, "drop"))
     \/ Interrupt(s, {}, To(s, "drop"))
  /\ UNCHANGED others

Pending(s) == {i \in Tasks : sub[s].seen[i] = "none"}

\* One poll lists the rows and then reads the detail of every settled one.
PollRuns(s) ==
  /\ At(s, "watch")
  /\ sub[s].listed = {}
  /\ Pending(s) # {}
  /\ Goto(s, [sub[s] EXCEPT !.listed = {i \in Pending(s) : Settled(i)}])
  /\ UNCHANGED <<batch, run, call, late, env>> /\ UNCHANGED others

\* The detail is a read of its own.  A row without a result is turned into
\* one with the status of the row.  A read that fails leaves the run pending.
ReadDetail(s, i) ==
  /\ At(s, "watch")
  /\ i \in sub[s].listed
  /\ \/ /\ Goto(s, [sub[s] EXCEPT !.listed = @ \ {i}, !.seen[i] = run[i]])
        /\ UNCHANGED <<batch, run, call, late, env>>
     \/ Lose(s, {}, [sub[s] EXCEPT !.listed = @ \ {i}])
  /\ UNCHANGED others

\* With every result read, the batch is polled until it is settled; at the
\* deadline the wait ends as it stands.
PollBatch(s) ==
  /\ At(s, "watch")
  /\ sub[s].listed = {}
  /\ \/ /\ Goto(s, IF Pending(s) = {} THEN [To(s, "verdict") EXCEPT !.status = batch.status]
                                       ELSE To(s, "verdict"))
        /\ UNCHANGED <<batch, run, call, late, env>>
     \/ Pending(s) = {} /\ Lose(s, {}, To(s, "verdict"))
     \/ Interrupt(s, {}, To(s, "drop"))
  /\ UNCHANGED others

\* The stored verdict, if it is one and every result was read.
Verdict(s) ==
  IF sub[s].status \in TerminalBatch /\ Pending(s) = {} THEN sub[s].status ELSE "blocked"

\* The owner's projection is repaired from what was read, and settled if the
\* batch is; nothing is projected from an observation that timed out.
ShowVerdict(s) ==
  /\ At(s, "verdict")
  /\ \/ /\ call' = IF Pending(s) = {} /\ sub[s].status \in TerminalBatch
                     THEN [call EXCEPT ![batch.token] = tool_call_status_for_batch(Verdict(s))]
                     ELSE call
        /\ Goto(s, [To(s, "tidy") EXCEPT !.answer = Verdict(s)])
        /\ UNCHANGED <<batch, run, late, env>>
     \/ Pending(s) = {} /\ Lose(s, {}, To(s, "drop"))
     \/ Interrupt(s, {}, To(s, "drop"))
  /\ UNCHANGED others

\* A provisional projection that is still there is removed or settled, and
\* then the step is settled once more, which may raise.
Tidy(s) ==
  /\ At(s, "tidy")
  /\ \/ /\ IF sub[s].prov
             THEN \/ call' = [call EXCEPT ![s] = "gone"] /\ UNCHANGED env
                  \/ /\ CallIsLost
                     /\ call' = [call EXCEPT ![s] = tool_call_status_for_batch(sub[s].answer)]
             ELSE UNCHANGED <<call, env>>
        /\ Goto(s, To(s, "returned"))
        /\ UNCHANGED <<batch, run, late>>
     \/ sub[s].prov /\ sub[s].status \in TerminalBatch /\ Lose(s, {}, [To(s, "drop") EXCEPT !.answer = "none"])
     \/ Interrupt(s, {}, [To(s, "drop") EXCEPT !.answer = "none"])
  /\ UNCHANGED others

\* The same when the observation raised.
Drop(s) ==
  /\ At(s, "drop")
  /\ IF sub[s].prov
       THEN \/ call' = [call EXCEPT ![s] = "gone"] /\ UNCHANGED env
            \/ /\ CallIsLost
               /\ call' = [call EXCEPT ![s] = "failed"]
       ELSE UNCHANGED <<call, env>>
  /\ Goto(s, To(s, "raised"))
  /\ UNCHANGED <<batch, run, late>> /\ UNCHANGED others

-----------------------------------------------------------------------------
(* The user, the reconciler, crashes *)

\* cancel_turn cancels an active batch with its runs and then shows what is
\* stored.
CancelTurn ==
  /\ env.cancels
  /\ user = "idle"
  /\ BatchActive
  /\ Apply(CancelBatchCall(Nobody))
  /\ user' = "show"
  /\ UNCHANGED <<call, late, sub, converge, rec, retries, env>>

ShowCancelled ==
  /\ user = "show"
  /\ Show(batch.token, tool_call_status_for_batch(batch.status))
  /\ user' = "done"
  /\ UNCHANGED <<batch, run, late, sub, converge, rec, retries>>

\* The batch is silent when the submission that owns it is over, and its
\* convergence task, which is shorter than the stale window, is over too.
Silent == batch # NoBatch /\ sub[batch.token].pc \in Ended /\ batch.token \notin converge

\* A starting process sweeps: the active runs of a silent batch are failed or
\* blocked, and the batch is reported if it is active.
SweepStaleRuns ==
  LET swept(i) == IF run[i] = "queued" THEN "blocked" ELSE "failed" IN
  /\ rec = "idle"
  /\ Silent
  /\ BatchActive \/ \E i \in Tasks : run[i] \in ActiveRun
  /\ run' = [i \in Tasks |-> IF run[i] \in ActiveRun THEN swept(i) ELSE run[i]]
  /\ rec' = "swept"
  /\ UNCHANGED <<batch, call, late, sub, converge, user, retries, env>>

Publish(status) ==
  IF call[batch.token] \in {"none", "gone"} THEN UNCHANGED <<call, env>>
                      ELSE Show(batch.token, tool_call_status_for_batch(status))

\* Mutated form: a batch is finalized when all its rows are there.
_finalize_stale_batch_allRows ==
  LET ready == \A i \in Tasks : Settled(i) IN
  /\ rec = "swept"
  /\ IF BatchActive
       THEN /\ rec' = IF ready THEN batch_status(Join, {run[i] : i \in Tasks}) ELSE "idle"
            /\ UNCHANGED <<call, env>>
       ELSE /\ rec' = "idle"
            /\ IF ready THEN Publish(batch.status) ELSE UNCHANGED <<call, env>>
  /\ UNCHANGED <<batch, run, late, sub, converge, user, retries>>

\* A settled batch is republished.  One without runs is left alone; one with
\* an active run is not finalized yet; else its status is aggregated.
_finalize_stale_batch ==
  LET made == Tasks \ Missing
      ready == made # {} /\ \A i \in made : Settled(i)
  IN
  /\ rec = "swept"
  /\ IF BatchActive
       THEN /\ rec' = IF ready THEN batch_status(Join, {run[i] : i \in made}) ELSE "idle"
            /\ UNCHANGED <<call, env>>
       ELSE /\ rec' = "idle"
            /\ IF ready THEN Publish(batch.status) ELSE UNCHANGED <<call, env>>
  /\ UNCHANGED <<batch, run, late, sub, converge, user, retries>>

\* The stored status is the one that is published.
FinalizeUpdate ==
  /\ rec \in TerminalBatch
  /\ rec' = "idle"
  /\ Apply(UpdateBatchCall(Nobody, rec))
  /\ Publish(batch'.status)
  /\ UNCHANGED <<late, sub, converge, user, retries>>

\* A process dies with its submission and its convergence task.
Crash(s) ==
  /\ env.crashes
  /\ ~At(s, "crashed")
  /\ sub[s].pc \notin Ended \/ s \in converge
  /\ Goto(s, [To(s, "crashed") EXCEPT !.answer = "none"])
  /\ converge' = converge \ {s}
  /\ UNCHANGED <<batch, run, call, late, user, rec, retries, env>>

-----------------------------------------------------------------------------
Submission(s) ==
  \/ _find_existing_submission_batch(s)
  \/ _create_batch_projection(s)
  \/ plan(s)
  \/ materialize_batch(s)
  \/ AbandonProjection(s)
  \/ create_runs(s)
  \/ \E i \in Tasks, st \in TaskStatus : RunStep(s, i, st)
  \/ ExecutionEnds(s)
  \/ ListFinalRuns(s)
  \/ CloseBatch(s)
  \/ SyncProjection(s)
  \/ CancelActiveRuns(s)
  \/ _mark_batch_failed(s)
  \/ _mark_batch_cancelled(s)
  \/ ReloadCancelled(s)
  \/ SettleProjection(s)
  \/ load_existing_batch_runs(s)
  \/ PollRuns(s)
  \/ \E i \in Tasks : ReadDetail(s, i)
  \/ PollBatch(s)
  \/ ShowVerdict(s)
  \/ Tidy(s)
  \/ Drop(s)

Convergence(s) == _cancel_owned_batch_when_visible(s) \/ ConvergeTimeout(s)

Recovery == SweepStaleRuns \/ _finalize_stale_batch \/ FinalizeUpdate

Next ==
  \/ \E s \in Submitters : Submission(s) \/ Convergence(s) \/ Crash(s)
  \/ \E q \in late : Land(q)
  \/ CancelTurn
  \/ ShowCancelled
  \/ Recovery

Spec == Init /\ [][Next]_vars

\* Every coroutine is resumed, waits have deadlines, calls in flight land or
\* expire, and a crashed process is replaced by one that sweeps.
Fairness ==
  /\ \A s \in Submitters : WF_vars(Submission(s)) /\ WF_vars(Convergence(s))
  /\ WF_vars(\E q \in late : Land(q))
  /\ WF_vars((\E s \in Submitters : At(s, "crashed")) /\ Recovery)

FairSpec == Spec /\ Fairness
-----------------------------------------------------------------------------
(* What the lifecycle promises *)

\* Only the submission whose token the batch row carries creates runs,
\* executes, closes or cancels the batch as its owner (create_batch's created
\* flag; batch_id and the run keys derive from the submission_id).
OneOwner ==
  \A s \in Submitters : sub[s].pc \in Owning => batch.token = s

\* Every answer is about a batch with the submission's own content and tells
\* its stored, final verdict; only a duplicate that could not observe it
\* answers "blocked" instead (update_batch's authoritative row, the observer's
\* reread, the fingerprint checks).
AnswersAsStored ==
  \A s \in Submitters : At(s, "returned") =>
    /\ SameFingerprint(s)
    /\ \/ sub[s].answer = batch.status
       \/ sub[s].answer = "blocked" /\ batch.token # s

\* The plan shows a batch as successful only if it is stored as completed,
\* whoever settled the projection: owner, observer, user or reconciler.
SuccessShownIsStored ==
  ~env.interrupts /\ batch # NoBatch /\ call[batch.token] = "successful" =>
    batch.status = "completed"

\* After its owner crashed a batch with at least one run row settles
\* (sweep, then _finalize_stale_batch).
OrphanWithRunsSettles ==
  (\E s \in Submitters : At(s, "crashed") /\ batch.token = s /\ Missing # Tasks)
    ~> batch.status \in TerminalBatch

=============================================================================
